----------------------- MODULE RegistrationFlowProofs -----------------------
(***************************************************************************)
(* Proofs about RegistrationFlow, for any passengers, requests, addresses  *)
(* and faults: how a profile may change, and when two profiles may hold    *)
(* one address.                                                            *)
(***************************************************************************)
EXTENDS RegistrationFlow, SequenceTheorems, TLAPS

\* Requests are made by registered passengers.
Live == [pc : {"verify", "update"}, who : Registered, email : Emails, open : BOOLEAN]

RequestTypes == request \in [Requests -> {NoRequest} \cup Live]

Types == TypeOK /\ RequestTypes

Becomes(r, new) == request' = [request EXCEPT ![r] = new]

\* What each step of a request is to the rest.
LEMMA FinishShape ==
    ASSUME NEW r \in Requests, Finish(r)
    PROVE  \E new \in {NoRequest} \cup Live : Becomes(r, new)
  BY Zenon DEF Finish, Becomes

LEMMA ArriveShape ==
    ASSUME NEW r \in Requests, NEW p \in Registered, NEW email \in Emails,
           Arrive(r, p, email)
    PROVE  /\ UNCHANGED <<session, profile>>
           /\ \E new \in {NoRequest} \cup Live : Becomes(r, new)
<1> DEFINE new == [pc |-> "verify", who |-> p, email |-> email, open |-> p \in session]
<1>1. new \in Live
  BY DEF Live
<1>2. Becomes(r, new) /\ UNCHANGED <<session, profile>>
  BY DEF Arrive, Becomes
<1> HIDE DEF new
<1> QED
  BY <1>1, <1>2

LEMMA VerifyShape ==
    ASSUME Types, NEW r \in Requests, Verify(r)
    PROVE  /\ UNCHANGED <<session, profile>>
           /\ \E new \in {NoRequest} \cup Live : Becomes(r, new)
<1>1. CASE request[r].who \in session
  <2> DEFINE new == [request[r] EXCEPT !.pc = "update"]
  <2>1. request[r] \in Live
    BY DEF Verify, Types, RequestTypes, NoRequest
  <2>2. new \in Live
    BY <2>1 DEF Live
  <2>3. Becomes(r, new) /\ UNCHANGED <<session, profile>>
    BY <1>1 DEF Verify, Becomes
  <2> HIDE DEF new
  <2> QED
    BY <2>2, <2>3
<1>2. CASE request[r].who \notin session
  BY <1>2, FinishShape DEF Verify
<1> QED
  BY <1>1, <1>2

LEMMA UpdateShape ==
    ASSUME Types, NEW r \in Requests, Update(r)
    PROVE  /\ UNCHANGED session
           /\ request[r] \in Live /\ request[r].pc = "update"
           /\ \E new \in {NoRequest} \cup Live : Becomes(r, new)
           /\ \/ UNCHANGED profile
              \/ /\ HasProfile(request[r].who)
                 /\ ~Taken(request[r].who, Lower[request[r].email])
                 /\ profile' = [profile EXCEPT
                                  ![request[r].who] = Lower[request[r].email]]
<1>1. request[r] \in Live
  BY DEF Update, Types, RequestTypes, NoRequest
<1>2. \E new \in {NoRequest} \cup Live : Becomes(r, new)
  BY FinishShape DEF Update
<1> QED
  BY <1>1, <1>2 DEF Update

LEMMA EndpointShape ==
    ASSUME Types, NEW r \in Requests, Endpoint(r)
    PROVE  /\ UNCHANGED <<session, form, log, refused, parked, faults>>
           /\ \E new \in {NoRequest} \cup Live : Becomes(r, new)
           /\ UNCHANGED profile \/ Update(r)
<1>1. UNCHANGED <<form, log, refused, parked, faults>>
  BY DEF Endpoint
<1>2. ASSUME NEW p \in Registered, NEW email \in Emails, Arrive(r, p, email)
      PROVE  /\ UNCHANGED <<session, profile>>
             /\ \E new \in {NoRequest} \cup Live : Becomes(r, new)
  BY <1>2, ArriveShape
<1>3. CASE Verify(r)
  BY <1>1, <1>3, VerifyShape
<1>4. CASE Update(r)
  BY <1>1, <1>4, UpdateShape
<1>5. CASE Fails(r)
  BY <1>1, <1>5, FinishShape DEF Fails
<1>6. CASE \E p \in Registered, email \in Emails : Arrive(r, p, email)
  BY <1>1, <1>2, <1>6
<1> QED
  BY <1>3, <1>4, <1>5, <1>6 DEF Endpoint, Patch

LEMMA RegisterShape ==
    ASSUME Types, NEW p \in Passengers, Register(p)
    PROVE  /\ UNCHANGED <<profile, request, log, refused, parked, faults>>
           /\ session' = session \cup {p}
           /\ p \notin Registered /\ Registered' = Registered \cup {p}
           /\ \E f \in Forms : form' = [form EXCEPT ![p] = f]
  BY DEF Register, Publication!Commit

LEMMA PublishShape ==
    ASSUME NEW p \in Passengers, Publish(p)
    PROVE  /\ UNCHANGED <<profileVars, form, refused, parked, faults>>
           /\ p \in Registered /\ log' = Append(log, p)
  BY DEF Publish, Publication!Publish

\* An event is handled in one of four ways.
LEMMA HandleShape ==
    ASSUME NEW k \in DOMAIN log, HandleEvent(k) \/ AttemptsFail(k)
    PROVE  /\ UNCHANGED <<session, request, form, log>>
           /\ faults' \in {faults, faults + 1}
           /\ faults' # faults => faults < MaxFaults
           /\ \/ UNCHANGED <<profile, refused>> /\ parked' = parked \cup {k}
              \/ UNCHANGED <<profile, parked>> /\ refused' = refused \cup {log[k]}
              \/ /\ UNCHANGED <<refused, parked>>
                 /\ ~HasProfile(log[k]) /\ ~Taken(log[k], form[log[k]].email)
                 /\ profile' = [profile EXCEPT ![log[k]] = form[log[k]].email]
  BY DEF HandleEvent, AttemptsFail, ParkUnknownCity, SkipTakenEmail, CreateProfile,
     Create, Delivery!Park, Delivery!Refuse, Delivery!Store, profileVars

-----------------------------------------------------------------------------
\* Type correctness, with the fact that requests come from the registered.
LEMMA RequestStep ==
    ASSUME RequestTypes, NEW r \in Requests, Registered' = Registered,
           \E new \in {NoRequest} \cup Live : Becomes(r, new)
    PROVE  RequestTypes'
<1>1. Live' = Live
  BY DEF Live
<1> QED
  BY <1>1 DEF RequestTypes, Becomes

LEMMA TypeStep == Types /\ [Next]_vars => Types'
<1> SUFFICES ASSUME Types, [Next]_vars PROVE Types'
  OBVIOUS
<1>0. /\ TypeOK /\ RequestTypes /\ MaxFaults \in Nat
      /\ DOMAIN log = 1..Len(log) /\ Len(log) \in Nat
      /\ \A k \in DOMAIN log : log[k] \in Registered
      /\ Registered \subseteq Passengers
  BY BoundAssumption DEF Types, TypeOK, Registered
<1>1. ASSUME NEW p \in Passengers, Register(p) PROVE Types'
  <2>1. /\ UNCHANGED <<profile, request, log, refused, parked, faults>>
        /\ session' = session \cup {p}
        /\ p \notin Registered /\ Registered' = Registered \cup {p}
        /\ \E f \in Forms : form' = [form EXCEPT ![p] = f]
    BY <1>1, RegisterShape
  <2>2. form' \in [Passengers -> Forms \cup {NoForm}]
    BY <1>0, <2>1 DEF TypeOK
  <2>3. log' \in Seq(Registered')
    BY <1>0, <2>1 DEF TypeOK
  <2>4. TypeOK'
    BY <1>0, <2>1, <2>2, <2>3 DEF TypeOK, ProfileTypeOK, HasProfile, InLog
  <2>5. Live \subseteq Live'
    BY <2>1 DEF Live
  <2>6. RequestTypes'
    BY <1>0, <2>1, <2>5 DEF RequestTypes
  <2> QED
    BY <2>4, <2>6 DEF Types
<1>2. ASSUME NEW p \in Passengers, SignIn(p) PROVE Types'
  <2>1. /\ p \in Registered /\ session' = session \cup {p}
        /\ UNCHANGED <<profile, form, log, refused, parked, faults>>
        /\ request' = [r \in Requests |->
              IF request[r].who = p THEN [request[r] EXCEPT !.open = TRUE] ELSE request[r]]
    BY <1>2 DEF SignIn, Login
  <2>2. Live' = Live /\ Registered' = Registered
    BY <2>1 DEF Live, Registered
  <2>3. ASSUME NEW r \in Requests PROVE request'[r] \in {NoRequest} \cup Live
    <3>1. request[r] \in {NoRequest} \cup Live
      BY <1>0 DEF RequestTypes
    <3>2. CASE request[r] = NoRequest
      BY <2>1, <3>2, EmailAssumption DEF NoRequest
    <3>3. CASE request[r] \in Live
      BY <2>1, <3>3 DEF Live
    <3> QED
      BY <3>1, <3>2, <3>3
  <2>4. RequestTypes'
    BY <2>1, <2>2, <2>3 DEF RequestTypes
  <2>5. request' \in [Requests -> {NoRequest} \cup
           [pc : {"verify", "update"}, who : Passengers, email : Emails, open : BOOLEAN]]
    BY <1>0, <2>1, <2>3 DEF Live
  <2> QED
    BY <1>0, <2>1, <2>2, <2>4, <2>5 DEF Types, TypeOK, ProfileTypeOK, HasProfile, InLog
<1>3. ASSUME NEW p \in Passengers, SignOut(p) PROVE Types'
  <2>1. session' = session \ {p}
        /\ UNCHANGED <<profile, request, form, log, refused, parked, faults>>
    BY <1>3 DEF SignOut, Logout
  <2>2. Live' = Live /\ Registered' = Registered
    BY <2>1 DEF Live, Registered
  <2> QED
    BY <1>0, <2>1, <2>2 DEF Types, TypeOK, ProfileTypeOK, RequestTypes, HasProfile, InLog
<1>4. ASSUME NEW p \in Passengers, Publish(p) PROVE Types'
  <2>1. /\ UNCHANGED <<profile, session, request, form, refused, parked, faults>>
        /\ p \in Registered /\ log' = Append(log, p)
    BY <1>4, PublishShape DEF profileVars
  <2>2. Live' = Live /\ Registered' = Registered
    BY <2>1 DEF Live, Registered
  <2>3. /\ log' \in Seq(Registered) /\ DOMAIN log \subseteq DOMAIN log'
        /\ \A k \in DOMAIN log : log'[k] = log[k]
    BY <1>0, <2>1 DEF TypeOK
  <2>4. InLog \subseteq InLog'
    BY <2>3 DEF InLog
  <2> QED
    BY <1>0, <2>1, <2>2, <2>3, <2>4 DEF Types, TypeOK, ProfileTypeOK, RequestTypes, HasProfile
<1>5. ASSUME NEW k \in DOMAIN log, HandleEvent(k) \/ AttemptsFail(k) PROVE Types'
  <2>1. /\ UNCHANGED <<session, request, form, log>>
        /\ faults' \in {faults, faults + 1}
        /\ faults' # faults => faults < MaxFaults
        /\ \/ UNCHANGED <<profile, refused>> /\ parked' = parked \cup {k}
           \/ UNCHANGED <<profile, parked>> /\ refused' = refused \cup {log[k]}
           \/ /\ UNCHANGED <<refused, parked>>
              /\ profile' = [profile EXCEPT ![log[k]] = form[log[k]].email]
    BY <1>5, HandleShape
  <2>2. Live' = Live /\ Registered' = Registered /\ InLog' = InLog
    BY <2>1 DEF Live, Registered, InLog
  <2>3. faults' \in 0..MaxFaults
    BY <1>0, <2>1 DEF TypeOK
  <2>4. log[k] \in Registered /\ form[log[k]].email \in Emails \cup {NoEmail}
    BY <1>0 DEF TypeOK, Registered, Forms
  <2>5. refused' \subseteq InLog /\ parked' \subseteq DOMAIN log
    BY <1>0, <2>1 DEF TypeOK, InLog
  <2>6. profile' \in [Passengers -> Emails \cup {NoEmail, NoProfile}]
    BY <1>0, <2>1, <2>4 DEF TypeOK, ProfileTypeOK
  <2>7. {p \in Passengers : HasProfile(p)'} \subseteq Registered
    BY <1>0, <2>1, <2>4 DEF TypeOK, ProfileTypeOK, HasProfile
  <2> QED
    BY <1>0, <2>1, <2>2, <2>3, <2>5, <2>6, <2>7
       DEF Types, TypeOK, ProfileTypeOK, RequestTypes
<1>6. ASSUME NEW r \in Requests, Endpoint(r) PROVE Types'
  <2>1. /\ UNCHANGED <<session, form, log, refused, parked, faults>>
        /\ \E new \in {NoRequest} \cup Live : Becomes(r, new)
        /\ UNCHANGED profile \/ Update(r)
    BY <1>6, EndpointShape
  <2>2. Live' = Live /\ Registered' = Registered /\ InLog' = InLog
    BY <2>1 DEF Live, Registered, InLog
  <2>3. RequestTypes'
    BY <1>0, <2>1, <2>2, RequestStep
  <2>4. request' \in [Requests -> {NoRequest} \cup
           [pc : {"verify", "update"}, who : Passengers, email : Emails, open : BOOLEAN]]
    BY <1>0, <2>2, <2>3 DEF RequestTypes, Live
  <2>5. /\ profile' \in [Passengers -> Emails \cup {NoEmail, NoProfile}]
        /\ {p \in Passengers : HasProfile(p)'} \subseteq Registered
    <3>1. CASE UNCHANGED profile
      BY <1>0, <3>1 DEF TypeOK, ProfileTypeOK, HasProfile
    <3>2. CASE ~UNCHANGED profile
      <4>1. /\ request[r] \in Live /\ HasProfile(request[r].who)
            /\ profile' = [profile EXCEPT ![request[r].who] = Lower[request[r].email]]
        BY <2>1, <3>2, UpdateShape
      <4>2. Lower[request[r].email] \in Emails /\ request[r].who \in Registered
        BY <4>1, EmailAssumption DEF Live
      <4> QED
        BY <1>0, <4>1, <4>2 DEF TypeOK, ProfileTypeOK, HasProfile
    <3> QED
      BY <3>1, <3>2
  <2> QED
    BY <1>0, <2>1, <2>2, <2>3, <2>4, <2>5 DEF Types, TypeOK, ProfileTypeOK
<1>7. CASE UNCHANGED vars
  <2>1. Live' = Live /\ Registered' = Registered
    BY <1>7 DEF vars, profileVars, Live, Registered
  <2> QED
    BY <1>0, <1>7, <2>1 DEF vars, profileVars, Types, TypeOK, ProfileTypeOK,
       RequestTypes, HasProfile, InLog
<1> QED
  BY <1>1, <1>2, <1>3, <1>4, <1>5, <1>6, <1>7 DEF Next

LEMMA TypesHold == Spec => []Types
<1>1. Init => Types
  <2> SUFFICES ASSUME Init PROVE Types
    OBVIOUS
  <2>1. TypeOK
    BY BoundAssumption DEF Init, ProfileInit, TypeOK, ProfileTypeOK, HasProfile
  <2> QED
    BY <2>1 DEF Init, ProfileInit, Types, RequestTypes
<1> QED
  BY <1>1, TypeStep, PTL DEF Spec

\* Type correctness of every reachable state.
THEOREM TypeCorrect == Spec => []TypeOK
<1>1. Types => TypeOK
  BY DEF Types
<1> QED
  BY <1>1, TypesHold, PTL

-----------------------------------------------------------------------------
\* A request that reached its update had a valid session at some time, and so
\* has every request of a passenger who is logged in.
OpenInv ==
    \A r \in Requests :
        /\ request[r].pc = "update" => request[r].open
        /\ request[r].who \in session => request[r].open

LEMMA OpenStep == Types /\ OpenInv /\ [Next]_vars => OpenInv'
<1> SUFFICES ASSUME Types, OpenInv, [Next]_vars PROVE OpenInv'
  OBVIOUS
<1>0. /\ request \in [Requests -> {NoRequest} \cup Live]
      /\ session \subseteq Passengers /\ Registered \subseteq Passengers
      /\ NoRequest.pc # "update" /\ NoRequest.who \notin Passengers
  BY EmailAssumption DEF Types, RequestTypes, TypeOK, ProfileTypeOK, NoRequest, Registered
<1>1. ASSUME NEW p \in Passengers, Register(p) PROVE OpenInv'
  <2>1. request' = request /\ session' = session \cup {p} /\ p \notin Registered
    BY <1>1, RegisterShape
  <2>2. \A r \in Requests : request[r].who # p
    BY <1>0, <2>1 DEF Live
  <2> QED
    BY <2>1, <2>2 DEF OpenInv
<1>2. ASSUME NEW p \in Passengers, SignIn(p) PROVE OpenInv'
  <2>1. /\ session' = session \cup {p}
        /\ request' = [r \in Requests |->
              IF request[r].who = p THEN [request[r] EXCEPT !.open = TRUE] ELSE request[r]]
    BY <1>2 DEF SignIn, Login
  <2>2. ASSUME NEW r \in Requests
        PROVE  /\ request'[r].pc = "update" => request'[r].open
               /\ request'[r].who \in session' => request'[r].open
    <3>1. CASE request[r].who = p
      <4>1. request[r] \in Live
        BY <1>0, <3>1
      <4> QED
        BY <2>1, <3>1, <4>1 DEF Live
    <3>2. CASE request[r].who # p
      BY <2>1, <3>2 DEF OpenInv
    <3> QED
      BY <3>1, <3>2
  <2> QED
    BY <2>2 DEF OpenInv
<1>3. ASSUME NEW p \in Passengers, SignOut(p) PROVE OpenInv'
  BY <1>3 DEF SignOut, Logout, OpenInv
<1>4. ASSUME NEW r \in Requests, Endpoint(r) PROVE OpenInv'
  <2>1. session' = session
    BY <1>4, EndpointShape
  <2>2. ASSUME NEW new, Becomes(r, new),
               new.pc = "update" => new.open, new.who \in session => new.open
        PROVE  OpenInv'
    BY <1>0, <2>1, <2>2 DEF Becomes, OpenInv
  <2>3. ASSUME Finish(r) PROVE OpenInv'
    <3>1. Becomes(r, NoRequest)
      BY <2>3 DEF Finish, Becomes
    <3> QED
      BY <1>0, <2>2, <3>1
  <2>4. ASSUME NEW p \in Registered, NEW email \in Emails, Arrive(r, p, email)
        PROVE  OpenInv'
    <3> DEFINE new == [pc |-> "verify", who |-> p, email |-> email, open |-> p \in session]
    <3>1. Becomes(r, new)
      BY <2>4 DEF Arrive, Becomes
    <3>2. new.pc # "update" /\ (new.who \in session => new.open)
      OBVIOUS
    <3> HIDE DEF new
    <3> QED
      BY <2>2, <3>1, <3>2
  <2>5. ASSUME Verify(r), request[r].who \in session PROVE OpenInv'
    <3> DEFINE new == [request[r] EXCEPT !.pc = "update"]
    <3>1. Becomes(r, new)
      BY <2>5 DEF Verify, Becomes
    <3>2. request[r] \in Live /\ request[r].open
      BY <1>0, <2>5 DEF OpenInv
    <3>3. new.open
      BY <3>2 DEF Live
    <3> HIDE DEF new
    <3> QED
      BY <2>2, <3>1, <3>3
  <2> QED
    BY <1>4, <2>3, <2>4, <2>5 DEF Endpoint, Patch, Verify, Update, Fails
<1>5. ASSUME UNCHANGED <<session, request>> PROVE OpenInv'
  BY <1>5 DEF OpenInv
<1>6. ASSUME NEW p \in Passengers, Publish(p) PROVE OpenInv'
  BY <1>5, <1>6, PublishShape DEF profileVars
<1>7. ASSUME NEW k \in DOMAIN log, HandleEvent(k) \/ AttemptsFail(k) PROVE OpenInv'
  BY <1>5, <1>7, HandleShape
<1>8. CASE UNCHANGED vars
  BY <1>5, <1>8 DEF vars, profileVars
<1> QED
  BY <1>1, <1>2, <1>3, <1>4, <1>6, <1>7, <1>8 DEF Next

\* A profile changes by its event, once, or by a request that its owner's
\* session let through.
THEOREM Followed == Spec => ProfilesFollowEvents
<1>1. Init => OpenInv
  BY DEF Init, ProfileInit, OpenInv, NoRequest
<1>2. Types /\ OpenInv /\ [Next]_vars =>
         [\A p \in Passengers : profile'[p] # profile[p] =>
             IF HasProfile(p)
             THEN \E r \in Requests :
                      request[r].pc = "update" /\ request[r].who = p /\ request[r].open
             ELSE p \in InLog /\ profile'[p] = form[p].email]_vars
  <2> SUFFICES ASSUME Types, OpenInv, Next,
                      NEW p \in Passengers, profile'[p] # profile[p]
               PROVE  IF HasProfile(p)
                      THEN \E r \in Requests : /\ request[r].pc = "update"
                                               /\ request[r].who = p /\ request[r].open
                      ELSE p \in InLog /\ profile'[p] = form[p].email
    OBVIOUS
  <2>0. profile \in [Passengers -> Emails \cup {NoEmail, NoProfile}]
    BY DEF Types, TypeOK, ProfileTypeOK
  <2>1. CASE \E q \in Passengers : Register(q) \/ SignIn(q) \/ SignOut(q) \/ Publish(q)
    BY <2>1 DEF Register, SignIn, Login, SignOut, Logout, Publish, profileVars
  <2>2. ASSUME NEW k \in DOMAIN log, HandleEvent(k) \/ AttemptsFail(k)
        PROVE  ~HasProfile(p) /\ p \in InLog /\ profile'[p] = form[p].email
    <3>1. /\ ~HasProfile(log[k])
          /\ profile' = [profile EXCEPT ![log[k]] = form[log[k]].email]
      BY <2>2, HandleShape
    <3>2. p = log[k]
      BY <2>0, <3>1
    <3> QED
      BY <2>0, <3>1, <3>2 DEF InLog
  <2>3. ASSUME NEW r \in Requests, Endpoint(r)
        PROVE  /\ HasProfile(p) /\ request[r].pc = "update"
               /\ request[r].who = p /\ request[r].open
    <3>1. Update(r)
      BY <2>3, EndpointShape
    <3>2. /\ HasProfile(request[r].who) /\ request[r].pc = "update"
          /\ profile' = [profile EXCEPT ![request[r].who] = Lower[request[r].email]]
      BY <3>1, UpdateShape
    <3>3. p = request[r].who
      BY <2>0, <3>2
    <3> QED
      BY <3>2, <3>3 DEF OpenInv
  <2> QED
    BY <2>1, <2>2, <2>3 DEF Next
<1> QED
  BY <1>1, <1>2, OpenStep, TypesHold, PTL DEF Spec, ProfilesFollowEvents

-----------------------------------------------------------------------------
\* No two profiles have one email as it is spelled, and the spelling is lower
\* case or that of the registration.
SpellInv ==
    /\ \A p, q \in Passengers : p # q /\ profile[p] \in Emails => profile[p] # profile[q]
    /\ \A p \in Passengers : profile[p] \in Emails =>
          Lower[profile[p]] = profile[p] \/ profile[p] = form[p].email

\* The write of an email that nobody else has, in one of the two spellings.
LEMMA SpellWrite ==
    ASSUME Types, SpellInv, NEW p \in Passengers, NEW email,
           ~Taken(p, email), UNCHANGED form,
           profile' = [profile EXCEPT ![p] = email],
           email \in Emails => Lower[email] = email \/ email = form[p].email
    PROVE  SpellInv'
<1>1. /\ profile \in [Passengers -> Emails \cup {NoEmail, NoProfile}]
      /\ NoEmail \notin Emails
  BY EmailAssumption DEF Types, TypeOK, ProfileTypeOK
<1>2. email \in Emails => \A q \in Passengers \ {p} : profile[q] # email
  BY <1>1 DEF Taken
<1>3. \A q \in Passengers : profile'[q] = IF q = p THEN email ELSE profile[q]
  BY <1>1
<1>4. \A q \in Passengers : profile'[q] \in Emails =>
         Lower[profile'[q]] = profile'[q] \/ profile'[q] = form'[q].email
  BY <1>3 DEF SpellInv
<1>5. \A q, o \in Passengers : q # o /\ profile'[q] \in Emails => profile'[q] # profile'[o]
  <2> SUFFICES ASSUME NEW q \in Passengers, NEW o \in Passengers, q # o,
                      profile'[q] \in Emails
               PROVE  profile'[q] # profile'[o]
    OBVIOUS
  <2>1. CASE q = p
    BY <1>2, <1>3, <2>1
  <2>2. CASE o = p
    BY <1>2, <1>3, <2>2
  <2>3. CASE q # p /\ o # p
    BY <1>3, <2>3 DEF SpellInv
  <2> QED
    BY <2>1, <2>2, <2>3
<1> QED
  BY <1>4, <1>5 DEF SpellInv

LEMMA SpellStep == Types /\ SpellInv /\ [Next]_vars => SpellInv'
<1> SUFFICES ASSUME Types, SpellInv, [Next]_vars PROVE SpellInv'
  OBVIOUS
<1>1. ASSUME UNCHANGED <<profile, form>> PROVE SpellInv'
  BY <1>1 DEF SpellInv
<1>2. ASSUME NEW p \in Passengers, Register(p) PROVE SpellInv'
  <2>1. /\ profile' = profile /\ p \notin Registered
        /\ \E f \in Forms : form' = [form EXCEPT ![p] = f]
    BY <1>2, RegisterShape
  <2>2. profile[p] \notin Emails
    BY <2>1, EmailAssumption DEF Types, TypeOK, HasProfile
  <2>3. \A q \in Passengers \ {p} : form'[q] = form[q]
    BY <2>1 DEF Types, TypeOK
  <2> QED
    BY <2>1, <2>2, <2>3 DEF SpellInv
<1>3. ASSUME NEW p \in Passengers, SignIn(p) \/ SignOut(p) \/ Publish(p) PROVE SpellInv'
  BY <1>1, <1>3 DEF SignIn, Login, SignOut, Logout, Publish, profileVars
<1>4. ASSUME NEW k \in DOMAIN log, HandleEvent(k) \/ AttemptsFail(k) PROVE SpellInv'
  <2>1. CASE UNCHANGED profile
    BY <1>1, <1>4, <2>1, HandleShape
  <2>2. CASE ~UNCHANGED profile
    <3>1. /\ UNCHANGED form /\ ~Taken(log[k], form[log[k]].email)
          /\ profile' = [profile EXCEPT ![log[k]] = form[log[k]].email]
      BY <1>4, <2>2, HandleShape
    <3>2. log[k] \in Passengers
      BY DEF Types, TypeOK, Registered
    <3> QED
      BY <3>1, <3>2, SpellWrite
  <2> QED
    BY <2>1, <2>2
<1>5. ASSUME NEW r \in Requests, Endpoint(r) PROVE SpellInv'
  <2>1. CASE UNCHANGED profile
    BY <1>1, <1>5, <2>1, EndpointShape
  <2>2. CASE ~UNCHANGED profile
    <3>1. Update(r) /\ UNCHANGED form
      BY <1>5, <2>2, EndpointShape
    <3>2. /\ request[r] \in Live
          /\ ~Taken(request[r].who, Lower[request[r].email])
          /\ profile' = [profile EXCEPT ![request[r].who] = Lower[request[r].email]]
      BY <2>2, <3>1, UpdateShape
    <3>3. /\ request[r].who \in Passengers
          /\ Lower[Lower[request[r].email]] = Lower[request[r].email]
      BY <3>2, EmailAssumption DEF Live, Registered
    <3> QED
      BY <3>1, <3>2, <3>3, SpellWrite
  <2> QED
    BY <2>1, <2>2
<1>6. CASE UNCHANGED vars
  BY <1>1, <1>6 DEF vars, profileVars
<1> QED
  BY <1>2, <1>3, <1>4, <1>5, <1>6 DEF Next

\* Two passengers share an address in two spellings only, one of them typed at
\* a registration.
THEOREM SharedBySpelling == Spec => []SharedOnlyBySpelling
<1>1. Init => SpellInv
  BY EmailAssumption DEF Init, ProfileInit, SpellInv
<1>2. SpellInv => SharedOnlyBySpelling
  BY DEF SpellInv, SharedOnlyBySpelling
<1> QED
  BY <1>1, <1>2, SpellStep, TypesHold, PTL DEF Spec
-----------------------------------------------------------------------------
\* The profiles and the topic are a consumer group: a profile is created at
\* most once, for an event of the topic, and no PATCH creates or removes one.
THEOREM DeliveryRefined == Spec => Delivery!Safety
<1> DEFINE stored == {p \in Passengers : HasProfile(p)}
<1>1. Init => Delivery!Init
  BY DEF Init, ProfileInit, HasProfile, Delivery!Init
<1>2. Types /\ [Next]_vars => [Delivery!Next]_(Delivery!deliveryVars)
  <2> SUFFICES ASSUME Types, [Next]_vars
               PROVE  Delivery!Next \/ UNCHANGED <<log, stored, refused, parked>>
    BY DEF Delivery!deliveryVars
  <2>0. /\ profile \in [Passengers -> Emails \cup {NoEmail, NoProfile}]
        /\ log \in Seq(Registered) /\ Registered \subseteq Passengers
        /\ form \in [Passengers -> Forms \cup {NoForm}]
    BY DEF Types, TypeOK, ProfileTypeOK, Registered
  <2>1. ASSUME UNCHANGED <<profile, log, refused, parked>>
        PROVE  UNCHANGED <<log, stored, refused, parked>>
    BY <2>1 DEF HasProfile
  <2>2. ASSUME NEW p \in Passengers, Register(p) \/ SignIn(p) \/ SignOut(p)
        PROVE  UNCHANGED <<profile, log, refused, parked>>
    BY <2>2, RegisterShape DEF SignIn, Login, SignOut, Logout
  <2>3. ASSUME NEW p \in Passengers, Publish(p) PROVE Delivery!Next
    <3>1. UNCHANGED <<profile, refused, parked>> /\ log' = Append(log, p)
      BY <2>3, PublishShape DEF profileVars
    <3>2. stored' = stored
      BY <3>1 DEF HasProfile
    <3>3. Delivery!Receive(p)
      BY <3>1, <3>2 DEF Delivery!Receive
    <3> QED
      BY <3>3 DEF Delivery!Next
  <2>4. ASSUME NEW k \in DOMAIN log, HandleEvent(k) \/ AttemptsFail(k) PROVE Delivery!Next
    <3>1. Delivery!Park(k) \/ Delivery!Refuse(k) \/ Delivery!Store(k)
      BY <2>4 DEF HandleEvent, AttemptsFail, ParkUnknownCity, SkipTakenEmail, CreateProfile
    <3> QED
      BY <3>1 DEF Delivery!Next, Delivery!Handle
  <2>5. ASSUME NEW r \in Requests, Endpoint(r)
        PROVE  UNCHANGED <<log, stored, refused, parked>>
    <3>1. CASE UNCHANGED profile
      BY <2>1, <2>5, <3>1 DEF Endpoint
    <3>2. CASE ~UNCHANGED profile
      <4>1. /\ request[r] \in Live /\ HasProfile(request[r].who)
            /\ profile' = [profile EXCEPT ![request[r].who] = Lower[request[r].email]]
        BY <2>5, <3>2, EndpointShape, UpdateShape
      <4>2. Lower[request[r].email] # NoProfile
        BY <4>1, EmailAssumption DEF Live
      <4>3. \A p \in Passengers : HasProfile(p)' <=> HasProfile(p)
        BY <2>0, <4>1, <4>2 DEF HasProfile
      <4> QED
        BY <2>5, <4>3 DEF Endpoint
    <3> QED
      BY <3>1, <3>2
  <2>6. CASE UNCHANGED vars
    BY <2>1, <2>6 DEF vars, profileVars
  <2> QED
    BY <2>1, <2>2, <2>3, <2>4, <2>5, <2>6 DEF Next
<1> QED
  BY <1>1, <1>2, TypesHold, PTL DEF Spec, Delivery!Safety
=============================================================================
