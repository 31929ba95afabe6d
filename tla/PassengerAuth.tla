--------------------------- MODULE PassengerAuth ---------------------------
(***************************************************************************)
(* The account and the session of one phone number in auth-service         *)
(* (src/services/passengerAuthService.js): verify-otp, which logs in or    *)
(* issues a registration ticket, register, logout, and the verification    *)
(* that other services ask for.  Requests overlap at every await.          *)
(*                                                                         *)
(* The session is two fields of the account, currentToken and deviceToken. *)
(* register() writes them in its transaction, logout() in one update; a    *)
(* login reads the document, and saves later the fields it has modified,   *)
(* which for Mongoose are those whose value differs from the one read.     *)
(*                                                                         *)
(* A token is the account it names and the second it was signed in: two    *)
(* logins of one second sign the same token.                               *)
(*                                                                         *)
(* Abstractions: a code is accepted or not, freely (see OtpService); a     *)
(* ticket may expire at any time; a token does not: one that has expired is*)
(* refused before the database is asked; blocking is done from outside this*)
(* repository; no input that the controller lets through fails the event's *)
(* schema; MaxFaults bounds errors and crashes.                            *)
(***************************************************************************)
EXTENDS Naturals, FiniteSets

CONSTANTS Logins,    \* POST /verify-otp requests
          Forms,     \* POST /register requests
          Logouts,   \* POST /logout requests
          Verifies,  \* POST /verify requests
          Devices,
          Device,    \* the deviceToken of each login and form
          None,      \* null
          MaxFaults  \* bound on errors and crashes

Signers == Logins \cup Forms
Callers == Logouts \cup Verifies
Requests == Signers \cup Callers

ASSUME RequestAssumption ==
    /\ IsFiniteSet(Signers) /\ Logins \cap Forms = {}
    /\ Signers \cap Callers = {} /\ Logouts \cap Verifies = {}
ASSUME DeviceAssumption == Device \in [Signers -> Devices] /\ None \notin Devices
ASSUME BoundAssumption == MaxFaults \in Nat

VARIABLES
    accounts,   \* passengers with this phone, by the create() that made them
    rows,       \* outbox rows, by the account whose event they carry
    session,    \* currentToken and deviceToken of the account
    blocked,    \* blockStatus.isBlocked
    ticket,     \* a registration ticket that has not expired is in use
    accepted,   \* codes accepted so far
    pc,         \* pc[q]: what request q does next
    second,     \* the second of the last login that signed a token
    attempt,    \* attempt[q]: runs of a form's transaction callback
    signed,     \* signed[q]: the token that a login or a form has signed
    loaded,     \* loaded[q]: the session in the document q has read
    shown,      \* shown[q]: the session a caller presents
    answer,     \* answer[q]: the HTTP status and the session granted
    raced,      \* a login saved over a session other than the one it read
    faults      \* faults so far

store == <<accounts, rows, session>>
signing == <<second, attempt, signed>>
vars == <<store, blocked, ticket, accepted, pc, signing, loaded, shown,
          answer, raced, faults>>

-----------------------------------------------------------------------------
Accounts == Forms \X (Nat \ {0})
Tokens == Accounts \X Nat
Sessions == [token : Tokens \cup {None}, device : Devices \cup {None}]
NoSession == [token |-> None, device |-> None]

ASSUME NoneAssumption == None \notin Tokens

\* The account made by the run of q's callback, and the session q writes.
Account(q) == <<q, attempt[q]>>
Pair(q) == [token |-> signed[q], device |-> Device[q]]

Steps == {"start", "find", "save", "precheck", "create", "commit",
          "read", "clear", "drop", "done"}

Answers == [status : {0, 200, 201, 400, 401, 409, 500}, grant : Sessions]
Bearing(status, s) == [status |-> status, grant |-> s]
Bare(status) == Bearing(status, NoSession)

TypeOK ==
    /\ accounts \subseteq Accounts /\ rows \subseteq Accounts
    /\ session \in Sessions
    /\ blocked \in BOOLEAN /\ ticket \in BOOLEAN /\ raced \in BOOLEAN
    /\ accepted \in Nat
    /\ pc \in [Requests -> Steps]
    /\ second \in Nat
    /\ attempt \in [Forms -> Nat]
    /\ signed \in [Signers -> Tokens \cup {None}]
    /\ loaded \in [Logins -> Sessions]
    /\ shown \in [Callers -> Sessions]
    /\ answer \in [Requests -> Answers]
    /\ faults \in 0..MaxFaults

Init ==
    /\ accounts = {} /\ rows = {} /\ session = NoSession
    /\ blocked = FALSE /\ ticket = FALSE /\ accepted = 0
    /\ pc = [q \in Requests |-> "start"]
    /\ second = 0
    /\ attempt = [q \in Forms |-> 0]
    /\ signed = [q \in Signers |-> None]
    /\ loaded = [q \in Logins |-> NoSession]
    /\ shown = [q \in Callers |-> NoSession]
    /\ answer = [q \in Requests |-> Bare(0)]
    /\ raced = FALSE /\ faults = 0

Step(q, from, to) == pc[q] = from /\ pc' = [pc EXCEPT ![q] = to]
Reply(q, from, a) == Step(q, from, "done") /\ answer' = [answer EXCEPT ![q] = a]

\* The session a login or a registration was answered with.
Granted(q) == q \in Signers /\ answer[q].grant # NoSession

-----------------------------------------------------------------------------
(* verifyOtpAndLogin().                                                    *)

\* otpService.verifyOtp() accepts the code, or a 400 is answered.
CheckCode(q) ==
    /\ \/ Step(q, "start", "find") /\ accepted' = accepted + 1 /\ UNCHANGED answer
       \/ Reply(q, "start", Bare(400)) /\ UNCHANGED accepted
    /\ UNCHANGED <<store, blocked, ticket, signing, loaded, shown, raced, faults>>

\* signToken(): in the second of the last login that signed, or later.
Sign(q) ==
    \E a \in accounts, s \in {second, second + 1} :
        second' = s /\ signed' = [signed EXCEPT ![q] = <<a, s>>]

\* findOne() of the phone: a ticket for a new user, a 409 for a blocked one,
\* a token for the others.
Find(q) ==
    /\ \/ /\ accounts = {}
          /\ Reply(q, "find", Bare(200)) /\ ticket' = TRUE
          /\ UNCHANGED <<second, signed, loaded>>
       \/ /\ accounts # {} /\ blocked
          /\ Reply(q, "find", Bare(409)) /\ UNCHANGED <<ticket, second, signed, loaded>>
       \/ /\ accounts # {} /\ ~blocked
          /\ Step(q, "find", "save") /\ Sign(q)
          /\ loaded' = [loaded EXCEPT ![q] = session]
          /\ UNCHANGED <<ticket, answer>>
    /\ UNCHANGED <<store, blocked, accepted, attempt, shown, raced, faults>>

\* What save() leaves of a field: it writes the ones whose new value is not
\* the one that was read.
Kept(new, read, now) == IF new = read THEN now ELSE new
Saved(q) == [token  |-> Kept(signed[q], loaded[q].token, session.token),
             device |-> Kept(Device[q], loaded[q].device, session.device)]

SaveApplied(q) ==
    /\ session' = Saved(q)
    /\ raced' = (raced \/ session # loaded[q])
    /\ UNCHANGED <<accounts, rows>>

Save(q) ==
    /\ Reply(q, "save", Bearing(200, Pair(q)))
    /\ SaveApplied(q)
    /\ UNCHANGED <<blocked, ticket, accepted, signing, loaded, shown, faults>>

-----------------------------------------------------------------------------
(* register().                                                             *)

\* verifyRegistrationTicket(): a ticket for this phone, or a 401.
CheckTicket(q) ==
    /\ \/ ticket /\ Step(q, "start", "precheck") /\ UNCHANGED answer
       \/ Reply(q, "start", Bare(401))
    /\ UNCHANGED <<store, blocked, ticket, accepted, signing, loaded, shown,
                   raced, faults>>

\* The first look for an account, outside the transaction.
Precheck(q) ==
    /\ IF accounts = {} THEN Step(q, "precheck", "create") /\ UNCHANGED answer
                        ELSE Reply(q, "precheck", Bare(409))
    /\ UNCHANGED <<store, blocked, ticket, accepted, signing, loaded, shown,
                   raced, faults>>

\* Forms whose transaction has inserted the phone and is open.
InTxn(q) == pc[q] = "commit"

\* Mutants: the account's id is not drawn in the callback, and the phone has
\* no unique index.
CreateKeepsId(q) ==
    /\ accounts = {} /\ \A p \in Forms : ~InTxn(p)
    /\ Step(q, "create", "commit")
    /\ signed' = [signed EXCEPT ![q] = <<Account(q), second>>]
    /\ UNCHANGED <<answer, store, blocked, ticket, accepted, second, attempt,
                   loaded, shown, raced, faults>>
CreateUnindexed(q) ==
    /\ Step(q, "create", "commit")
    /\ attempt' = [attempt EXCEPT ![q] = @ + 1]
    /\ signed' = [signed EXCEPT ![q] = <<<<q, attempt'[q]>>, second>>]
    /\ UNCHANGED <<answer, store, blocked, ticket, accepted, second, loaded,
                   shown, raced, faults>>

\* The callback of withTransaction() up to its end: create(), save() of the
\* session, and the outbox row.  The unique index answers 409 for a phone
\* that is taken; one inserted in an open transaction is a write conflict,
\* and the driver runs the callback again when that transaction has ended.
Create(q) ==
    /\ IF accounts = {}
       THEN /\ \A p \in Forms : ~InTxn(p)
            /\ Step(q, "create", "commit")
            /\ attempt' = [attempt EXCEPT ![q] = @ + 1]
            /\ signed' = [signed EXCEPT ![q] = <<<<q, attempt'[q]>>, second>>]
            /\ UNCHANGED answer
       ELSE Reply(q, "create", Bare(409)) /\ UNCHANGED <<attempt, signed>>
    /\ UNCHANGED <<store, blocked, ticket, accepted, second, loaded, shown, raced,
                   faults>>

\* Mutant: the outbox row names the account of the callback's first run.
CommitAppliedFirstId(q) ==
    /\ accounts' = accounts \cup {Account(q)}
    /\ rows' = rows \cup {<<q, 1>>}
    /\ session' = Pair(q)
    /\ UNCHANGED raced

\* Account, session and outbox row become durable together.
CommitApplied(q) ==
    /\ accounts' = accounts \cup {Account(q)}
    /\ rows' = rows \cup {Account(q)}
    /\ session' = Pair(q)
    /\ UNCHANGED raced

\* Mutant: the token of the callback's first run is answered.
CommitFirstToken(q) ==
    /\ Reply(q, "commit", Bearing(201, [Pair(q) EXCEPT !.token = <<<<q, 1>>, 0>>]))
    /\ CommitApplied(q)
    /\ UNCHANGED <<blocked, ticket, accepted, signing, loaded, shown, faults>>

Commit(q) ==
    /\ Reply(q, "commit", Bearing(201, Pair(q)))
    /\ CommitApplied(q)
    /\ UNCHANGED <<blocked, ticket, accepted, signing, loaded, shown, faults>>

-----------------------------------------------------------------------------
(* requireAuth() and logout(), and verifyToken() of POST /verify.          *)

\* A client presents a session it was granted.
Present(q) ==
    /\ Step(q, "start", "read")
    /\ \E p \in Signers : Granted(p) /\ shown' = [shown EXCEPT ![q] = answer[p].grant]
    /\ UNCHANGED <<store, blocked, ticket, accepted, signing, loaded, answer,
                   raced, faults>>

\* Mutant: a blocked account is refused, but keeps its session.
ReadKeeps(q) ==
    /\ IF session # shown[q] \/ blocked THEN Reply(q, "read", Bare(401))
       ELSE IF q \in Logouts THEN Step(q, "read", "clear") /\ UNCHANGED answer
       ELSE Reply(q, "read", Bare(200))
    /\ UNCHANGED <<store, blocked, ticket, accepted, signing, loaded, shown,
                   raced, faults>>

\* verifyToken(): findOne() of the token and device.  Without a match the
\* answer is a 401; a blocked match is dropped; else /verify answers 200,
\* and a logout goes on.
Read(q) ==
    /\ \/ session # shown[q] /\ Reply(q, "read", Bare(401))
       \/ /\ session = shown[q] /\ blocked
          /\ Step(q, "read", "drop") /\ UNCHANGED answer
       \/ /\ session = shown[q] /\ ~blocked /\ q \in Logouts
          /\ Step(q, "read", "clear") /\ UNCHANGED answer
       \/ /\ session = shown[q] /\ ~blocked /\ q \in Verifies
          /\ Reply(q, "read", Bare(200))
    /\ UNCHANGED <<store, blocked, ticket, accepted, signing, loaded, shown,
                   raced, faults>>

\* Mutant: only the device is forgotten.
SessionClearedHalf == session' = [session EXCEPT !.device = None]
                      /\ UNCHANGED <<accounts, rows, raced>>

\* Both fields are set to null, whatever they are by now.
SessionCleared == session' = NoSession /\ UNCHANGED <<accounts, rows, raced>>

\* findByIdAndUpdate() of logout(), after which the answer is a 200.
Clear(q) ==
    /\ Reply(q, "clear", Bare(200))
    /\ SessionCleared
    /\ UNCHANGED <<blocked, ticket, accepted, signing, loaded, shown, faults>>

\* save() of verifyToken() for a blocked account, answered with a 401.
Drop(q) ==
    /\ Reply(q, "drop", Bare(401))
    /\ SessionCleared
    /\ UNCHANGED <<blocked, ticket, accepted, signing, loaded, shown, faults>>

-----------------------------------------------------------------------------
(* Failures and the outside.                                               *)

Fault == faults < MaxFaults /\ faults' = faults + 1

\* A transient error aborts the transaction; the driver runs it again.
TransientError(q) ==
    /\ Fault
    /\ Step(q, "commit", "create")
    /\ UNCHANGED <<store, blocked, ticket, accepted, signing, loaded, shown,
                   answer, raced>>

\* The write a request awaits.
WriteApplied(q) ==
    \/ pc[q] = "save" /\ SaveApplied(q)
    \/ pc[q] = "commit" /\ CommitApplied(q)
    \/ pc[q] \in {"clear", "drop"} /\ SessionCleared

\* A command fails, or the process dies: the client learns nothing, and the
\* write may have been applied.
Fails(q) ==
    /\ Fault
    /\ pc[q] \notin {"start", "done"}
    /\ pc' = [pc EXCEPT ![q] = "done"]
    /\ answer' = [answer EXCEPT ![q] = Bare(500)]
    /\ WriteApplied(q) \/ UNCHANGED <<store, raced>>
    /\ UNCHANGED <<blocked, ticket, accepted, signing, loaded, shown>>

TicketExpires ==
    /\ ticket /\ ticket' = FALSE
    /\ UNCHANGED <<store, blocked, accepted, pc, signing, loaded, shown,
                   answer, raced, faults>>

\* An administrator blocks or unblocks the account.
SetBlock ==
    /\ accounts # {} /\ blocked' = ~blocked
    /\ UNCHANGED <<store, ticket, accepted, pc, signing, loaded, shown,
                   answer, raced, faults>>

-----------------------------------------------------------------------------
VerifyOtpAndLogin(q) == CheckCode(q) \/ Find(q) \/ Save(q)
Register(q) == \/ CheckTicket(q) \/ Precheck(q) \/ Create(q) \/ Commit(q)
               \/ TransientError(q)
UseSession(q) == Present(q) \/ Read(q) \/ Clear(q) \/ Drop(q)

Next ==
    \/ \E q \in Logins : VerifyOtpAndLogin(q)
    \/ \E q \in Forms : Register(q)
    \/ \E q \in Callers : UseSession(q)
    \/ \E q \in Requests : Fails(q)
    \/ TicketExpires \/ SetBlock

Spec == Init /\ [][Next]_vars

-----------------------------------------------------------------------------
(* Properties.                                                             *)

\* A phone has one account at most, and the account its one event: forms
\* that overlap, retries and unknown commits leave neither without the other
\* (passengerAuthService.js:115-120, outbox.js).
OneAccountOneEvent == rows = accounts /\ Cardinality(accounts) <= 1

\* A token that is answered names the account that was committed, not one of
\* a callback that was rolled back: that one would never verify.
TokenNamesAccount ==
    \A q \in Signers : Granted(q) => answer[q].grant.token[1] \in accounts

\* Every session granted was paid for by a code of its own: a ticket may be
\* used again while it lasts, but opens one session (docs/architecture-
\* decision-records/0009: "only after a real OTP check succeeds").
SessionsNeedCodes == Cardinality({q \in Signers : Granted(q)}) <= accepted

\* Clients told that their session is over, by their logout or by a 401.
ToldOver(q) == \/ answer[q].status = 401
               \/ q \in Logouts /\ answer[q].status = 200

\* Two logins, or a registration and a login, of one second.
Reissued == \E p, r \in Signers : p # r /\ signed[p] = signed[r] /\ signed[p] # None

\* What a client was told stays true: the session it presented is not accepted
\* again, through unblocking and logins that were under way, unless a login of
\* the same second has signed the same token again
\* (passengerAuthService.js:166-167).
OverIsOver == Reissued \/ \A q \in Callers : ToldOver(q) => session # shown[q]

\* The two fields belong together, unless a login saved over a change that
\* came after its read.
SessionIsWhole ==
    raced \/ session = NoSession \/ \E q \in Signers : session = Pair(q)
=============================================================================
