------------------------ MODULE PassengerAuthProofs ------------------------
(***************************************************************************)
(* Proofs about PassengerAuth, for any sets of requests and any number of  *)
(* faults: the state keeps its types, a phone has one account with its one *)
(* event, a token that was answered names that account, no more sessions   *)
(* are granted than codes were accepted, token and device belong together, *)
(* and a session that a client was told is over stays so.                  *)
(***************************************************************************)
EXTENDS PassengerAuth, FiniteSetTheorems, TLAPS

\* Which requests are at which steps.
StepsFit ==
    /\ \A q \in Requests :
          /\ pc[q] \in {"find", "save"} => q \in Logins
          /\ pc[q] \in {"precheck", "create", "commit"} => q \in Forms
          /\ pc[q] \in {"read", "clear", "drop"} => q \in Callers
    /\ \A q \in Forms : pc[q] = "commit" => attempt[q] # 0

TypeInv == TypeOK /\ StepsFit

LEMMA Values ==
    /\ Logins \subseteq Requests /\ Forms \subseteq Requests /\ Callers \subseteq Requests
    /\ Logins \subseteq Signers /\ Forms \subseteq Signers
    /\ Signers \cap Callers = {} /\ Logins \cap Forms = {}
    /\ NoSession \in Sessions
    /\ \A status \in {0, 200, 201, 400, 401, 409, 500} :
          Bare(status) \in Answers
<1>1. NoSession \in Sessions
  BY DEF NoSession, Sessions
<1>2. \A status \in {0, 200, 201, 400, 401, 409, 500} :
          Bare(status) \in Answers
  BY <1>1 DEF Bare, Bearing, Answers
<1>3. /\ Logins \subseteq Requests /\ Forms \subseteq Requests /\ Callers \subseteq Requests
      /\ Logins \subseteq Signers /\ Forms \subseteq Signers
      /\ Signers \cap Callers = {} /\ Logins \cap Forms = {}
  BY RequestAssumption DEF Requests, Signers
<1> QED
  BY <1>1, <1>2, <1>3

LEMMA PairTypes ==
    ASSUME TypeInv, NEW q \in Signers
    PROVE  /\ Pair(q) \in Sessions
           /\ \A status \in {200, 201} :
                 Bearing(status, Pair(q)) \in Answers
  BY DeviceAssumption DEF TypeInv, TypeOK, Pair, Sessions, Bearing, Answers

LEMMA SavedType ==
    ASSUME TypeInv, NEW q \in Logins
    PROVE  Saved(q) \in Sessions
<1>1. q \in Signers
  BY DEF Signers
<1>2. signed[q] \in Tokens \cup {None} /\ Device[q] \in Devices
  BY <1>1, DeviceAssumption DEF TypeInv, TypeOK
<1>3. session.device \in Devices \cup {None} /\ session.token \in Tokens \cup {None}
  BY DEF TypeInv, TypeOK, Sessions
<1> QED
  BY <1>2, <1>3 DEF Saved, Kept, Sessions

\* What a step of a request does to its control state and answer.
ControlTypes ==
    /\ pc \in [Requests -> Steps]
    /\ answer \in [Requests -> Answers]
    /\ StepsFit

LEMMA MoveStep ==
    ASSUME TypeInv, NEW q \in Requests, NEW to \in Steps,
           pc' = [pc EXCEPT ![q] = to], answer' = answer,
           to \in {"find", "save"} => q \in Logins,
           to \in {"precheck", "create", "commit"} => q \in Forms,
           to \in {"read", "clear", "drop"} => q \in Callers,
           to = "commit" => attempt'[q] # 0,
           \A p \in Forms \ {q} : attempt'[p] = attempt[p]
    PROVE  ControlTypes'
  BY DEF TypeInv, TypeOK, StepsFit, ControlTypes

LEMMA ReplyStep ==
    ASSUME TypeInv, NEW q \in Requests, NEW a \in Answers,
           pc' = [pc EXCEPT ![q] = "done"], answer' = [answer EXCEPT ![q] = a],
           attempt' = attempt
    PROVE  ControlTypes'
  BY DEF TypeInv, TypeOK, StepsFit, ControlTypes, Steps

\* What the other variables need.
StoreTypes ==
    /\ accounts \subseteq Accounts /\ rows \subseteq Accounts
    /\ session \in Sessions /\ raced \in BOOLEAN

LEMMA WriteTypes ==
    ASSUME TypeInv, NEW q \in Requests,
           WriteApplied(q) \/ UNCHANGED <<store, raced>>
    PROVE  StoreTypes'
<1> USE DEF TypeInv, TypeOK, StoreTypes
<1>1. CASE UNCHANGED <<store, raced>>
  BY <1>1 DEF store
<1>2. CASE pc[q] = "save" /\ SaveApplied(q)
  <2>1. Saved(q) \in Sessions
    BY <1>2, SavedType DEF StepsFit
  <2> QED
    BY <1>2, <2>1 DEF SaveApplied
<1>3. CASE pc[q] = "commit" /\ CommitApplied(q)
  <2>1. q \in Forms /\ attempt[q] # 0
    BY <1>3 DEF StepsFit
  <2>2. q \in Signers
    BY <2>1, Values
  <2>a. Pair(q) \in Sessions
    BY <2>2, PairTypes
  <2>3. Account(q) \in Accounts
    BY <2>1 DEF Account, Accounts
  <2> QED
    BY <1>3, <2>a, <2>3 DEF CommitApplied
<1>4. CASE pc[q] \in {"clear", "drop"} /\ SessionCleared
  BY <1>4, Values DEF SessionCleared
<1> QED
  BY <1>1, <1>2, <1>3, <1>4 DEF WriteApplied

LEMMA TypeStep == TypeInv /\ [Next]_vars => TypeInv'
<1> SUFFICES ASSUME TypeInv, [Next]_vars PROVE TypeInv'
  OBVIOUS
<1> USE Values DEF Steps, signing
<1>a. TypeInv' <=> /\ StoreTypes' /\ ControlTypes'
                   /\ blocked' \in BOOLEAN /\ ticket' \in BOOLEAN
                   /\ accepted' \in Nat /\ faults' \in 0..MaxFaults
                   /\ second' \in Nat /\ attempt' \in [Forms -> Nat]
                   /\ signed' \in [Signers -> Tokens \cup {None}]
                   /\ loaded' \in [Logins -> Sessions]
                   /\ shown' \in [Callers -> Sessions]
  BY DEF TypeInv, TypeOK, StoreTypes, ControlTypes
<1>b. /\ StoreTypes /\ blocked \in BOOLEAN /\ ticket \in BOOLEAN
      /\ accepted \in Nat /\ faults \in 0..MaxFaults
      /\ second \in Nat /\ attempt \in [Forms -> Nat] /\ session \in Sessions
      /\ signed \in [Signers -> Tokens \cup {None}]
      /\ loaded \in [Logins -> Sessions]
      /\ shown \in [Callers -> Sessions]
      /\ pc \in [Requests -> Steps] /\ answer \in [Requests -> Answers]
  BY DEF TypeInv, TypeOK, StoreTypes
<1>1. ASSUME NEW q \in Logins, VerifyOtpAndLogin(q) PROVE TypeInv'
  <2>1. CASE CheckCode(q)
    <3>1. StoreTypes'
      BY <2>1, WriteTypes DEF CheckCode
    <3>2. ControlTypes'
      BY <2>1, MoveStep, ReplyStep DEF CheckCode, Step, Reply
    <3> QED
      BY <2>1, <3>1, <3>2, <1>a, <1>b DEF CheckCode, Step, Reply
  <2>2. CASE Find(q)
    <3>1. StoreTypes'
      BY <2>2, WriteTypes DEF Find
    <3>2. ControlTypes'
      BY <2>2, MoveStep, ReplyStep DEF Find, Step, Reply
    <3> QED
      <4>1. /\ ticket' \in BOOLEAN /\ loaded' \in [Logins -> Sessions]
        BY <2>2, <1>b, ZenonT(30) DEF Find
      <4>2. UNCHANGED <<blocked, accepted, attempt, shown, faults>>
        BY <2>2 DEF Find
      <4>3. second' \in Nat /\ signed' \in [Signers -> Tokens \cup {None}]
        <5>1. CASE UNCHANGED <<second, signed>>
          BY <5>1, <1>b
        <5>2. CASE Sign(q)
          <6>1. PICK a \in accounts, s \in {second, second + 1} :
                   second' = s /\ signed' = [signed EXCEPT ![q] = <<a, s>>]
            BY <5>2 DEF Sign
          <6>2. s \in Nat /\ <<a, s>> \in Tokens
            BY <1>b DEF StoreTypes, Tokens
          <6> QED
            BY <6>1, <6>2, <1>b
        <5> QED
          BY <2>2, <5>1, <5>2 DEF Find
      <4> QED
        BY <3>1, <3>2, <4>1, <4>2, <4>3, <1>a, <1>b
  <2>3. CASE Save(q)
    <3>1. StoreTypes'
      BY <2>3, WriteTypes DEF Save, Reply, Step, WriteApplied
    <3>2. ControlTypes'
      <4>1. /\ pc' = [pc EXCEPT ![q] = "done"] /\ attempt' = attempt
            /\ answer' = [answer EXCEPT ![q] = Bearing(200, Pair(q))]
        BY <2>3 DEF Save, Step, Reply
      <4>2. Bearing(200, Pair(q)) \in Answers
        BY PairTypes, q \in Signers
      <4> QED
        BY <4>1, <4>2, ReplyStep, ZenonT(30)
    <3> QED
      BY <2>3, <3>1, <3>2, <1>a, <1>b DEF Save, Step, Reply
  <2> QED
    BY <1>1, <2>1, <2>2, <2>3 DEF VerifyOtpAndLogin
<1>2. ASSUME NEW q \in Forms, Register(q) PROVE TypeInv'
  <2>1. CASE CheckTicket(q)
    <3>1. StoreTypes'
      BY <2>1, WriteTypes DEF CheckTicket
    <3>2. ControlTypes'
      BY <2>1, MoveStep, ReplyStep DEF CheckTicket, Step, Reply
    <3> QED
      BY <2>1, <3>1, <3>2, <1>a, <1>b DEF CheckTicket, Step, Reply
  <2>2. CASE Precheck(q)
    <3>1. StoreTypes'
      BY <2>2, WriteTypes DEF Precheck
    <3>2. ControlTypes'
      BY <2>2, MoveStep, ReplyStep DEF Precheck, Step, Reply
    <3> QED
      BY <2>2, <3>1, <3>2, <1>a, <1>b DEF Precheck, Step, Reply
  <2>3. CASE Create(q)
    <3>1. StoreTypes'
      BY <2>3, WriteTypes DEF Create
    <3>2. CASE accounts # {}
      <4>1. ControlTypes'
        BY <2>3, <3>2, MoveStep, ReplyStep DEF Create, Step, Reply
      <4> QED
        BY <2>3, <3>1, <3>2, <4>1, <1>a, <1>b DEF Create
    <3>3. CASE accounts = {}
      <4>1. /\ attempt' = [attempt EXCEPT ![q] = attempt[q] + 1]
            /\ pc' = [pc EXCEPT ![q] = "commit"] /\ answer' = answer
        BY <2>3, <3>3 DEF Create, Step
      <4>2. /\ attempt' \in [Forms -> Nat] /\ attempt'[q] \in Nat \ {0}
            /\ \A p \in Forms \ {q} : attempt'[p] = attempt[p]
        BY <4>1, <1>b
      <4>4. signed' \in [Signers -> Tokens \cup {None}]
        <5>1. <<<<q, attempt'[q]>>, second>> \in Tokens
          BY <4>2, <1>b DEF Tokens, Accounts
        <5>2. signed' = [signed EXCEPT ![q] = <<<<q, attempt'[q]>>, second>>]
          BY <2>3, <3>3 DEF Create
        <5> QED
          BY <5>1, <5>2, <1>b
      <4>3. ControlTypes'
        BY <4>1, <4>2, MoveStep, ZenonT(30)
      <4> QED
        BY <2>3, <3>1, <4>2, <4>3, <4>4, <1>a, <1>b DEF Create
    <3> QED
      BY <3>2, <3>3
  <2>4. CASE Commit(q)
    <3>1. StoreTypes'
      BY <2>4, WriteTypes DEF Commit, Reply, Step, WriteApplied
    <3>2. ControlTypes'
      <4>1. /\ pc' = [pc EXCEPT ![q] = "done"] /\ attempt' = attempt
            /\ answer' = [answer EXCEPT ![q] = Bearing(201, Pair(q))]
        BY <2>4 DEF Commit, Step, Reply
      <4>2. Bearing(201, Pair(q)) \in Answers
        BY PairTypes, q \in Signers
      <4> QED
        BY <4>1, <4>2, ReplyStep, ZenonT(30)
    <3> QED
      BY <2>4, <3>1, <3>2, <1>a, <1>b DEF Commit, Step, Reply
  <2>5. CASE TransientError(q)
    <3>1. StoreTypes'
      BY <2>5, WriteTypes DEF TransientError
    <3>2. ControlTypes'
      <4>1. /\ pc' = [pc EXCEPT ![q] = "create"] /\ attempt' = attempt
            /\ answer' = answer
        BY <2>5 DEF TransientError, Step
      <4> QED
        BY <4>1, MoveStep, ZenonT(30)
    <3> QED
      BY <2>5, <3>1, <3>2, <1>a, <1>b, BoundAssumption DEF TransientError, Step, Fault
  <2> QED
    BY <1>2, <2>1, <2>2, <2>3, <2>4, <2>5 DEF Register
<1>3. ASSUME NEW q \in Callers, UseSession(q) PROVE TypeInv'
  <2>1. CASE Present(q)
    <3>1. StoreTypes'
      BY <2>1, WriteTypes DEF Present
    <3>2. shown' \in [Callers -> Sessions]
      BY <2>1, <1>b DEF Present, Answers, Requests
    <3>3. ControlTypes'
      <4>1. /\ pc' = [pc EXCEPT ![q] = "read"] /\ attempt' = attempt
            /\ answer' = answer
        BY <2>1 DEF Present, Step
      <4> QED
        BY <4>1, MoveStep, ZenonT(30)
    <3> QED
      BY <2>1, <3>1, <3>2, <3>3, <1>a, <1>b DEF Present, Step
  <2>2. CASE Read(q)
    <3>1. StoreTypes'
      BY <2>2, WriteTypes DEF Read
    <3>2. ControlTypes'
      BY <2>2, MoveStep, ReplyStep DEF Read, Step, Reply
    <3> QED
      BY <2>2, <3>1, <3>2, <1>a, <1>b DEF Read, Step, Reply
  <2>3. CASE Clear(q)
    <3>1. StoreTypes'
      BY <2>3, WriteTypes DEF Clear, Reply, Step, WriteApplied
    <3>2. ControlTypes'
      <4>1. /\ pc' = [pc EXCEPT ![q] = "done"] /\ attempt' = attempt
            /\ answer' = [answer EXCEPT ![q] = Bare(200)]
        BY <2>3 DEF Clear, Step, Reply
      <4>2. Bare(200) \in Answers
        BY Values
      <4> QED
        BY <4>1, <4>2, ReplyStep, ZenonT(30)
    <3> QED
      BY <2>3, <3>1, <3>2, <1>a, <1>b DEF Clear, Step, Reply
  <2>4. CASE Drop(q)
    <3>1. StoreTypes'
      BY <2>4, WriteTypes DEF Drop, Reply, Step, WriteApplied
    <3>2. ControlTypes'
      <4>1. /\ pc' = [pc EXCEPT ![q] = "done"] /\ attempt' = attempt
            /\ answer' = [answer EXCEPT ![q] = Bare(401)]
        BY <2>4 DEF Drop, Step, Reply
      <4>2. Bare(401) \in Answers
        BY Values
      <4> QED
        BY <4>1, <4>2, ReplyStep, ZenonT(30)
    <3> QED
      BY <2>4, <3>1, <3>2, <1>a, <1>b DEF Drop, Step, Reply
  <2> QED
    BY <1>3, <2>1, <2>2, <2>3, <2>4 DEF UseSession
<1>4. ASSUME NEW q \in Requests, Fails(q) PROVE TypeInv'
  <2>1. StoreTypes'
    BY <1>4, WriteTypes DEF Fails
  <2>2. ControlTypes'
    <3>1. /\ pc' = [pc EXCEPT ![q] = "done"] /\ attempt' = attempt
          /\ answer' = [answer EXCEPT ![q] = Bare(500)] /\ Bare(500) \in Answers
      BY <1>4, Values DEF Fails
    <3> QED
      BY <3>1, ReplyStep, ZenonT(30)
  <2> QED
    BY <1>4, <2>1, <2>2, <1>a, <1>b, BoundAssumption DEF Fails, Fault
<1>5. CASE TicketExpires
  BY <1>5, <1>a, <1>b, ZenonT(30)
     DEF TicketExpires, TypeInv, StepsFit, StoreTypes, ControlTypes, store
<1>6. CASE SetBlock
  BY <1>6, <1>a, <1>b DEF SetBlock, TypeInv, StepsFit, StoreTypes, ControlTypes, store
<1>7. CASE UNCHANGED vars
  BY <1>7 DEF vars, TypeInv, TypeOK, StepsFit, store
<1> QED
  BY <1>1, <1>2, <1>3, <1>4, <1>5, <1>6, <1>7 DEF Next

LEMMA TypeInit == Init => TypeInv
<1>1. Bare(0) \in Answers /\ NoSession \in Sessions
  BY Values
<1>2. ASSUME Init PROVE TypeOK
  <2>1. /\ accounts = {} /\ rows = {} /\ session \in Sessions
        /\ accepted \in Nat /\ faults \in 0..MaxFaults
    BY <1>1, <1>2, BoundAssumption DEF Init
  <2>2. blocked \in BOOLEAN /\ ticket \in BOOLEAN /\ raced \in BOOLEAN
    BY <1>2 DEF Init
  <2>3. /\ pc \in [Requests -> Steps] /\ answer \in [Requests -> Answers]
        /\ second \in Nat /\ attempt \in [Forms -> Nat]
        /\ signed \in [Signers -> Tokens \cup {None}]
    BY <1>1, <1>2 DEF Init, Steps
  <2>4. loaded \in [Logins -> Sessions] /\ shown \in [Callers -> Sessions]
    BY <1>1, <1>2 DEF Init
  <2> QED
    BY <2>1, <2>2, <2>3, <2>4 DEF TypeOK
<1>3. ASSUME Init PROVE StepsFit
  <2>1. \A q \in Requests : pc[q] = "start"
    BY <1>3 DEF Init
  <2>2. Forms \subseteq Requests
    BY Values
  <2> QED
    BY <2>1, <2>2 DEF StepsFit
<1> QED
  BY <1>2, <1>3 DEF TypeInv

\* The types of the whole state, for any requests and devices.
THEOREM TypeCorrect == Spec => []TypeOK
<1>1. TypeInv => TypeOK
  BY DEF TypeInv
<1> QED
  BY <1>1, TypeInit, TypeStep, PTL DEF Spec

-----------------------------------------------------------------------------
\* One form at a time is in its transaction, and only while the phone is
\* free, so that its commit makes the first account.
AccountInv ==
    /\ rows = accounts
    /\ \A a, b \in accounts : a = b
    /\ \A q \in Forms : InTxn(q) => accounts = {}
    /\ \A p, q \in Forms : InTxn(p) /\ InTxn(q) => p = q

\* A step that neither writes the account nor enters a transaction.
LEMMA AccountKept ==
    ASSUME TypeInv, AccountInv, UNCHANGED <<accounts, rows>>,
           NEW q \in Requests, NEW to \in Steps \ {"commit"},
           pc' = [pc EXCEPT ![q] = to]
    PROVE  AccountInv'
<1>1. \A p \in Forms : InTxn(p)' => InTxn(p)
  BY Values DEF InTxn, TypeInv, TypeOK
<1> QED
  BY <1>1 DEF AccountInv

\* A commit, whether its answer comes or not.
LEMMA AccountMade ==
    ASSUME TypeInv, AccountInv, NEW q \in Forms, InTxn(q), CommitApplied(q),
           pc' = [pc EXCEPT ![q] = "done"]
    PROVE  AccountInv'
<1>1. accounts' = {Account(q)} /\ rows' = {Account(q)}
  BY DEF AccountInv, CommitApplied
<1>2. \A p \in Forms : ~InTxn(p)'
  BY Values DEF AccountInv, InTxn, TypeInv, TypeOK
<1> QED
  BY <1>1, <1>2 DEF AccountInv

LEMMA AccountStep == TypeInv /\ AccountInv /\ [Next]_vars => AccountInv'
<1> SUFFICES ASSUME TypeInv, AccountInv, [Next]_vars PROVE AccountInv'
  OBVIOUS
<1>0. "done" \in Steps \ {"commit"}
  BY DEF Steps
<1> USE Values DEF Steps
<1>1. ASSUME NEW q \in Logins, VerifyOtpAndLogin(q) PROVE AccountInv'
  <2>1. UNCHANGED <<accounts, rows>>
    BY <1>1 DEF VerifyOtpAndLogin, CheckCode, Find, Save, SaveApplied, store
  <2>2. \E to \in Steps \ {"commit"} : pc' = [pc EXCEPT ![q] = to]
    BY <1>1 DEF VerifyOtpAndLogin, CheckCode, Find, Save, Step, Reply
  <2> QED
    BY <2>1, <2>2, AccountKept, ZenonT(30)
<1>2. ASSUME NEW q \in Forms, Register(q) PROVE AccountInv'
  <2>1. CASE CheckTicket(q) \/ Precheck(q) \/ TransientError(q)
    <3>1. UNCHANGED <<accounts, rows>>
      BY <2>1 DEF CheckTicket, Precheck, TransientError, store
    <3>2. \E to \in Steps \ {"commit"} : pc' = [pc EXCEPT ![q] = to]
      BY <2>1 DEF CheckTicket, Precheck, TransientError, Step, Reply
    <3> QED
      BY <3>1, <3>2, AccountKept, ZenonT(30)
  <2>2. CASE Create(q)
    <3>1. UNCHANGED <<accounts, rows>>
      BY <2>2 DEF Create, store
    <3>2. CASE accounts # {}
      <4>1. pc' = [pc EXCEPT ![q] = "done"]
        BY <2>2, <3>2 DEF Create, Step, Reply
      <4>2. \E to \in Steps \ {"commit"} : pc' = [pc EXCEPT ![q] = to]
        BY <1>0, <4>1, ZenonT(30)
      <4> QED
        BY <3>1, <4>2, AccountKept, ZenonT(30)
    <3>3. CASE accounts = {}
      <4>1. pc' = [pc EXCEPT ![q] = "commit"] /\ \A p \in Forms : ~InTxn(p)
        BY <2>2, <3>3 DEF Create, Step
      <4>2. \A p \in Forms : InTxn(p)' => p = q
        BY <4>1 DEF InTxn, TypeInv, TypeOK
      <4> QED
        BY <3>1, <3>3, <4>2 DEF AccountInv
    <3> QED
      BY <3>2, <3>3
  <2>3. CASE Commit(q)
    BY <2>3, AccountMade, ZenonT(30) DEF Commit, Reply, Step, InTxn
  <2> QED
    BY <1>2, <2>1, <2>2, <2>3 DEF Register
<1>3. ASSUME NEW q \in Callers, UseSession(q) PROVE AccountInv'
  <2>1. UNCHANGED <<accounts, rows>>
    BY <1>3 DEF UseSession, Present, Read, Clear, Drop, SessionCleared, store
  <2>2. \E to \in Steps \ {"commit"} : pc' = [pc EXCEPT ![q] = to]
    BY <1>3 DEF UseSession, Present, Read, Clear, Drop, Step, Reply
  <2> QED
    BY <2>1, <2>2, AccountKept
<1>4. ASSUME NEW q \in Requests, Fails(q) PROVE AccountInv'
  <2>1. pc' = [pc EXCEPT ![q] = "done"]
    BY <1>4 DEF Fails
  <2>2. CASE pc[q] = "commit" /\ CommitApplied(q)
    BY <2>1, <2>2, AccountMade, ZenonT(30) DEF InTxn, TypeInv, StepsFit
  <2>3. CASE ~(pc[q] = "commit" /\ CommitApplied(q))
    <3>1. UNCHANGED <<accounts, rows>>
      BY <1>4, <2>3 DEF Fails, WriteApplied, SaveApplied, SessionCleared, store
    <3>2. \E to \in Steps \ {"commit"} : pc' = [pc EXCEPT ![q] = to]
      BY <1>0, <2>1, ZenonT(30)
    <3> QED
      BY <3>1, <3>2, AccountKept, ZenonT(30)
  <2> QED
    BY <2>2, <2>3
<1>5. CASE TicketExpires \/ SetBlock \/ UNCHANGED vars
  <2>1. UNCHANGED <<accounts, rows, pc>>
    BY <1>5, Zenon DEF TicketExpires, SetBlock, vars, store, signing
  <2> QED
    BY <2>1 DEF AccountInv, InTxn
<1> QED
  BY <1>1, <1>2, <1>3, <1>4, <1>5 DEF Next

\* A phone has one account at most, and exactly the event that tells of it,
\* whatever forms overlap, fail or are run again.
THEOREM AccountSound == Spec => []OneAccountOneEvent
<1>1. Init => TypeInv /\ AccountInv
  <2>1. ASSUME Init PROVE AccountInv
    <3>1. \A q \in Forms : ~InTxn(q)
      BY <2>1, Values DEF Init, InTxn
    <3> QED
      BY <2>1, <3>1 DEF Init, AccountInv
  <2> QED
    BY <2>1, TypeInit
<1>2. TypeInv /\ AccountInv => OneAccountOneEvent
  <2> SUFFICES ASSUME AccountInv PROVE OneAccountOneEvent
    OBVIOUS
  <2>1. CASE accounts = {}
    BY <2>1, FS_EmptySet DEF AccountInv, OneAccountOneEvent
  <2>2. CASE accounts # {}
    <3>1. PICK a \in accounts : accounts = {a}
      BY <2>2 DEF AccountInv
    <3>2. Cardinality({a}) = 1
      BY FS_Singleton
    <3> QED
      BY <3>1, <3>2 DEF AccountInv, OneAccountOneEvent
  <2> QED
    BY <2>1, <2>2
<1> QED
  BY <1>1, <1>2, TypeStep, AccountStep, PTL DEF Spec
-----------------------------------------------------------------------------
\* What the tokens signed so far are: those of logins name the account, those
\* of forms the account of the callback's latest run.
SignInv ==
    /\ \A q \in Logins : pc[q] \in {"start", "find"} => signed[q] = None
    /\ \A q \in Logins : signed[q] # None => signed[q][1] \in accounts
    /\ \A q \in Forms : signed[q] # None => signed[q][1] = Account(q)
    /\ \A q \in Signers : pc[q] \in {"save", "commit"} => signed[q] # None

\* What a step leaves of the tokens: a token is signed at two points only, and
\* two requests that have the same token keep it.
SignKept ==
    /\ \A p \in Requests : pc[p] = "done" => pc'[p] = "done"
    /\ \A p \in Signers : pc[p] \notin {"find", "create"} => signed'[p] = signed[p]
    /\ accounts \subseteq accounts'
    /\ Reissued => Reissued'

\* A step that signs nothing.
LEMMA NothingSigned ==
    ASSUME TypeInv, SignInv, UNCHANGED <<attempt, signed>>, accounts \subseteq accounts',
           NEW q \in Requests, NEW to \in Steps \ {"save", "commit"}, pc[q] # "done",
           pc' = [pc EXCEPT ![q] = to], to \in {"start", "find"} => pc[q] = "start"
    PROVE  SignInv' /\ SignKept
<1>1. pc \in [Requests -> Steps] /\ Logins \subseteq Requests /\ Signers \subseteq Requests
  BY Values DEF TypeInv, TypeOK, Requests
<1>2. Reissued <=> Reissued'
  BY DEF Reissued
<1>3. \A p \in Requests : pc[p] = "done" => pc'[p] = "done"
  BY <1>1
<1>4. SignKept
  BY <1>2, <1>3 DEF SignKept
<1>5. \A p \in Logins : pc'[p] \in {"start", "find"} => pc[p] \in {"start", "find"}
  BY <1>1
<1>6. \A p \in Signers : pc'[p] \in {"save", "commit"} => pc[p] \in {"save", "commit"}
  BY <1>1
<1>7. \A p \in Forms : Account(p)' = Account(p)
  BY DEF Account
<1> QED
  BY <1>4, <1>5, <1>6, <1>7 DEF SignInv

LEMMA FindSigns ==
    ASSUME TypeInv, SignInv, NEW q \in Logins, Find(q)
    PROVE  SignInv' /\ SignKept
<1> USE Values DEF Steps
<1>1. pc \in [Requests -> Steps] /\ signed \in [Signers -> Tokens \cup {None}]
  BY DEF TypeInv, TypeOK
<1>2. accounts' = accounts /\ attempt' = attempt /\ q \in Requests /\ pc[q] = "find"
  BY DEF Find, store, Step, Reply
<1>3. CASE UNCHANGED signed /\ pc' = [pc EXCEPT ![q] = "done"]
  BY <1>2, <1>3, NothingSigned, ZenonT(30)
<1>4. CASE Sign(q) /\ pc' = [pc EXCEPT ![q] = "save"]
  <2>1. PICK a \in accounts, s \in {second, second + 1} :
           signed' = [signed EXCEPT ![q] = <<a, s>>]
    BY <1>4, ZenonT(30) DEF Sign
  <2>2. s \in Nat /\ <<a, s>> \in Tokens
    BY DEF TypeInv, TypeOK, Tokens
  <2>3. /\ signed[q] = None /\ signed'[q] = <<a, s>> /\ signed'[q] # None
        /\ \A p \in Signers \ {q} : signed'[p] = signed[p]
    BY <1>1, <1>2, <2>1, <2>2, NoneAssumption DEF SignInv
  <2>4. Reissued => Reissued'
    BY <2>3 DEF Reissued
  <2>5. SignKept
    BY <1>1, <1>2, <1>4, <2>3, <2>4 DEF SignKept, Requests
  <2>6. \A p \in Forms : Account(p)' = Account(p) /\ signed'[p] = signed[p]
    BY <1>2, <2>3 DEF Account
  <2>7. \A p \in Logins \ {q} : pc'[p] = pc[p] /\ signed'[p] = signed[p]
    BY <1>1, <1>4, <2>3
  <2>8. pc'[q] = "save" /\ signed'[q][1] = a
    BY <1>1, <1>2, <1>4, <2>3
  <2>9. \A p \in Forms : pc'[p] = pc[p]
    BY <1>1, <1>4
  <2>10. \A p \in Logins : /\ pc'[p] \in {"start", "find"} => signed'[p] = None
                           /\ signed'[p] # None => signed'[p][1] \in accounts'
                           /\ pc'[p] = "save" \/ pc'[p] = "commit" => signed'[p] # None
    <3> SUFFICES ASSUME NEW p \in Logins
                 PROVE  /\ pc'[p] \in {"start", "find"} => signed'[p] = None
                        /\ signed'[p] # None => signed'[p][1] \in accounts'
                        /\ pc'[p] = "save" \/ pc'[p] = "commit" => signed'[p] # None
      OBVIOUS
    <3>1. CASE p = q
      BY <1>2, <2>3, <2>8, <3>1
    <3>2. CASE p # q
      BY <1>2, <2>7, <3>2 DEF SignInv
    <3> QED
      BY <3>1, <3>2
  <2>11. \A p \in Forms : /\ signed'[p] # None => signed'[p][1] = Account(p)'
                          /\ pc'[p] \in {"save", "commit"} => signed'[p] # None
    BY <2>6, <2>9 DEF SignInv
  <2> QED
    BY <2>5, <2>10, <2>11 DEF SignInv, Signers
<1> QED
  BY <1>3, <1>4 DEF Find, Step, Reply

LEMMA CreateSigns ==
    ASSUME TypeInv, SignInv, NEW q \in Forms, Create(q)
    PROVE  SignInv' /\ SignKept
<1> USE Values DEF Steps
<1>1. /\ pc \in [Requests -> Steps] /\ signed \in [Signers -> Tokens \cup {None}]
      /\ attempt \in [Forms -> Nat] /\ second \in Nat
  BY DEF TypeInv, TypeOK
<1>2. accounts' = accounts /\ q \in Requests /\ pc[q] = "create"
  BY DEF Create, store, Step, Reply
<1>3. CASE accounts # {}
  <2>1. UNCHANGED <<attempt, signed>> /\ pc' = [pc EXCEPT ![q] = "done"]
    BY <1>3 DEF Create, Step, Reply
  <2> QED
    BY <1>2, <2>1, NothingSigned, ZenonT(30)
<1>4. CASE accounts = {}
  <2>1. /\ pc' = [pc EXCEPT ![q] = "commit"]
        /\ attempt' = [attempt EXCEPT ![q] = attempt[q] + 1]
        /\ signed' = [signed EXCEPT ![q] = <<<<q, attempt'[q]>>, second>>]
    BY <1>4 DEF Create, Step
  <2>2. attempt'[q] \in Nat \ {0}
    BY <1>1, <2>1
  <2>3. <<<<q, attempt'[q]>>, second>> \in Tokens
    BY <1>1, <2>2 DEF Tokens, Accounts
  <2>4. /\ signed'[q] = <<<<q, attempt'[q]>>, second>> /\ signed'[q] # None
        /\ \A p \in Signers \ {q} : signed'[p] = signed[p]
    BY <1>1, <2>1, <2>3, NoneAssumption
  <2>5. \A p \in Logins : signed[p] = None
    BY <1>4 DEF SignInv
  <2>6. ~Reissued
    <3> SUFFICES ASSUME NEW p \in Signers, NEW r \in Signers, p # r,
                        signed[p] = signed[r], signed[p] # None
                 PROVE  FALSE
      BY DEF Reissued
    <3>1. p \in Forms /\ r \in Forms
      BY <2>5 DEF Signers
    <3>2. signed[p][1] = <<p, attempt[p]>> /\ signed[r][1] = <<r, attempt[r]>>
      BY <3>1 DEF SignInv, Account
    <3> QED
      BY <3>2
  <2>7. SignKept
    BY <1>1, <1>2, <2>1, <2>4, <2>6 DEF SignKept, Requests
  <2>8. \A p \in Forms \ {q} : /\ Account(p)' = Account(p) /\ signed'[p] = signed[p]
                               /\ pc'[p] = pc[p]
    BY <1>1, <2>1, <2>4 DEF Account
  <2>9. Account(q)' = <<q, attempt'[q]>>
    BY DEF Account
  <2>10. \A p \in Logins : pc'[p] = pc[p] /\ signed'[p] = signed[p]
    BY <1>1, <2>1, <2>4
  <2> QED
    BY <1>2, <2>4, <2>7, <2>8, <2>9, <2>10 DEF SignInv, Signers
<1> QED
  BY <1>3, <1>4

LEMMA SignStep == TypeInv /\ SignInv /\ [Next]_vars => SignInv' /\ SignKept
<1> SUFFICES ASSUME TypeInv, SignInv, [Next]_vars PROVE SignInv' /\ SignKept
  OBVIOUS
<1> USE Values
<1>1. ASSUME NEW q \in Logins, CheckCode(q) \/ Save(q) PROVE SignInv' /\ SignKept
  <2>1. UNCHANGED <<attempt, signed, accounts>>
    BY <1>1 DEF CheckCode, Save, SaveApplied, store, signing
  <2>2. \E to \in Steps \ {"save", "commit"} :
           /\ pc[q] # "done" /\ pc' = [pc EXCEPT ![q] = to]
           /\ to \in {"start", "find"} => pc[q] = "start"
    BY <1>1 DEF CheckCode, Save, Step, Reply, Steps
  <2> QED
    BY <2>1, <2>2, NothingSigned, ZenonT(30)
<1>2. ASSUME NEW q \in Forms, CheckTicket(q) \/ Precheck(q) \/ Commit(q) \/ TransientError(q)
      PROVE  SignInv' /\ SignKept
  <2>1. UNCHANGED <<attempt, signed>> /\ accounts \subseteq accounts'
    BY <1>2 DEF CheckTicket, Precheck, Commit, TransientError, CommitApplied, store, signing
  <2>2. CASE Precheck(q)
    <3>1. \E to \in {"create", "done"} : pc[q] # "done" /\ pc' = [pc EXCEPT ![q] = to]
      BY <2>2 DEF Precheck, Step, Reply
    <3> QED
      BY <2>1, <3>1, NothingSigned, ZenonT(30) DEF Steps
  <2>3. CASE CheckTicket(q) \/ Commit(q) \/ TransientError(q)
    <3>1. \E to \in {"precheck", "create", "done"} :
             pc[q] # "done" /\ pc' = [pc EXCEPT ![q] = to]
      BY <2>3 DEF CheckTicket, Commit, TransientError, Step, Reply
    <3> QED
      BY <2>1, <3>1, NothingSigned, ZenonT(30) DEF Steps
  <2> QED
    BY <1>2, <2>2, <2>3
<1>3. ASSUME NEW q \in Callers, UseSession(q) PROVE SignInv' /\ SignKept
  <2>1. UNCHANGED <<attempt, signed, accounts>>
    BY <1>3 DEF UseSession, Present, Read, Clear, Drop, SessionCleared, store, signing
  <2>2. \E to \in {"read", "drop", "clear", "done"} :
           pc[q] # "done" /\ pc' = [pc EXCEPT ![q] = to]
    BY <1>3 DEF UseSession, Present, Read, Clear, Drop, Step, Reply
  <2> QED
    BY <2>1, <2>2, NothingSigned, ZenonT(30) DEF Steps
<1>4. ASSUME NEW q \in Requests, Fails(q) PROVE SignInv' /\ SignKept
  <2>1. UNCHANGED <<attempt, signed>> /\ accounts \subseteq accounts'
    BY <1>4 DEF Fails, WriteApplied, SaveApplied, CommitApplied, SessionCleared, store, signing
  <2>2. pc[q] # "done" /\ pc' = [pc EXCEPT ![q] = "done"]
    BY <1>4 DEF Fails
  <2> QED
    BY <2>1, <2>2, NothingSigned DEF Steps
<1>5. CASE TicketExpires \/ SetBlock \/ UNCHANGED vars
  <2>1. UNCHANGED <<attempt, signed, accounts, pc>>
    BY <1>5 DEF TicketExpires, SetBlock, vars, store, signing
  <2> QED
    BY <2>1 DEF SignInv, SignKept, Reissued, Account
<1> QED
  BY <1>1, <1>2, <1>3, <1>4, <1>5, FindSigns, CreateSigns
  DEF Next, VerifyOtpAndLogin, Register
-----------------------------------------------------------------------------
\* A step of a login or a form: it may write the session or be granted it,
\* and is done then, or read the session.
SignerMoves(q) ==
    /\ pc[q] # "done" /\ shown' = shown
    /\ \A p \in Requests \ {q} : answer'[p] = answer[p]
    /\ \E to \in Steps :
          /\ pc' = [pc EXCEPT ![q] = to]
          /\ IF to = "save"
             THEN session' = session /\ loaded' = [loaded EXCEPT ![q] = session]
             ELSE loaded' = loaded
          /\ \/ UNCHANGED <<session, raced>>
             \/ to = "done" /\ WriteApplied(q)
          /\ \/ answer'[q].grant \in {answer[q].grant, NoSession}
             \/ to = "done" /\ WriteApplied(q) /\ answer'[q].grant = Pair(q)

\* A step of a logout or a verification: it may present a session, end the
\* stored one, and learn that the one it has presented is over.
CallerMoves(q) ==
    /\ pc[q] # "done" /\ UNCHANGED <<loaded, raced>>
    /\ \E to \in Steps : pc' = [pc EXCEPT ![q] = to]
    /\ session' \in {session, NoSession}
    /\ \A p \in Requests \ {q} : answer'[p] = answer[p]
    /\ \A c \in Callers \ {q} : shown'[c] = shown[c]
    /\ \/ pc[q] # "start" /\ shown'[q] = shown[q]
       \/ /\ pc[q] = "start" /\ answer' = answer
          /\ \E p \in Signers : Granted(p) /\ shown'[q] = answer[p].grant
    /\ ToldOver(q)' => \/ ToldOver(q)
                       \/ /\ pc'[q] = "done"
                          /\ session' = NoSession \/ session' # shown'[q]

LEMMA SignerShape ==
    ASSUME TypeInv, NEW q \in Signers,
           \/ q \in Logins /\ VerifyOtpAndLogin(q)
           \/ q \in Forms /\ Register(q)
           \/ Fails(q)
    PROVE  SignerMoves(q)
<1> USE Values DEF Steps
<1>0. /\ pc \in [Requests -> Steps] /\ answer \in [Requests -> Answers]
      /\ q \in Requests
  BY DEF TypeInv, TypeOK, Requests
<1>1. CASE q \in Logins /\ (CheckCode(q) \/ Find(q))
  <2>1. \A p \in Requests \ {q} : answer'[p] = answer[p]
    BY <1>0, <1>1 DEF CheckCode, Find, Step, Reply
  <2>2. answer'[q].grant \in {answer[q].grant, NoSession}
    BY <1>0, <1>1 DEF CheckCode, Find, Step, Reply, Bare, Bearing
  <2>3. pc[q] # "done" /\ UNCHANGED <<shown, session, raced>>
    BY <1>1 DEF CheckCode, Find, Step, Reply, store
  <2>4. \/ \E to \in {"find", "done"} : pc' = [pc EXCEPT ![q] = to] /\ loaded' = loaded
        \/ pc' = [pc EXCEPT ![q] = "save"] /\ loaded' = [loaded EXCEPT ![q] = session]
    BY <1>1 DEF CheckCode, Find, Step, Reply
  <2>5. CASE pc' = [pc EXCEPT ![q] = "save"] /\ loaded' = [loaded EXCEPT ![q] = session]
    BY <2>1, <2>2, <2>3, <2>5 DEF SignerMoves
  <2>6. CASE \E to \in {"find", "done"} : pc' = [pc EXCEPT ![q] = to] /\ loaded' = loaded
    BY <2>1, <2>2, <2>3, <2>6, ZenonT(30) DEF SignerMoves
  <2> QED
    BY <2>4, <2>5, <2>6
<1>2. CASE q \in Forms /\ (CheckTicket(q) \/ Precheck(q) \/ Create(q) \/ TransientError(q))
  <2>1. \A p \in Requests \ {q} : answer'[p] = answer[p]
    BY <1>0, <1>2 DEF CheckTicket, Precheck, Create, TransientError, Step, Reply
  <2>2. answer'[q].grant \in {answer[q].grant, NoSession}
    BY <1>0, <1>2 DEF CheckTicket, Precheck, Create, TransientError, Step, Reply,
       Bare, Bearing
  <2>3. pc[q] # "done" /\ UNCHANGED <<shown, session, raced, loaded>>
    BY <1>2 DEF CheckTicket, Precheck, Create, TransientError, Step, Reply, store
  <2>4. \E to \in {"precheck", "create", "commit", "done"} : pc' = [pc EXCEPT ![q] = to]
    BY <1>2 DEF CheckTicket, Precheck, Create, TransientError, Step, Reply
  <2>5. PICK to \in {"precheck", "create", "commit", "done"} : pc' = [pc EXCEPT ![q] = to]
    BY <2>4
  <2>6. to \in Steps /\ to # "save"
    OBVIOUS
  <2>7. /\ pc' = [pc EXCEPT ![q] = to]
        /\ IF to = "save"
           THEN session' = session /\ loaded' = [loaded EXCEPT ![q] = session]
           ELSE loaded' = loaded
        /\ UNCHANGED <<session, raced>>
        /\ answer'[q].grant \in {answer[q].grant, NoSession}
    BY <2>2, <2>3, <2>5, <2>6
  <2>8. pc[q] # "done" /\ shown' = shown
    BY <2>3
  <2> HIDE DEF Steps
  <2> QED
    BY <2>1, <2>6, <2>7, <2>8, ZenonT(30) DEF SignerMoves
<1>3. CASE (q \in Logins /\ Save(q)) \/ (q \in Forms /\ Commit(q))
  <2>1. /\ \A p \in Requests \ {q} : answer'[p] = answer[p]
        /\ answer'[q].grant = Pair(q)
    BY <1>0, <1>3 DEF Save, Commit, Reply, Bearing
  <2>2. /\ pc[q] # "done" /\ pc' = [pc EXCEPT ![q] = "done"]
        /\ UNCHANGED <<shown, loaded>> /\ WriteApplied(q)
    BY <1>3 DEF Save, Commit, Reply, Step, WriteApplied
  <2> QED
    BY <2>1, <2>2 DEF SignerMoves
<1>4. CASE Fails(q)
  <2>1. /\ \A p \in Requests \ {q} : answer'[p] = answer[p]
        /\ answer'[q].grant = NoSession
    BY <1>0, <1>4 DEF Fails, Bare, Bearing
  <2>2. /\ pc[q] # "done" /\ pc' = [pc EXCEPT ![q] = "done"]
        /\ UNCHANGED <<shown, loaded>>
        /\ WriteApplied(q) \/ UNCHANGED <<session, raced>>
    BY <1>4 DEF Fails, store
  <2> QED
    BY <2>1, <2>2 DEF SignerMoves
<1> QED
  BY <1>1, <1>2, <1>3, <1>4 DEF VerifyOtpAndLogin, Register

LEMMA CallerShape ==
    ASSUME TypeInv, NEW q \in Callers, UseSession(q) \/ Fails(q)
    PROVE  CallerMoves(q)
<1> USE Values DEF Steps
<1>0. /\ pc \in [Requests -> Steps] /\ answer \in [Requests -> Answers]
      /\ shown \in [Callers -> Sessions] /\ q \in Requests
  BY DEF TypeInv, TypeOK
<1>1. CASE Present(q)
  <2>1. PICK p \in Signers : Granted(p) /\ shown' = [shown EXCEPT ![q] = answer[p].grant]
    BY <1>1 DEF Present
  <2>2. /\ shown'[q] = answer[p].grant
        /\ \A c \in Callers \ {q} : shown'[c] = shown[c]
    BY <1>0, <2>1
  <2>3. /\ pc[q] = "start" /\ pc' = [pc EXCEPT ![q] = "read"]
        /\ UNCHANGED <<answer, session, loaded, raced>>
    BY <1>1 DEF Present, Step, store
  <2>4. ToldOver(q)' => ToldOver(q)
    BY <2>3 DEF ToldOver
  <2> QED
    BY <2>1, <2>2, <2>3, <2>4 DEF CallerMoves
<1>2. CASE Read(q)
  <2>1. /\ pc[q] = "read" /\ UNCHANGED <<shown, session, loaded, raced>>
        /\ \A p \in Requests \ {q} : answer'[p] = answer[p]
    BY <1>0, <1>2 DEF Read, Step, Reply, store
  <2>2. \E to \in {"drop", "clear", "done"} : pc' = [pc EXCEPT ![q] = to]
    BY <1>2 DEF Read, Step, Reply
  <2>3. CASE answer' = answer
    <3>1. ToldOver(q)' => ToldOver(q)
      BY <2>3 DEF ToldOver
    <3> QED
      BY <2>1, <2>2, <3>1, ZenonT(30) DEF CallerMoves
  <2>4. CASE answer' # answer
    <3>1. /\ pc' = [pc EXCEPT ![q] = "done"]
          /\ \/ session # shown[q]
             \/ q \in Verifies /\ answer' = [answer EXCEPT ![q] = Bare(200)]
      BY <1>2, <2>4 DEF Read, Step, Reply
    <3>2. ToldOver(q)' => session # shown[q]
      BY <1>0, <3>1, RequestAssumption DEF ToldOver, Bare, Bearing
    <3> QED
      BY <1>0, <2>1, <3>1, <3>2 DEF CallerMoves
  <2> QED
    BY <2>3, <2>4
<1>3. CASE Clear(q) \/ Drop(q)
  <2>1. /\ pc[q] \in {"clear", "drop"} /\ pc' = [pc EXCEPT ![q] = "done"]
        /\ UNCHANGED <<shown, loaded, raced>> /\ session' = NoSession
        /\ \A p \in Requests \ {q} : answer'[p] = answer[p]
    BY <1>0, <1>3 DEF Clear, Drop, SessionCleared, Reply, Step
  <2> QED
    BY <1>0, <2>1 DEF CallerMoves
<1>4. CASE Fails(q)
  <2>1. /\ pc[q] \notin {"start", "done"} /\ pc' = [pc EXCEPT ![q] = "done"]
        /\ UNCHANGED <<shown, loaded>>
        /\ \A p \in Requests \ {q} : answer'[p] = answer[p]
        /\ answer'[q].status = 500
    BY <1>0, <1>4 DEF Fails, Bare, Bearing
  <2>2. session' \in {session, NoSession} /\ raced' = raced
    BY <1>0, <1>4 DEF Fails, WriteApplied, SessionCleared, store, TypeInv, StepsFit
  <2>3. ~ToldOver(q)'
    BY <2>1 DEF ToldOver
  <2> QED
    BY <2>1, <2>2, <2>3 DEF CallerMoves
<1> QED
  BY <1>1, <1>2, <1>3, <1>4 DEF UseSession

\* Every step is one of a signer, one of a caller, or touches neither.
LEMMA Shapes ==
    ASSUME TypeInv, [Next]_vars
    PROVE  \/ \E q \in Signers : SignerMoves(q)
           \/ \E q \in Callers : CallerMoves(q)
           \/ UNCHANGED <<session, raced, pc, loaded, shown, answer>>
<1>1. CASE TicketExpires \/ SetBlock \/ UNCHANGED vars
  BY <1>1 DEF TicketExpires, SetBlock, vars, store
<1>2. CASE \E q \in Requests : Fails(q)
  BY <1>2, SignerShape, CallerShape DEF Requests
<1>3. CASE \/ \E q \in Logins : VerifyOtpAndLogin(q)
           \/ \E q \in Forms : Register(q)
  BY <1>3, SignerShape DEF Signers
<1>4. CASE \E q \in Callers : UseSession(q)
  BY <1>4, CallerShape
<1> QED
  BY <1>1, <1>2, <1>3, <1>4 DEF Next
-----------------------------------------------------------------------------
\* The token of a request that is done, and will not write again.
Spent(t) == \E p \in Signers : pc[p] = "done" /\ signed[p] = t

\* Tokens that are stored, read, granted or presented are spent, and a grant
\* is a request's own session, on an account that exists.
GrantInv ==
    /\ session.token # None => Spent(session.token)
    /\ \A q \in Logins :
          pc[q] = "save" /\ loaded[q].token # None => Spent(loaded[q].token)
    /\ \A p \in Signers : Granted(p) =>
          /\ pc[p] = "done" /\ answer[p].grant = Pair(p)
          /\ signed[p] # None /\ signed[p][1] \in accounts
    /\ \A c \in Callers : pc[c] # "start" =>
          shown[c].token # None /\ Spent(shown[c].token)

\* The session belongs to one request, unless a login has raced.
WholeInv ==
    raced \/ session = NoSession \/ \E p \in Signers : pc[p] = "done" /\ session = Pair(p)

LEMMA SpentKept ==
    ASSUME SignKept
    PROVE  \A t : Spent(t) => \E p \in Signers : pc'[p] = "done" /\ signed'[p] = t
  BY DEF SignKept, Spent, Requests

\* What the write of a login or a form leaves.
LEMMA WriteFacts ==
    ASSUME TypeInv, SignInv, SignKept, NEW q \in Signers, WriteApplied(q)
    PROVE  /\ signed'[q] = signed[q] /\ signed[q] # None /\ signed[q][1] \in accounts'
           /\ \/ session'.token = signed[q]
              \/ /\ session'.token = session.token
                 /\ q \in Logins /\ pc[q] = "save" /\ loaded[q].token = signed[q]
           /\ raced' \/ session' = Pair(q)
<1>0. /\ q \in Requests /\ q \notin Callers /\ pc[q] \in {"save", "commit"}
      /\ signed'[q] = signed[q] /\ signed[q] # None
  <2>1. q \in Requests /\ q \notin Callers
    BY Values DEF Requests
  <2>2. pc[q] \in {"save", "commit"}
    BY <2>1 DEF WriteApplied, TypeInv, StepsFit
  <2> QED
    BY <2>1, <2>2 DEF SignInv, SignKept
<1>1. CASE pc[q] = "save" /\ SaveApplied(q)
  <2>1. q \in Logins /\ accounts' = accounts
    BY <1>0, <1>1 DEF TypeInv, StepsFit, SaveApplied
  <2>2. session' = Saved(q) /\ raced' = (raced \/ session # loaded[q])
    BY <1>1 DEF SaveApplied
  <2>3. session'.token = Kept(signed[q], loaded[q].token, session.token)
    BY <2>2 DEF Saved
  <2>4. CASE session = loaded[q]
    <3>1. Saved(q) = Pair(q)
      BY <2>4 DEF Saved, Kept, Pair
    <3> QED
      BY <1>0, <2>1, <2>2, <3>1 DEF SignInv, Pair
  <2>5. CASE session # loaded[q]
    <3>1. raced'
      BY <2>2, <2>5
    <3> QED
      BY <1>0, <1>1, <2>1, <2>3, <3>1 DEF SignInv, Kept
  <2> QED
    BY <2>4, <2>5
<1>2. CASE pc[q] = "commit" /\ CommitApplied(q)
  <2>1. q \in Forms
    BY <1>0, <1>2 DEF TypeInv, StepsFit
  <2>2. signed[q][1] \in accounts'
    BY <1>0, <1>2, <2>1 DEF SignInv, CommitApplied
  <2> QED
    BY <1>0, <1>2, <2>2 DEF CommitApplied, Pair
<1> QED
  BY <1>0, <1>1, <1>2 DEF WriteApplied

LEMMA GrantBySigner ==
    ASSUME TypeInv, SignInv, SignKept, GrantInv, WholeInv, NEW q \in Signers,
           SignerMoves(q)
    PROVE  GrantInv' /\ WholeInv'
<1>0. /\ pc \in [Requests -> Steps] /\ loaded \in [Logins -> Sessions]
      /\ Signers \subseteq Requests /\ Callers \subseteq Requests /\ Logins \subseteq Requests
      /\ q \notin Callers
  BY Values DEF TypeInv, TypeOK, Requests
<1>1. PICK to \in Steps :
         /\ pc' = [pc EXCEPT ![q] = to]
         /\ IF to = "save"
            THEN session' = session /\ loaded' = [loaded EXCEPT ![q] = session]
            ELSE loaded' = loaded
         /\ \/ UNCHANGED <<session, raced>>
            \/ to = "done" /\ WriteApplied(q)
         /\ \/ answer'[q].grant \in {answer[q].grant, NoSession}
            \/ to = "done" /\ WriteApplied(q) /\ answer'[q].grant = Pair(q)
  BY DEF SignerMoves
<1>2. /\ pc[q] # "done" /\ shown' = shown
      /\ \A p \in Requests \ {q} : answer'[p] = answer[p]
  BY DEF SignerMoves
<1>3. WriteApplied(q) => /\ signed'[q] = signed[q] /\ signed[q] # None
                         /\ signed[q][1] \in accounts'
                         /\ session'.token \in {signed[q], session.token}
                         /\ raced' \/ session' = Pair(q)
  BY WriteFacts
<1>4. (session.token # None => Spent(session.token))'
  <2>1. CASE session'.token = session.token
    BY <2>1, SpentKept DEF GrantInv, Spent
  <2>2. CASE session'.token # session.token
    <3>1. to = "done" /\ WriteApplied(q)
      BY <1>1, <2>2
    <3>2. pc'[q] = "done" /\ signed'[q] = session'.token
      BY <1>0, <1>1, <1>3, <2>2, <3>1
    <3> QED
      BY <3>2 DEF Spent
  <2> QED
    BY <2>1, <2>2
<1>5. ASSUME NEW p \in Logins, pc'[p] = "save", loaded'[p].token # None
      PROVE  Spent(loaded[p].token)'
  <2>1. CASE loaded'[p] = loaded[p] /\ pc[p] = "save"
    BY <1>5, <2>1, SpentKept DEF GrantInv, Spent
  <2>2. CASE loaded'[p] = session
    BY <1>5, <2>2, SpentKept DEF GrantInv, Spent
  <2>3. (loaded'[p] = loaded[p] /\ pc[p] = "save") \/ loaded'[p] = session
    BY <1>0, <1>1, <1>5
  <2> QED
    BY <2>1, <2>2, <2>3
<1>6. ASSUME NEW p \in Signers, Granted(p)'
      PROVE  /\ pc'[p] = "done" /\ answer'[p].grant = Pair(p)'
             /\ signed'[p] # None /\ signed'[p][1] \in accounts'
  <2>1. CASE Granted(p) /\ answer'[p].grant = answer[p].grant
    BY <1>0, <2>1 DEF GrantInv, SignKept, Pair
  <2>2. CASE p = q /\ to = "done" /\ WriteApplied(q) /\ answer'[q].grant = Pair(q)
    BY <1>0, <1>1, <1>3, <2>2 DEF Pair
  <2> QED
    BY <1>0, <1>1, <1>2, <1>6, <2>1, <2>2 DEF Granted
<1>7. ASSUME NEW c \in Callers, pc'[c] # "start"
      PROVE  (shown[c].token # None /\ Spent(shown[c].token))'
  <2>1. pc[c] # "start" /\ shown'[c] = shown[c]
    BY <1>0, <1>1, <1>2, <1>7
  <2>2. PICK p \in Signers : pc[p] = "done" /\ signed[p] = shown[c].token
    BY <2>1 DEF GrantInv, Spent
  <2>3. pc'[p] = "done" /\ signed'[p] = shown'[c].token
    BY <1>0, <2>1, <2>2 DEF SignKept
  <2> QED
    BY <2>1, <2>3 DEF GrantInv, Spent
<1>8. WholeInv'
  <2>1. CASE WriteApplied(q) /\ to = "done"
    <3>1. pc'[q] = "done" /\ Pair(q)' = Pair(q)
      BY <1>0, <1>1, <1>3, <2>1 DEF Pair
    <3> QED
      BY <1>3, <2>1, <3>1 DEF WholeInv
  <2>2. CASE UNCHANGED <<session, raced>>
    BY <1>0, <2>2 DEF WholeInv, SignKept, Pair
  <2> QED
    BY <1>1, <2>1, <2>2
<1> QED
  BY <1>4, <1>5, <1>6, <1>7, <1>8 DEF GrantInv

LEMMA GrantByCaller ==
    ASSUME TypeInv, SignInv, SignKept, GrantInv, WholeInv, NEW q \in Callers,
           CallerMoves(q)
    PROVE  GrantInv' /\ WholeInv'
<1>0. /\ pc \in [Requests -> Steps] /\ Signers \subseteq Requests
      /\ Callers \subseteq Requests /\ Logins \subseteq Signers
      /\ \A p \in Signers : p # q
  BY Values DEF TypeInv, TypeOK, Requests
<1>1. /\ session' \in {session, NoSession} /\ UNCHANGED <<loaded, raced>>
      /\ \A p \in Signers : pc'[p] = pc[p] /\ answer'[p] = answer[p]
      /\ \A c \in Callers \ {q} : pc'[c] = pc[c] /\ shown'[c] = shown[c]
  BY <1>0 DEF CallerMoves
<1>2. (session.token # None => Spent(session.token))'
  BY <1>1, SpentKept DEF GrantInv, Spent, NoSession
<1>3. (\A p \in Logins :
          pc[p] = "save" /\ loaded[p].token # None => Spent(loaded[p].token))'
  <2> SUFFICES ASSUME NEW p \in Logins, pc'[p] = "save", loaded'[p].token # None
               PROVE  Spent(loaded[p].token)'
    OBVIOUS
  <2>1. pc[p] = "save" /\ loaded' = loaded
    BY <1>0, <1>1
  <2>2. PICK r \in Signers : pc[r] = "done" /\ signed[r] = loaded[p].token
    BY <2>1 DEF GrantInv, Spent
  <2>3. pc'[r] = "done" /\ signed'[r] = loaded'[p].token
    BY <1>0, <2>1, <2>2 DEF SignKept
  <2> QED
    BY <2>3 DEF Spent
<1>4. ASSUME NEW p \in Signers, Granted(p)'
      PROVE  /\ pc'[p] = "done" /\ answer'[p].grant = Pair(p)'
             /\ signed'[p] # None /\ signed'[p][1] \in accounts'
  <2>1. Granted(p)
    BY <1>1, <1>4 DEF Granted
  <2> QED
    BY <1>1, <2>1 DEF GrantInv, SignKept, Pair
<1>5. ASSUME NEW c \in Callers, pc'[c] # "start"
      PROVE  (shown[c].token # None /\ Spent(shown[c].token))'
  <2>1. CASE pc[c] # "start" /\ shown'[c] = shown[c]
    <3>1. PICK p \in Signers : pc[p] = "done" /\ signed[p] = shown[c].token
      BY <2>1 DEF GrantInv, Spent
    <3>2. pc'[p] = "done" /\ signed'[p] = shown'[c].token
      BY <1>0, <2>1, <3>1 DEF SignKept
    <3> QED
      BY <2>1, <3>2 DEF GrantInv, Spent
  <2>2. CASE \E p \in Signers : Granted(p) /\ shown'[c] = answer[p].grant
    <3>1. PICK p \in Signers : Granted(p) /\ shown'[c] = answer[p].grant
      BY <2>2
    <3>2. /\ pc[p] = "done" /\ signed[p] # None /\ answer[p].grant = Pair(p)
      BY <3>1 DEF GrantInv
    <3>3. shown'[c].token = signed[p] /\ pc'[p] = "done" /\ signed'[p] = signed[p]
      BY <1>1, <3>1, <3>2 DEF Pair, SignKept
    <3> QED
      BY <3>2, <3>3 DEF Spent
  <2>3. (pc[c] # "start" /\ shown'[c] = shown[c]) \/
        \E p \in Signers : Granted(p) /\ shown'[c] = answer[p].grant
    BY <1>1, <1>5 DEF CallerMoves
  <2> QED
    BY <2>1, <2>2, <2>3
<1>6. WholeInv'
  BY <1>0, <1>1 DEF WholeInv, SignKept, Pair
<1> QED
  BY <1>2, <1>3, <1>4, <1>5, <1>6 DEF GrantInv

FullInv == TypeInv /\ SignInv /\ GrantInv /\ WholeInv

LEMMA FullStep == FullInv /\ [Next]_vars => FullInv' /\ SignKept
<1> SUFFICES ASSUME FullInv, [Next]_vars PROVE FullInv' /\ SignKept
  OBVIOUS
<1> USE DEF FullInv
<1>1. TypeInv' /\ SignInv' /\ SignKept
  BY TypeStep, SignStep
<1>2. CASE UNCHANGED <<session, raced, pc, loaded, shown, answer>>
  <2>1. \A p \in Signers : Granted(p)' <=> Granted(p)
    BY <1>2 DEF Granted
  <2>2. \A p \in Signers : pc[p] = "done" => Pair(p)' = Pair(p)
    BY <1>1 DEF SignKept, Pair
  <2>3. GrantInv'
    <3>1. \A p \in Signers : pc[p] = "done" => signed'[p] = signed[p]
      BY <1>1 DEF SignKept
    <3>2. accounts \subseteq accounts'
      BY <1>1 DEF SignKept
    <3>3. \A t : Spent(t) => Spent(t)'
      BY <1>2, <3>1 DEF Spent
    <3>4. (session.token # None => Spent(session.token))'
      BY <1>2, <3>1 DEF GrantInv, Spent
    <3>5. (\A q \in Logins :
             pc[q] = "save" /\ loaded[q].token # None => Spent(loaded[q].token))'
      BY <1>2, <3>1 DEF GrantInv, Spent
    <3>6. (\A c \in Callers : pc[c] # "start" =>
             shown[c].token # None /\ Spent(shown[c].token))'
      BY <1>2, <3>1 DEF GrantInv, Spent
    <3>7. (\A p \in Signers : Granted(p) =>
             /\ pc[p] = "done" /\ answer[p].grant = Pair(p)
             /\ signed[p] # None /\ signed[p][1] \in accounts)'
      BY <1>2, <2>1, <2>2, <3>1, <3>2 DEF GrantInv
    <3> QED
      BY <3>4, <3>5, <3>6, <3>7 DEF GrantInv
  <2>4. WholeInv'
    BY <1>2, <2>2 DEF WholeInv
  <2> QED
    BY <1>1, <2>3, <2>4
<1> QED
  BY <1>1, <1>2, Shapes, GrantBySigner, GrantByCaller

LEMMA FullInit == Init => FullInv
<1> SUFFICES ASSUME Init PROVE FullInv
  OBVIOUS
<1>1. /\ \A q \in Requests : pc[q] = "start" /\ answer[q].grant = NoSession
      /\ \A q \in Signers : signed[q] = None
      /\ session.token = None /\ session = NoSession
      /\ Logins \subseteq Signers /\ Signers \subseteq Requests /\ Callers \subseteq Requests
      /\ Forms \subseteq Signers
  BY Values DEF Init, Bare, Bearing, NoSession, Requests
<1>2. SignInv
  BY <1>1 DEF SignInv
<1>3. GrantInv
  BY <1>1 DEF GrantInv, Granted
<1>4. WholeInv
  BY <1>1 DEF WholeInv
<1> QED
  BY <1>2, <1>3, <1>4, TypeInit DEF FullInv

LEMMA FullHolds == Spec => []FullInv
  BY FullInit, FullStep, PTL DEF Spec

\* A token that a login or a form is answered names the account that was
\* committed, whatever the transactions went through.
THEOREM NamesAccount == Spec => []TokenNamesAccount
<1>1. FullInv => TokenNamesAccount
  <2> SUFFICES ASSUME FullInv, NEW q \in Signers, Granted(q)
               PROVE  answer[q].grant.token[1] \in accounts
    BY DEF TokenNamesAccount
  <2>1. answer[q].grant = Pair(q) /\ signed[q][1] \in accounts
    BY DEF FullInv, GrantInv
  <2>2. answer[q].grant.token = signed[q]
    BY <2>1 DEF Pair
  <2> QED
    BY <2>1, <2>2
<1> QED
  BY <1>1, FullHolds, PTL

\* Token and device are of one request, unless a login has saved over a change
\* that came after its read.
THEOREM SessionWhole == Spec => []SessionIsWhole
<1>1. FullInv => SessionIsWhole
  BY DEF FullInv, WholeInv, SessionIsWhole
<1> QED
  BY <1>1, FullHolds, PTL

-----------------------------------------------------------------------------
\* Who was told that its session is over is done.
OverInv == OverIsOver /\ \A q \in Callers : ToldOver(q) => pc[q] = "done"

\* A login writes no token that was spent before, except in one second.
LEMMA OverBySigner ==
    ASSUME FullInv, SignKept, OverInv, NEW q \in Signers, SignerMoves(q)
    PROVE  OverInv'
<1>0. /\ pc \in [Requests -> Steps] /\ q \notin Callers /\ pc[q] # "done"
      /\ Signers \subseteq Requests /\ Callers \subseteq Requests
      /\ \A c \in Callers : answer'[c] = answer[c] /\ pc'[c] = pc[c] /\ shown'[c] = shown[c]
  BY Values DEF FullInv, TypeInv, TypeOK, Requests, SignerMoves
<1>1. \A c \in Callers : ToldOver(c)' <=> ToldOver(c)
  BY <1>0 DEF ToldOver
<1>2. ASSUME ~Reissued', NEW c \in Callers, ToldOver(c)
      PROVE  session' # shown[c]
  <2>1. ~Reissued /\ session # shown[c]
    BY <1>2 DEF SignKept, OverInv, OverIsOver
  <2>2. pc[c] # "start"
    BY <1>2 DEF OverInv
  <2>3. PICK p \in Signers : pc[p] = "done" /\ signed[p] = shown[c].token
    BY <2>2 DEF FullInv, GrantInv, Spent
  <2>4. shown[c].token # None /\ p # q
    BY <1>0, <2>2, <2>3 DEF FullInv, GrantInv
  <2>5. CASE WriteApplied(q)
    <3>1. /\ signed[q] # None
          /\ \/ session'.token = signed[q]
             \/ q \in Logins /\ pc[q] = "save" /\ loaded[q].token = signed[q]
      BY <2>5, WriteFacts DEF FullInv
    <3>2. CASE session'.token = signed[q]
      <4>1. signed[q] # signed[p]
        BY <2>1, <2>3, <2>4 DEF Reissued
      <4> QED
        BY <2>3, <3>2, <4>1
    <3>3. CASE q \in Logins /\ pc[q] = "save" /\ loaded[q].token = signed[q]
      <4>1. PICK r \in Signers : pc[r] = "done" /\ signed[r] = signed[q]
        BY <3>1, <3>3 DEF FullInv, GrantInv, Spent
      <4>2. r # q
        BY <1>0, <4>1
      <4> QED
        BY <2>1, <3>1, <4>1, <4>2 DEF Reissued
    <3> QED
      BY <3>1, <3>2, <3>3
  <2>6. CASE session' = session
    BY <2>1, <2>6
  <2> QED
    BY <2>5, <2>6 DEF SignerMoves
<1> QED
  BY <1>0, <1>1, <1>2 DEF OverInv, OverIsOver

LEMMA OverByCaller ==
    ASSUME FullInv, SignKept, OverInv, FullInv', NEW q \in Callers, CallerMoves(q)
    PROVE  OverInv'
<1>0. /\ pc \in [Requests -> Steps] /\ Callers \subseteq Requests
  BY Values DEF FullInv, TypeInv, TypeOK
<1>1. /\ session' \in {session, NoSession}
      /\ \A c \in Callers \ {q} : /\ pc'[c] = pc[c] /\ shown'[c] = shown[c]
                                  /\ answer'[c] = answer[c]
  BY <1>0 DEF CallerMoves
<1>2. \A c \in Callers : pc'[c] = "done" => shown'[c] # NoSession
  BY DEF FullInv, GrantInv, NoSession
<1>3. ASSUME NEW c \in Callers, ToldOver(c)'
      PROVE  pc'[c] = "done" /\ (Reissued \/ session' # shown'[c])
  <2>1. CASE c = q
    <3>1. ~ToldOver(q)
      BY DEF OverInv, CallerMoves
    <3> QED
      BY <1>1, <1>2, <1>3, <2>1, <3>1 DEF CallerMoves
  <2>2. CASE c # q
    <3>1. ToldOver(c)
      BY <1>1, <1>3, <2>2 DEF ToldOver
    <3>2. pc'[c] = "done"
      BY <1>1, <2>2, <3>1 DEF OverInv
    <3> QED
      BY <1>1, <1>2, <2>2, <3>1, <3>2 DEF OverInv, OverIsOver
  <2> QED
    BY <2>1, <2>2
<1> QED
  BY <1>3 DEF OverInv, OverIsOver, SignKept

LEMMA OverStep == FullInv /\ OverInv /\ [Next]_vars => OverInv'
<1> SUFFICES ASSUME FullInv, OverInv, [Next]_vars PROVE OverInv'
  OBVIOUS
<1>1. FullInv' /\ SignKept
  BY FullStep
<1>2. TypeInv
  BY DEF FullInv
<1>3. CASE UNCHANGED <<session, raced, pc, loaded, shown, answer>>
  <2>1. CASE Reissued
    BY <1>1, <1>3, <2>1 DEF OverInv, OverIsOver, ToldOver, SignKept
  <2>2. CASE ~Reissued
    BY <1>3, <2>2 DEF OverInv, OverIsOver, ToldOver
  <2> QED
    BY <2>1, <2>2
<1> QED
  BY <1>1, <1>2, <1>3, Shapes, OverBySigner, OverByCaller

\* A client that was told that its session is over was told so for good,
\* whatever logins, unblocking and failures follow, unless two logins of one
\* second signed one token.
THEOREM OverStaysOver == Spec => []OverIsOver
<1>1. Init => OverInv
  <2> SUFFICES ASSUME Init PROVE OverInv
    OBVIOUS
  <2>1. \A q \in Callers : ~ToldOver(q)
    BY Values DEF Init, Bare, Bearing, ToldOver, Requests
  <2> QED
    BY <2>1 DEF OverInv, OverIsOver
<1>2. OverInv => OverIsOver
  BY DEF OverInv
<1> QED
  BY <1>1, <1>2, FullHolds, OverStep, PTL DEF Spec
-----------------------------------------------------------------------------
(* Codes and sessions.  Each login that is past its code has paid for one;  *)
(* a form can only be under way, or be granted its session, if some login   *)
(* was answered with a ticket in place of a session.                       *)

Paid == {q \in Logins : pc[q] # "start" /\ answer[q].status # 400}
Ticketed(t) == pc[t] = "done" /\ answer[t] = Bare(200)
Midway(f) == pc[f] \in {"precheck", "create", "commit"}

CodeInv ==
    /\ accepted = Cardinality(Paid)
    /\ \A q \in Logins : /\ pc[q] # "done" => answer[q] = Bare(0)
                         /\ Granted(q) => answer[q].status = 200
TicketInv ==
    ticket \/ (\E f \in Forms : Midway(f) \/ Granted(f)) => \E t \in Logins : Ticketed(t)
FormInv ==
    /\ \A q \in Forms : Granted(q) => accounts # {}
    /\ \A p, q \in Forms : Granted(p) /\ Granted(q) => p = q

\* An answer is given once: what is done stays as it is.
LEMMA AnswersStay ==
    ASSUME TypeInv, [Next]_vars, NEW p \in Requests, pc[p] = "done"
    PROVE  pc'[p] = "done" /\ answer'[p] = answer[p]
<1> USE Values DEF TypeInv, TypeOK
<1>1. ASSUME NEW q \in Requests, NEW to, pc[q] # "done", pc' = [pc EXCEPT ![q] = to],
             answer' = answer \/ \E a : answer' = [answer EXCEPT ![q] = a]
      PROVE  pc'[p] = "done" /\ answer'[p] = answer[p]
  BY <1>1
<1>2. ASSUME NEW q \in Logins, VerifyOtpAndLogin(q)
      PROVE  pc'[p] = "done" /\ answer'[p] = answer[p]
  BY <1>1, <1>2 DEF VerifyOtpAndLogin, CheckCode, Find, Save, Step, Reply
<1>3. ASSUME NEW q \in Forms, Register(q)
      PROVE  pc'[p] = "done" /\ answer'[p] = answer[p]
  <2>1. CASE CheckTicket(q) \/ Precheck(q) \/ Commit(q) \/ TransientError(q)
    BY <1>1, <2>1 DEF CheckTicket, Precheck, Commit, TransientError, Step, Reply
  <2>2. CASE Create(q)
    BY <1>1, <2>2 DEF Create, Step, Reply
  <2> QED
    BY <1>3, <2>1, <2>2 DEF Register
<1>4. ASSUME NEW q \in Callers, UseSession(q)
      PROVE  pc'[p] = "done" /\ answer'[p] = answer[p]
  BY <1>1, <1>4 DEF UseSession, Present, Read, Clear, Drop, Step, Reply
<1>5. ASSUME NEW q \in Requests, Fails(q)
      PROVE  pc'[p] = "done" /\ answer'[p] = answer[p]
  BY <1>1, <1>5 DEF Fails
<1>6. CASE TicketExpires \/ SetBlock \/ UNCHANGED vars
  BY <1>6 DEF TicketExpires, SetBlock, vars
<1> QED
  BY <1>2, <1>3, <1>4, <1>5, <1>6 DEF Next

\* A form comes to be under way by a ticket, and to its session by a commit.
LEMMA FormMoves ==
    ASSUME TypeInv, [Next]_vars, NEW f \in Forms
    PROVE  /\ Midway(f)' => Midway(f) \/ ticket
           /\ Granted(f)' => Granted(f) \/ (InTxn(f) /\ accounts' # {})
<1> USE Values DEF TypeInv, TypeOK
<1>1. /\ pc \in [Requests -> Steps] /\ answer \in [Requests -> Answers]
      /\ f \in Requests /\ f \in Signers
  OBVIOUS
<1>2. ASSUME pc'[f] = pc[f], answer'[f] = answer[f]
      PROVE  (Midway(f)' => Midway(f)) /\ (Granted(f)' => Granted(f))
  BY <1>2 DEF Midway, Granted
<1>3. ASSUME NEW q \in Requests, q # f, NEW to, pc' = [pc EXCEPT ![q] = to],
             answer' = answer \/ \E a : answer' = [answer EXCEPT ![q] = a]
      PROVE  pc'[f] = pc[f] /\ answer'[f] = answer[f]
  BY <1>1, <1>3
<1>4. ASSUME NEW q \in Logins, VerifyOtpAndLogin(q)
      PROVE  pc'[f] = pc[f] /\ answer'[f] = answer[f]
  BY <1>3, <1>4 DEF VerifyOtpAndLogin, CheckCode, Find, Save, Step, Reply
<1>5. ASSUME NEW q \in Callers, UseSession(q)
      PROVE  pc'[f] = pc[f] /\ answer'[f] = answer[f]
  <2>1. q # f
    BY DEF Signers
  <2> QED
    BY <1>3, <1>5, <2>1 DEF UseSession, Present, Read, Clear, Drop, Step, Reply
<1>6. ASSUME NEW q \in Forms, Register(q), q # f
      PROVE  pc'[f] = pc[f] /\ answer'[f] = answer[f]
  <2>1. CASE Create(q)
    BY <1>3, <1>6, <2>1 DEF Create, Step, Reply
  <2>2. CASE CheckTicket(q) \/ Precheck(q) \/ Commit(q) \/ TransientError(q)
    BY <1>3, <1>6, <2>2
       DEF CheckTicket, Precheck, Commit, TransientError, Step, Reply
  <2> QED
    BY <1>6, <2>1, <2>2 DEF Register
<1>7. CASE Register(f)
  <2>1. CASE CheckTicket(f)
    <3>1. ticket \/ pc'[f] = "done"
      BY <1>1, <2>1 DEF CheckTicket, Step, Reply
    <3>2. answer'[f].grant \in {answer[f].grant, NoSession}
      BY <1>1, <2>1 DEF CheckTicket, Reply, Bare, Bearing
    <3> QED
      BY <1>1, <3>1, <3>2 DEF Midway, Granted
  <2>2. CASE Precheck(f) \/ TransientError(f) \/ Create(f)
    <3>1. Midway(f)
      BY <1>1, <2>2 DEF Precheck, TransientError, Create, Step, Reply, Midway
    <3>2. answer'[f].grant \in {answer[f].grant, NoSession}
      BY <1>1, <2>2 DEF Precheck, TransientError, Create, Step, Reply, Bare, Bearing
    <3> QED
      BY <1>1, <3>1, <3>2 DEF Granted
  <2>3. CASE Commit(f)
    BY <1>1, <2>3 DEF Commit, CommitApplied, Reply, Step, InTxn, Midway
  <2> QED
    BY <1>7, <2>1, <2>2, <2>3 DEF Register
<1>8. ASSUME NEW q \in Requests, Fails(q)
      PROVE  (Midway(f)' => Midway(f)) /\ (Granted(f)' => Granted(f))
  <2>1. CASE q = f
    BY <1>1, <1>8, <2>1 DEF Fails, Midway, Granted, Bare, Bearing
  <2>2. CASE q # f
    BY <1>2, <1>3, <1>8, <2>2 DEF Fails
  <2> QED
    BY <2>1, <2>2
<1>9. CASE TicketExpires \/ SetBlock \/ UNCHANGED vars
  <2>1. pc' = pc /\ answer' = answer
    BY <1>9 DEF TicketExpires, SetBlock, vars
  <2> QED
    BY <1>2, <2>1
<1>10. CASE \E q \in Forms : Register(q)
  BY <1>2, <1>6, <1>7, <1>10
<1>11. CASE \/ \E q \in Logins : VerifyOtpAndLogin(q)
            \/ \E q \in Callers : UseSession(q)
  BY <1>2, <1>4, <1>5, <1>11
<1>12. CASE \E q \in Requests : Fails(q)
  BY <1>8, <1>12
<1> QED
  BY <1>9, <1>10, <1>11, <1>12 DEF Next

\* A ticket is in use from the answer of the login that was given it.
LEMMA TicketComes ==
    ASSUME TypeInv, [Next]_vars, ticket'
    PROVE  ticket \/ \E t \in Logins : Ticketed(t)'
<1> USE Values DEF TypeInv, TypeOK
<1>1. ASSUME NEW q \in Logins, Find(q)
      PROVE  ticket \/ \E t \in Logins : Ticketed(t)'
  BY <1>1, ZenonT(30) DEF Find, Reply, Step, Ticketed, Bare, Bearing
<1>2. ASSUME NEW q \in Logins, CheckCode(q) \/ Save(q) PROVE ticket
  BY <1>2 DEF CheckCode, Save
<1>3. ASSUME NEW q \in Forms, Register(q) PROVE ticket
  BY <1>3 DEF Register, CheckTicket, Precheck, Create, Commit, TransientError
<1>4. ASSUME NEW q \in Callers, UseSession(q) PROVE ticket
  BY <1>4 DEF UseSession, Present, Read, Clear, Drop
<1>5. ASSUME NEW q \in Requests, Fails(q) PROVE ticket
  BY <1>5 DEF Fails
<1>6. CASE TicketExpires \/ SetBlock \/ UNCHANGED vars
  BY <1>6 DEF TicketExpires, SetBlock, vars
<1>7. CASE \E q \in Logins : VerifyOtpAndLogin(q)
  BY <1>1, <1>2, <1>7 DEF VerifyOtpAndLogin
<1> QED
  BY <1>3, <1>4, <1>5, <1>6, <1>7 DEF Next

\* A step that accepts no code: a login that takes one has paid before.
LEMMA NoCodeTaken ==
    ASSUME TypeInv, CodeInv, accepted' = accepted, NEW q \in Requests,
           pc[q] # "done",
           \A p \in Requests \ {q} : pc'[p] = pc[p] /\ answer'[p] = answer[p],
           q \in Logins => pc[q] # "start" /\ pc'[q] # "start",
           \/ q \in Logins => pc'[q] # "done" /\ answer'[q] = answer[q]
           \/ /\ pc'[q] = "done" /\ answer'[q].status # 400
              /\ answer'[q].grant # NoSession => answer'[q].status = 200
    PROVE  CodeInv'
<1>0. Logins \subseteq Requests
  BY Values
<1>1. \A p \in Logins : /\ pc[p] # "done" => answer[p] = Bare(0)
                        /\ Granted(p) => answer[p].status = 200
  BY DEF CodeInv
<1>2. \A p \in Logins \ {q} : p \in Paid' <=> p \in Paid
  BY <1>0 DEF Paid
<1>3. q \in Logins => q \in Paid' /\ q \in Paid
  BY <1>0, <1>1 DEF Paid, Bare, Bearing
<1>4. Paid' = Paid
  BY <1>2, <1>3 DEF Paid
<1>5. ASSUME NEW p \in Logins
      PROVE  /\ pc'[p] # "done" => answer'[p] = Bare(0)
             /\ Granted(p)' => answer'[p].status = 200
  <2>1. CASE p = q
    BY <1>0, <1>1, <2>1 DEF Granted, Bare, Bearing
  <2>2. CASE p # q
    BY <1>0, <1>1, <2>2 DEF Granted
  <2> QED
    BY <2>1, <2>2
<1> QED
  BY <1>4, <1>5 DEF CodeInv

\* A code that is accepted is the first of its login.
LEMMA CodeTaken ==
    ASSUME TypeInv, CodeInv, NEW q \in Logins, CheckCode(q)
    PROVE  CodeInv'
<1>0. /\ pc \in [Requests -> Steps] /\ answer \in [Requests -> Answers]
      /\ Logins \subseteq Requests /\ q \in Requests /\ pc[q] = "start"
  BY Values DEF TypeInv, TypeOK, CheckCode, Step, Reply
<1>1. \A p \in Logins : /\ pc[p] # "done" => answer[p] = Bare(0)
                        /\ Granted(p) => answer[p].status = 200
  BY DEF CodeInv
<1>2. q \notin Paid /\ answer[q] = Bare(0)
  BY <1>0, <1>1 DEF Paid
<1>3. IsFiniteSet(Paid)
  <2>1. Paid \subseteq Signers
    BY DEF Paid, Signers
  <2> QED
    BY <2>1, FS_Subset, RequestAssumption
<1>4. CASE pc' = [pc EXCEPT ![q] = "find"] /\ accepted' = accepted + 1 /\ answer' = answer
  <2>1. Paid' = Paid \cup {q}
    BY <1>0, <1>2, <1>4 DEF Paid, Bare, Bearing
  <2>2. Cardinality(Paid \cup {q}) = Cardinality(Paid) + 1
    BY <1>2, <1>3, FS_AddElement
  <2>3. \A p \in Logins : /\ pc'[p] # "done" => answer'[p] = Bare(0)
                          /\ Granted(p)' => answer'[p].status = 200
    BY <1>0, <1>1, <1>2, <1>4 DEF Granted
  <2> QED
    BY <1>4, <2>1, <2>2, <2>3 DEF CodeInv
<1>5. CASE /\ pc' = [pc EXCEPT ![q] = "done"] /\ accepted' = accepted
           /\ answer' = [answer EXCEPT ![q] = Bare(400)]
  <2>1. q \notin Paid' /\ ~Granted(q)' /\ pc'[q] = "done"
    BY <1>0, <1>5 DEF Paid, Granted, Bare, Bearing
  <2>2. \A p \in Logins \ {q} : pc'[p] = pc[p] /\ answer'[p] = answer[p]
    BY <1>0, <1>5
  <2>3. Paid' = Paid
    BY <1>2, <2>1, <2>2 DEF Paid
  <2>4. \A p \in Logins : /\ pc'[p] # "done" => answer'[p] = Bare(0)
                          /\ Granted(p)' => answer'[p].status = 200
    BY <1>1, <2>1, <2>2 DEF Granted
  <2> QED
    BY <1>5, <2>3, <2>4 DEF CodeInv
<1> QED
  BY <1>4, <1>5 DEF CheckCode, Step, Reply

LEMMA CodeStep == TypeInv /\ CodeInv /\ [Next]_vars => CodeInv'
<1> SUFFICES ASSUME TypeInv, CodeInv, [Next]_vars PROVE CodeInv'
  OBVIOUS
<1>0. /\ pc \in [Requests -> Steps] /\ answer \in [Requests -> Answers]
      /\ Logins \subseteq Requests /\ Forms \subseteq Requests /\ Callers \subseteq Requests
      /\ Logins \cap Forms = {} /\ Logins \cap Callers = {}
  BY Values DEF TypeInv, TypeOK
<1>1. ASSUME NEW q \in Logins, Find(q) PROVE CodeInv'
  <2>1. accepted' = accepted /\ pc[q] = "find"
    BY <1>1 DEF Find, Step, Reply
  <2>2. \/ pc' = [pc EXCEPT ![q] = "save"] /\ answer' = answer
        \/ \E status \in {200, 409} :
              /\ pc' = [pc EXCEPT ![q] = "done"]
              /\ answer' = [answer EXCEPT ![q] = Bare(status)]
    BY <1>1 DEF Find, Step, Reply
  <2>3. CASE pc' = [pc EXCEPT ![q] = "save"] /\ answer' = answer
    <3>1. /\ q \in Requests /\ pc'[q] = "save" /\ answer'[q] = answer[q]
          /\ \A p \in Requests \ {q} : pc'[p] = pc[p] /\ answer'[p] = answer[p]
      BY <1>0, <2>3
    <3> QED
      BY <2>1, <3>1, NoCodeTaken
  <2>4. ASSUME NEW status \in {200, 409}, pc' = [pc EXCEPT ![q] = "done"],
               answer' = [answer EXCEPT ![q] = Bare(status)]
        PROVE  CodeInv'
    <3>1. /\ q \in Requests /\ pc'[q] = "done"
          /\ \A p \in Requests \ {q} : pc'[p] = pc[p] /\ answer'[p] = answer[p]
          /\ answer'[q].status # 400 /\ answer'[q].grant = NoSession
      BY <1>0, <2>4 DEF Bare, Bearing
    <3> QED
      BY <2>1, <3>1, NoCodeTaken
  <2> QED
    BY <2>2, <2>3, <2>4
<1>2. ASSUME NEW q \in Logins, Save(q) PROVE CodeInv'
  <2>1. /\ accepted' = accepted /\ pc[q] = "save" /\ pc' = [pc EXCEPT ![q] = "done"]
        /\ answer' = [answer EXCEPT ![q] = Bearing(200, Pair(q))]
    BY <1>2 DEF Save, Step, Reply
  <2>2. /\ q \in Requests /\ pc'[q] = "done" /\ answer'[q].status = 200
        /\ \A p \in Requests \ {q} : pc'[p] = pc[p] /\ answer'[p] = answer[p]
    BY <1>0, <2>1 DEF Bearing
  <2> QED
    BY <2>1, <2>2, NoCodeTaken
<1>3. ASSUME NEW q \in Requests \ Logins, accepted' = accepted, pc[q] # "done",
             \E to \in Steps \ {"start"} : pc' = [pc EXCEPT ![q] = to],
             answer' = answer \/ \E a : answer' = [answer EXCEPT ![q] = a]
      PROVE  CodeInv'
  <2>1. \A p \in Requests \ {q} : pc'[p] = pc[p] /\ answer'[p] = answer[p]
    BY <1>0, <1>3
  <2> QED
    BY <1>3, <2>1, NoCodeTaken
<1>4. ASSUME NEW q \in Forms, Register(q) PROVE CodeInv'
  <2>1. CASE CheckTicket(q) \/ Commit(q) \/ TransientError(q) \/ Precheck(q)
    BY <1>0, <1>3, <2>1
       DEF CheckTicket, Commit, TransientError, Precheck, Step, Reply, Steps
  <2>2. CASE Create(q)
    BY <1>0, <1>3, <2>2 DEF Create, Step, Reply, Steps
  <2> QED
    BY <1>4, <2>1, <2>2 DEF Register
<1>5. ASSUME NEW q \in Callers, UseSession(q) PROVE CodeInv'
  BY <1>0, <1>3, <1>5 DEF UseSession, Present, Read, Clear, Drop, Step, Reply, Steps
<1>6. ASSUME NEW q \in Requests, Fails(q) PROVE CodeInv'
  <2>1. /\ accepted' = accepted /\ pc[q] \notin {"start", "done"}
        /\ pc' = [pc EXCEPT ![q] = "done"]
        /\ answer' = [answer EXCEPT ![q] = Bare(500)]
    BY <1>6 DEF Fails
  <2>2. /\ pc'[q] = "done" /\ answer'[q].status # 400 /\ answer'[q].grant = NoSession
        /\ \A p \in Requests \ {q} : pc'[p] = pc[p] /\ answer'[p] = answer[p]
    BY <1>0, <2>1 DEF Bare, Bearing
  <2> QED
    BY <2>1, <2>2, NoCodeTaken
<1>7. CASE TicketExpires \/ SetBlock \/ UNCHANGED vars
  <2>1. UNCHANGED <<accepted, pc, answer>>
    BY <1>7 DEF TicketExpires, SetBlock, vars
  <2> QED
    BY <2>1 DEF CodeInv, Paid, Granted
<1>8. CASE \E q \in Logins : VerifyOtpAndLogin(q)
  BY <1>1, <1>2, <1>8, CodeTaken DEF VerifyOtpAndLogin
<1> QED
  BY <1>4, <1>5, <1>6, <1>7, <1>8 DEF Next

LEMMA TicketStep == TypeInv /\ TicketInv /\ [Next]_vars => TicketInv'
<1> SUFFICES ASSUME TypeInv, TicketInv, [Next]_vars PROVE TicketInv'
  OBVIOUS
<1>1. \A t \in Logins : Ticketed(t) => Ticketed(t)'
  BY AnswersStay, Values DEF Ticketed, Bare, Bearing
<1>2. ticket' => ticket \/ \E t \in Logins : Ticketed(t)'
  BY TicketComes
<1>3. \A f \in Forms : Midway(f)' \/ Granted(f)' => Midway(f) \/ Granted(f) \/ ticket
  BY FormMoves DEF InTxn, Midway
<1> QED
  BY <1>1, <1>2, <1>3 DEF TicketInv

LEMMA FormStep == TypeInv /\ AccountInv /\ FormInv /\ [Next]_vars /\ SignKept => FormInv'
<1> SUFFICES ASSUME TypeInv, AccountInv, FormInv, [Next]_vars, SignKept PROVE FormInv'
  OBVIOUS
<1>1. \A f \in Forms : Granted(f)' => Granted(f) \/ (InTxn(f) /\ accounts' # {})
  BY FormMoves
<1>2. accounts \subseteq accounts'
  BY DEF SignKept
<1>3. \A f \in Forms : InTxn(f) => \A p \in Forms : ~Granted(p)
  BY DEF AccountInv, FormInv
<1> QED
  BY <1>1, <1>2, <1>3 DEF AccountInv, FormInv

PaidInv == FullInv /\ AccountInv /\ CodeInv /\ TicketInv /\ FormInv

\* No session without a code of its own: the login that was answered with the
\* ticket of a form paid for a code and was granted no session for it, and one
\* form at most is granted the account.
THEOREM SessionsArePaid == Spec => []SessionsNeedCodes
<1>1. Init => PaidInv
  <2> SUFFICES ASSUME Init PROVE AccountInv /\ CodeInv /\ TicketInv /\ FormInv
    BY FullInit DEF PaidInv
  <2>1. /\ \A q \in Requests : pc[q] = "start" /\ answer[q] = Bare(0)
        /\ Logins \subseteq Requests /\ Forms \subseteq Requests
        /\ accounts = {} /\ rows = {} /\ accepted = 0 /\ ~ticket
    BY Values DEF Init
  <2>2. \A q \in Signers : ~Granted(q)
    BY <2>1 DEF Granted, Bare, Bearing, Signers
  <2>3. Paid = {}
    BY <2>1 DEF Paid
  <2>4. CodeInv
    BY <2>1, <2>2, <2>3, FS_EmptySet, Values DEF CodeInv
  <2>5. AccountInv
    BY <2>1 DEF AccountInv, InTxn
  <2>6. TicketInv /\ FormInv
    BY <2>1, <2>2, Values DEF TicketInv, FormInv, Midway
  <2> QED
    BY <2>4, <2>5, <2>6
<1>2. PaidInv /\ [Next]_vars => PaidInv'
  <2> SUFFICES ASSUME PaidInv, [Next]_vars PROVE PaidInv'
    OBVIOUS
  <2>1. FullInv' /\ SignKept
    BY FullStep DEF PaidInv
  <2> QED
    BY <2>1, AccountStep, CodeStep, TicketStep, FormStep DEF PaidInv, FullInv
<1>3. PaidInv => SessionsNeedCodes
  <2> SUFFICES ASSUME PaidInv PROVE SessionsNeedCodes
    OBVIOUS
  <2> DEFINE Winners == {q \in Signers : Granted(q)}
  <2>1. /\ IsFiniteSet(Signers) /\ Paid \subseteq Logins /\ Winners \subseteq Signers
        /\ Signers = Logins \cup Forms /\ accepted = Cardinality(Paid)
    BY RequestAssumption DEF PaidInv, CodeInv, Paid, Signers
  <2>2. IsFiniteSet(Paid) /\ IsFiniteSet(Winners) /\ Cardinality(Paid) \in Nat
    <3>1. Paid \subseteq Signers
      BY <2>1
    <3>2. IsFiniteSet(Paid) /\ IsFiniteSet(Winners)
      BY <2>1, <3>1, FS_Subset
    <3> QED
      BY <3>2, FS_CardinalityType
  <2>3. Winners \cap Logins \subseteq Paid
    BY DEF PaidInv, FullInv, GrantInv, CodeInv, Paid
  <2>4. CASE Winners \cap Forms = {}
    <3>1. Winners \subseteq Paid
      BY <2>1, <2>3, <2>4
    <3> QED
      BY <2>1, <2>2, <3>1, FS_Subset DEF SessionsNeedCodes
  <2>5. CASE Winners \cap Forms # {}
    <3>1. PICK f \in Forms : Granted(f)
      BY <2>5
    <3>2. PICK t \in Logins : Ticketed(t)
      BY <3>1 DEF PaidInv, TicketInv
    <3>3. t \in Paid /\ t \notin Winners
      BY <3>2 DEF Paid, Ticketed, Granted, Bare, Bearing
    <3>4. Winners \subseteq (Paid \ {t}) \cup {f}
      BY <2>1, <2>3, <3>1, <3>3 DEF PaidInv, FormInv
    <3>5. IsFiniteSet(Paid \ {t}) /\ Cardinality(Paid \ {t}) = Cardinality(Paid) - 1
      BY <2>2, <3>3, FS_RemoveElement
    <3>6. /\ IsFiniteSet((Paid \ {t}) \cup {f})
          /\ Cardinality((Paid \ {t}) \cup {f}) <= Cardinality(Paid)
      <4> DEFINE Others == Paid \ {t}
      <4>1. IsFiniteSet(Others) /\ Cardinality(Others) = Cardinality(Paid) - 1
        BY <3>5
      <4> HIDE DEF Others
      <4>2. /\ IsFiniteSet(Others \cup {f})
            /\ \/ Cardinality(Others \cup {f}) = Cardinality(Others)
               \/ Cardinality(Others \cup {f}) = Cardinality(Others) + 1
        BY <4>1, FS_AddElement
      <4>3. Cardinality(Others \cup {f}) <= Cardinality(Paid)
        BY <2>2, <4>1, <4>2
      <4> QED
        BY <4>2, <4>3 DEF Others
    <3>7. /\ Cardinality(Winners) <= Cardinality((Paid \ {t}) \cup {f})
          /\ Cardinality(Winners) \in Nat
          /\ Cardinality((Paid \ {t}) \cup {f}) \in Nat
      BY <2>2, <3>4, <3>6, FS_Subset, FS_CardinalityType
    <3> QED
      BY <2>1, <2>2, <3>6, <3>7 DEF SessionsNeedCodes
  <2> QED
    BY <2>4, <2>5
<1> QED
  BY <1>1, <1>2, <1>3, PTL DEF Spec
=============================================================================
