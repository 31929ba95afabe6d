-------------------------- MODULE OtpServiceProofs --------------------------
(***************************************************************************)
(* Proofs about OtpService, for any times to live, any provider timeout    *)
(* and any number of requests and faults.  The lock excludes until a       *)
(* request inside has outlived it, and again when the overlap that this    *)
(* may let in is over; in between codes are accepted once, guesses are     *)
(* limited and a block holds.  If a provider call ends before the cooldown *)
(* does, which all providers meet, there is one call at a time, and a      *)
(* cooldown between the requests of two messages, lapsed lock or not.      *)
(***************************************************************************)
EXTENDS OtpService, TLAPS

\* Why the lock excludes: it lives on for as long as its owner has not used up
\* its time to live.
OwnerHoldsLock ==
    \A p \in Requests : Critical(p) => lock + wait[p] = LockTtl /\ lock > 0

\* What the lock's argument needs of the types.
LockTypes ==
    /\ lock \in Int /\ lapsed \in BOOLEAN
    /\ pc \in [Requests -> Steps]
    /\ wait \in [Requests -> 0..ProviderTimeout]

\* Unless it has lapsed, a request in its critical section still has the lock,
\* which lives for LockTtl ticks since that request took it: it cannot be free
\* for another.
LockInv == LockTypes /\ (~lapsed => OwnerHoldsLock /\ LockExclusion)

\* The steps between two commands keep the lock, its age and who is in.
LEMMA InnerStep ==
    ASSUME LockInv, NEW p \in Requests, pc[p] # "idle",
           UNCHANGED <<lock, wait, lapsed>>, NEW step \in Steps,
           pc' = [pc EXCEPT ![p] = step]
    PROVE  LockInv'
<1> USE DEF LockInv, LockTypes, OwnerHoldsLock, LockExclusion, Critical
<1>1. LockTypes'
  OBVIOUS
<1>2. \A q \in Requests : Critical(q)' => Critical(q)
  OBVIOUS
<1> QED
  BY <1>1, <1>2

\* Leaving keeps the exclusion, and where there is none it comes back with the
\* last request inside.
LEMMA LeaveStep ==
    ASSUME LockInv, NEW p \in Requests, pc[p] # "idle", Leave(p), wait' = wait,
           lock' = lock \/ lock' = 0
    PROVE  LockInv'
<1> USE DEF LockInv, LockTypes, OwnerHoldsLock, LockExclusion, Critical
<1>1. pc' = [pc EXCEPT ![p] = "idle"] /\ lock' \in Int
  BY DEF Leave, Goto
<1>2. \/ lapsed' = lapsed
      \/ lapsed' = FALSE /\ \A q \in Requests \ {p} : ~Critical(q)
  BY DEF Leave
<1>3. LockTypes'
  BY <1>1, <1>2 DEF Steps
<1>4. ASSUME ~lapsed' PROVE \A q \in Requests : ~Critical(q)'
  <2>1. \A q \in Requests \ {p} : ~Critical(q)
    BY <1>2, <1>4
  <2> QED
    BY <1>1, <2>1
<1> QED
  BY <1>3, <1>4

LEMMA LockStep == LockInv /\ [Next]_vars => LockInv'
<1> SUFFICES ASSUME LockInv, [Next]_vars PROVE LockInv'
  OBVIOUS
<1>0. LockTtl \in Nat \ {0} /\ ProviderTimeout \in Nat
  BY TtlAssumption, BoundAssumption
<1>1. CASE Tick
  <2> USE DEF LockInv, LockTypes, OwnerHoldsLock, LockExclusion, Critical
  <2>1. /\ lock' = Down(lock) /\ pc' = pc
        /\ wait' = [p \in Requests |-> IF Critical(p) THEN wait[p] + 1 ELSE wait[p]]
        /\ \A p \in Requests : Critical(p) => wait[p] < ProviderTimeout
        /\ lapsed' = (lapsed \/ \E p \in Requests : Critical(p) /\ wait[p] + 1 >= LockTtl)
    BY <1>1 DEF Tick
  <2>2. LockTypes'
    BY <1>0, <2>1 DEF Down
  <2>3. ASSUME ~lapsed' PROVE (OwnerHoldsLock /\ LockExclusion)'
    <3>0. ~lapsed /\ \A p \in Requests : Critical(p) => ~(wait[p] + 1 >= LockTtl)
      BY <2>1, <2>3, Zenon
    <3>1. ~lapsed /\ \A p \in Requests : Critical(p) => wait[p] + 1 < LockTtl
      BY <1>0, <3>0
    <3>2. \A p \in Requests : Critical(p) => lock' = lock - 1 /\ wait'[p] = wait[p] + 1
      BY <2>1, <3>1 DEF Down
    <3> QED
      BY <1>0, <2>1, <3>1, <3>2
  <2> QED
    BY <2>2, <2>3
<1>2. ASSUME NEW p \in Requests, Start(p) PROVE LockInv'
  <2> USE DEF LockInv, LockTypes, OwnerHoldsLock, LockExclusion, Critical
  <2>1. PICK body \in {"sendBlockCheck", "verifyBlockCheck"} : Acquire(p, body)
    BY <1>2 DEF Start
  <2>2. /\ lock = 0 /\ lock' = LockTtl
        /\ pc' = [pc EXCEPT ![p] = body]
        /\ wait' = [wait EXCEPT ![p] = 0] /\ lapsed' = lapsed
    BY <2>1 DEF Acquire, Step, Goto, history
  <2>3. ~lapsed => \A q \in Requests : ~Critical(q)
    BY <2>2
  <2>4. LockTypes'
    BY <1>0, <2>2 DEF Steps
  <2> QED
    BY <1>0, <2>2, <2>3, <2>4
<1>3. ASSUME NEW p \in Requests, SendOtp(p) \/ VerifyOtp(p) \/ CommandFails(p)
      PROVE  LockInv'
  <2>1. /\ pc[p] # "idle" /\ UNCHANGED <<lock, wait, lapsed>>
        /\ \E step \in Steps : pc' = [pc EXCEPT ![p] = step]
    <3>1. CASE SendOtp(p)
      BY <3>1 DEF SendOtp, SendBlockCheck, Claim, Delivered, NotDelivered, AnswerLost,
                  Unclaim, Store, Refresh, Step, Goto, Steps, keyVars, history
    <3>2. CASE VerifyOtp(p)
      BY <3>2 DEF VerifyOtp, VerifyBlockCheck, Compare, Count, Expire, DropCode,
                  DropCount, Block, Consume, Clear, Step, Goto, Steps, keyVars, history
    <3>3. CASE CommandFails(p)
      BY <3>3 DEF CommandFails, Goto, Steps, keyVars, history
    <3> QED
      BY <1>3, <3>1, <3>2, <3>3
  <2> QED
    BY <2>1, InnerStep
<1>4. ASSUME NEW p \in Requests, Release(p) \/ Crash(p) PROVE LockInv'
  <2>1. pc[p] # "idle" /\ Leave(p) /\ wait' = wait /\ (lock' = lock \/ lock' = 0)
    BY <1>4 DEF Release, Crash, Critical, keyVars
  <2> QED
    BY <2>1, LeaveStep
<1>5. CASE UNCHANGED vars
  BY <1>5 DEF vars, keyVars, reqVars, history,
     LockInv, LockTypes, OwnerHoldsLock, LockExclusion, Critical
<1> QED
  BY <1>1, <1>2, <1>3, <1>4, <1>5 DEF Next, Continue, Fails

\* "Only one request per phone can be inside the check-then-act sequence" for
\* as long as, and as soon as, no request inside has outlived the lock.
THEOREM LockExcludes == Spec => []ExclusiveUnlessLapsed
<1>1. Init => LockInv
  <2> SUFFICES ASSUME Init PROVE LockInv
    OBVIOUS
  <2>1. LockTypes
    <3>1. lapsed \in BOOLEAN
      BY DEF Init
    <3> QED
      BY <3>1, BoundAssumption DEF Init, LockTypes, Steps
  <2>2. \A p \in Requests : ~Critical(p)
    BY DEF Init, Critical
  <2> QED
    BY <2>1, <2>2 DEF LockInv, OwnerHoldsLock, LockExclusion
<1>2. LockInv => ExclusiveUnlessLapsed
  BY DEF LockInv, ExclusiveUnlessLapsed
<1> QED
  BY <1>1, <1>2, LockStep, PTL DEF Spec

-----------------------------------------------------------------------------
\* What is recorded of a message, and what a request that leaves restarts.
LEMMA SentType ==
    ASSUME TypeOK, NEW p \in Requests, NEW wrongly \in BOOLEAN, Sent(p, wrongly)
    PROVE  sinceSms' \in 0..Cooldown /\ misreported' \in BOOLEAN
<1>1. misreported' \in BOOLEAN
  BY DEF Sent
<1>2. sinceSms' \in 0..Cooldown
  BY TtlAssumption, BoundAssumption DEF Sent, TypeOK
<1> QED
  BY <1>1, <1>2

LEMMA LeaveType ==
    ASSUME TypeOK, NEW p \in Requests, Leave(p)
    PROVE  /\ pc' \in [Requests -> Steps] /\ lapsed' \in BOOLEAN
           /\ tries' \in Nat /\ guesses' \in Nat /\ uses' \in Nat
<1>1. pc' \in [Requests -> Steps]
  BY DEF Leave, Goto, TypeOK, Steps
<1>2. CASE UNCHANGED <<lapsed, counts>>
  BY <1>1, <1>2 DEF TypeOK, counts
<1>3. CASE lapsed' = FALSE /\ tries' = 0 /\ guesses' = 0 /\ uses' = 0
  BY <1>1, <1>3
<1> QED
  BY <1>2, <1>3 DEF Leave

\* Every step keeps the types: one lemma per kind of step.
LEMMA SendType ==
    ASSUME TypeOK, NEW p \in Requests, SendOtp(p) PROVE TypeOK'
<1> USE TtlAssumption, BoundAssumption DEF TypeOK, Step, Goto, Steps, keyVars, history, sms, counts
<1>1. CASE SendBlockCheck(p)
  BY <1>1 DEF SendBlockCheck
<1>2. CASE Claim(p)
  BY <1>2 DEF Claim
<1>3. CASE Delivered(p)
  BY <1>3, SentType DEF Delivered
<1>4. CASE NotDelivered(p)
  BY <1>4 DEF NotDelivered
<1>5. CASE AnswerLost(p)
  BY <1>5, SentType DEF AnswerLost
<1>6. CASE Unclaim(p)
  BY <1>6 DEF Unclaim
<1>7. CASE Store(p)
  BY <1>7 DEF Store
<1>8. CASE Refresh(p)
  BY <1>8 DEF Refresh, RefreshedTtl
<1> QED
  BY <1>1, <1>2, <1>3, <1>4, <1>5, <1>6, <1>7, <1>8 DEF SendOtp

LEMMA VerifyType ==
    ASSUME TypeOK, NEW p \in Requests, VerifyOtp(p) PROVE TypeOK'
<1> USE TtlAssumption, BoundAssumption DEF TypeOK, Step, Goto, Steps, keyVars, history, sms, counts
<1>1. CASE VerifyBlockCheck(p)
  BY <1>1 DEF VerifyBlockCheck
<1>2. CASE Compare(p)
  BY <1>2 DEF Compare
<1>3. CASE Count(p)
  BY <1>3 DEF Count, NoExpiry
<1>4. CASE Expire(p)
  BY <1>4 DEF Expire, RefreshedTtl
<1>5. CASE DropCode(p)
  BY <1>5 DEF DropCode
<1>6. CASE DropCount(p)
  BY <1>6 DEF DropCount, ClearCounter
<1>7. CASE Block(p)
  BY <1>7 DEF Block
<1>8. CASE Consume(p)
  BY <1>8 DEF Consume
<1>9. CASE Clear(p)
  BY <1>9 DEF Clear, ClearCounter
<1> QED
  BY <1>1, <1>2, <1>3, <1>4, <1>5, <1>6, <1>7, <1>8, <1>9 DEF VerifyOtp

LEMMA TypeStep == TypeOK /\ [Next]_vars => TypeOK'
<1> SUFFICES ASSUME TypeOK, [Next]_vars PROVE TypeOK'
  OBVIOUS
<1> USE TtlAssumption, BoundAssumption DEF TypeOK, keyVars, history, sms, counts
<1>1. CASE Tick
  <2>1. /\ lock' \in 0..LockTtl /\ resend' \in 0..Cooldown
        /\ otp' \in 0..OtpTtl /\ block' \in 0..BlockTtl
    BY <1>1 DEF Tick, Down
  <2>2. counterTtl' \in {NoExpiry} \cup 0..AttemptTtl
    BY <1>1 DEF Tick, Down, NoExpiry
  <2>3. wait' \in [Requests -> 0..ProviderTimeout]
    BY <1>1 DEF Tick, Critical
  <2>4. sinceSms' \in 0..Cooldown
    BY <1>1 DEF Tick
  <2> QED
    BY <1>1, <2>1, <2>2, <2>3, <2>4 DEF Tick
<1>2. ASSUME NEW p \in Requests, Start(p) PROVE TypeOK'
  <2>1. PICK body \in {"sendBlockCheck", "verifyBlockCheck"} : Acquire(p, body)
    BY <1>2 DEF Start
  <2> QED
    BY <2>1 DEF Acquire, Step, Goto, Steps
<1>3. ASSUME NEW p \in Requests, Release(p) PROVE TypeOK'
  BY <1>3, LeaveType DEF Release
<1>4. ASSUME NEW p \in Requests, Fails(p) PROVE TypeOK'
  <2>1. CASE CommandFails(p)
    BY <2>1 DEF CommandFails, Fault, Goto, Steps
  <2>2. CASE Crash(p)
    <3>1. sinceSms' \in 0..Cooldown /\ misreported' \in BOOLEAN
      BY <2>2, SentType DEF Crash
    <3> QED
      BY <2>2, <3>1, LeaveType DEF Crash, Fault
  <2> QED
    BY <1>4, <2>1, <2>2 DEF Fails
<1>5. CASE UNCHANGED vars
  BY <1>5 DEF vars, reqVars
<1> QED
  BY <1>1, <1>2, <1>3, <1>4, <1>5, SendType, VerifyType DEF Next, Continue

\* Type correctness of every reachable state.
THEOREM TypeCorrect == Spec => []TypeOK
<1>1. Init => TypeOK
  <2> SUFFICES ASSUME Init PROVE TypeOK
    OBVIOUS
  <2>1. misreported \in BOOLEAN /\ lapsed \in BOOLEAN
    BY DEF Init
  <2> QED
    BY <2>1, TtlAssumption, BoundAssumption DEF Init, TypeOK, Steps
<1> QED
  BY <1>1, TypeStep, PTL DEF Spec

-----------------------------------------------------------------------------
\* The cooldown slot excludes where the lock does not: who has claimed it holds
\* it for the whole provider call, since that is shorter than the cooldown, and
\* nobody claims it before the last message is one cooldown old, but for one
\* that the provider reported as failed.
Claimed(p) == pc[p] \in {"provider", "unclaim"}

OneClaim == \A p, q \in Requests : Claimed(p) /\ Claimed(q) => p = q

SlotInv ==
    /\ \A p \in Requests : pc[p] \in {"sendBlockCheck", "claim"} => wait[p] = 0
    /\ \A p \in Requests : Claimed(p) =>
          /\ resend = Cooldown - wait[p]
          /\ sinceSms = Cooldown \/ misreported
    /\ OneClaim
    /\ sinceSms + resend >= Cooldown \/ misreported

\* Steps that leave the slot alone and do not lead to it.
LEMMA OtherStep ==
    ASSUME TypeOK, SlotInv, NEW p \in Requests, NEW step \in Steps,
           UNCHANGED <<resend, sms, wait>>,
           pc' = [pc EXCEPT ![p] = step],
           \/ step \notin {"sendBlockCheck", "claim", "provider", "unclaim"}
           \/ step = "claim" /\ pc[p] = "sendBlockCheck"
           \/ step = "unclaim" /\ pc[p] = "provider"
    PROVE  SlotInv'
  BY DEF TypeOK, SlotInv, OneClaim, Claimed, sms

\* Sending records how long ago the message was asked for.
LEMMA SentStep ==
    ASSUME ProviderTimeout < Cooldown, TypeOK, SlotInv,
           NEW p \in Requests, pc[p] = "provider", NEW wrongly, Sent(p, wrongly)
    PROVE  /\ sinceSms' = wait[p] /\ sinceSms' + resend = Cooldown
           /\ \A q \in Requests : q # p => ~Claimed(q)
<1>1. wait[p] \in 0..ProviderTimeout /\ Cooldown \in Nat /\ ProviderTimeout \in Nat
  BY TtlAssumption, BoundAssumption DEF TypeOK
<1>2. sinceSms' = wait[p]
  BY <1>1, ProviderTimeout < Cooldown DEF Sent
<1>3. resend = Cooldown - wait[p] /\ \A q \in Requests : q # p => ~Claimed(q)
  BY DEF SlotInv, OneClaim, Claimed
<1> QED
  BY <1>1, <1>2, <1>3

LEMMA SlotStep ==
    ASSUME ProviderTimeout < Cooldown
    PROVE  TypeOK /\ SlotInv /\ [Next]_vars => SlotInv'
<1> SUFFICES ASSUME TypeOK, SlotInv, [Next]_vars PROVE SlotInv'
  OBVIOUS
<1>0. Cooldown \in Nat \ {0} /\ ProviderTimeout \in Nat
  BY TtlAssumption, BoundAssumption
<1>1. \A p \in Requests : Claimed(p) => resend > 0
  BY <1>0, ProviderTimeout < Cooldown DEF TypeOK, SlotInv
<1>2. CASE Tick
  <2>1. \A p \in Requests : \/ pc[p] = "idle"
                            \/ pc[p] = "provider" /\ wait'[p] = wait[p] + 1
    BY <1>2 DEF Tick, TypeOK, Critical
  <2>2. resend' = Down(resend) /\ pc' = pc /\ sinceSms' >= sinceSms
        /\ sinceSms' = IF sinceSms < Cooldown THEN sinceSms + 1 ELSE sinceSms
    BY <1>0, <1>2 DEF Tick, TypeOK
  <2>3. \A p \in Requests : Claimed(p) => resend' = resend - 1
    BY <1>0, <1>1, <2>2 DEF Down
  <2>4. sinceSms' + resend' >= Cooldown \/ misreported'
    <3>1. CASE misreported
      BY <1>2, <3>1 DEF Tick
    <3>2. CASE sinceSms + resend >= Cooldown
      BY <1>0, <2>2, <3>2 DEF TypeOK, Down
    <3> QED
      BY <3>1, <3>2 DEF SlotInv
  <2>5. \A p \in Requests : Claimed(p) => resend' = Cooldown - wait'[p]
    BY <1>0, <2>1, <2>2, <2>3 DEF TypeOK, SlotInv, Claimed
  <2>6. \A p \in Requests : Claimed(p) => sinceSms' = Cooldown \/ misreported'
    <3>1. misreported' = misreported
      BY <1>2 DEF Tick
    <3>2. sinceSms = Cooldown => sinceSms' = Cooldown
      BY <1>0, <2>2
    <3> QED
      BY <3>1, <3>2 DEF SlotInv
  <2> QED
    BY <2>1, <2>2, <2>4, <2>5, <2>6 DEF SlotInv, OneClaim, Claimed
<1>3. ASSUME NEW p \in Requests, Start(p) PROVE SlotInv'
  <2>1. PICK body \in {"sendBlockCheck", "verifyBlockCheck"} : Acquire(p, body)
    BY <1>3 DEF Start
  <2> QED
    BY <2>1 DEF Acquire, Step, Goto, history, sms, TypeOK, SlotInv, OneClaim, Claimed
<1>4. ASSUME NEW p \in Requests, Claim(p) PROVE SlotInv'
  <2>1. CASE resend = 0
    <3>1. \A q \in Requests : ~Claimed(q)
      BY <1>1, <2>1
    <3>2. /\ pc[p] = "claim" /\ pc' = [pc EXCEPT ![p] = "provider"]
          /\ resend' = Cooldown /\ UNCHANGED <<wait, sms>>
      BY <1>4, <2>1 DEF Claim, Step, Goto, history
    <3>3. wait[p] = 0 /\ (sinceSms = Cooldown \/ misreported)
      BY <1>0, <2>1, <3>2 DEF TypeOK, SlotInv
    <3> QED
      BY <1>0, <3>1, <3>2, <3>3 DEF TypeOK, SlotInv, OneClaim, Claimed, sms
  <2>2. CASE resend # 0
    BY <1>4, <2>2, OtherStep DEF Claim, Step, Goto, Steps, history
  <2> QED
    BY <2>1, <2>2
<1>5. ASSUME NEW p \in Requests, Delivered(p) PROVE SlotInv'
  <2>1. /\ pc[p] = "provider" /\ pc' = [pc EXCEPT ![p] = "store"]
        /\ UNCHANGED <<resend, wait>> /\ Sent(p, FALSE)
    BY <1>5 DEF Delivered, Step, Goto, keyVars
  <2>2. sinceSms' + resend' = Cooldown /\ \A q \in Requests : q # p => ~Claimed(q)
    BY <2>1, SentStep, ProviderTimeout < Cooldown
  <2>3. \A q \in Requests : ~Claimed(q)'
    BY <2>1, <2>2 DEF TypeOK, Claimed
  <2> QED
    BY <1>0, <2>1, <2>2, <2>3 DEF TypeOK, SlotInv, OneClaim
<1>6. ASSUME NEW p \in Requests, AnswerLost(p) PROVE SlotInv'
  <2>1. /\ pc[p] = "provider" /\ pc' = [pc EXCEPT ![p] = "unclaim"]
        /\ UNCHANGED <<resend, wait>> /\ Sent(p, TRUE)
    BY <1>6 DEF AnswerLost, Step, Goto, keyVars
  <2>2. misreported' /\ \A q \in Requests : q # p => ~Claimed(q)
    BY <2>1, SentStep, ProviderTimeout < Cooldown DEF Sent
  <2> QED
    BY <2>1, <2>2 DEF TypeOK, SlotInv, OneClaim, Claimed
<1>7. ASSUME NEW p \in Requests, Unclaim(p) PROVE SlotInv'
  <2>1. /\ pc[p] = "unclaim" /\ pc' = [pc EXCEPT ![p] = "release"]
        /\ resend' = 0 /\ UNCHANGED <<sms, wait>>
    BY <1>7 DEF Unclaim, Step, Goto, history
  <2>2. \A q \in Requests : ~Claimed(q)'
    BY <2>1 DEF TypeOK, SlotInv, OneClaim, Claimed
  <2>3. sinceSms = Cooldown \/ misreported
    BY <2>1 DEF SlotInv, Claimed
  <2> QED
    BY <1>0, <2>1, <2>2, <2>3 DEF TypeOK, SlotInv, OneClaim, sms
<1>8. ASSUME NEW p \in Requests, Crash(p) PROVE SlotInv'
  <2>1. /\ pc' = [pc EXCEPT ![p] = "idle"] /\ UNCHANGED <<resend, wait>>
        /\ UNCHANGED sms \/ (pc[p] = "provider" /\ Sent(p, FALSE))
    BY <1>8 DEF Crash, Leave, Goto, keyVars
  <2>2. CASE UNCHANGED sms
    BY <2>1, <2>2, OtherStep DEF Steps
  <2>3. CASE pc[p] = "provider" /\ Sent(p, FALSE)
    <3>1. sinceSms' + resend' = Cooldown /\ \A q \in Requests : q # p => ~Claimed(q)
      BY <2>1, <2>3, SentStep, ProviderTimeout < Cooldown
    <3>2. \A q \in Requests : ~Claimed(q)'
      BY <2>1, <3>1 DEF TypeOK, Claimed
    <3> QED
      BY <1>0, <2>1, <3>1, <3>2 DEF TypeOK, SlotInv, OneClaim
  <2> QED
    BY <2>1, <2>2, <2>3
<1>9. ASSUME NEW p \in Requests,
             \/ SendBlockCheck(p) \/ NotDelivered(p) \/ Store(p) \/ Refresh(p)
             \/ VerifyOtp(p) \/ Release(p) \/ CommandFails(p)
      PROVE  SlotInv'
  <2>1. CASE SendBlockCheck(p) \/ NotDelivered(p) \/ Store(p) \/ Refresh(p)
    BY <2>1, OtherStep DEF SendBlockCheck, NotDelivered, Store, Refresh,
       Step, Goto, Steps, keyVars, history
  <2>2. CASE VerifyOtp(p)
    <3>1. UNCHANGED <<resend, sms, wait>>
      BY <2>2 DEF VerifyOtp, VerifyBlockCheck, Compare, Count, Expire, DropCode,
         DropCount, Block, Consume, Clear, keyVars, history
    <3>2. \E step \in Steps \ {"sendBlockCheck", "claim", "provider", "unclaim"} :
             pc' = [pc EXCEPT ![p] = step]
      BY <2>2 DEF VerifyOtp, VerifyBlockCheck, Compare, Count, Expire, DropCode,
         DropCount, Block, Consume, Clear, Step, Goto, Steps
    <3> QED
      BY <3>1, <3>2, OtherStep
  <2>3. CASE Release(p) \/ CommandFails(p)
    BY <2>3, OtherStep DEF Release, Leave, CommandFails, Goto, Steps, keyVars, history
  <2> QED
    BY <1>9, <2>1, <2>2, <2>3
<1>10. CASE UNCHANGED vars
  BY <1>10 DEF vars, keyVars, reqVars, history, sms, SlotInv, OneClaim, Claimed
<1> QED
  BY <1>2, <1>3, <1>4, <1>5, <1>6, <1>7, <1>8, <1>9, <1>10
     DEF Next, Continue, Fails, SendOtp

LEMMA SlotHolds ==
    ASSUME ProviderTimeout < Cooldown
    PROVE  Spec => [](TypeOK /\ SlotInv)
<1>1. Init => SlotInv
  BY TtlAssumption DEF Init, SlotInv, OneClaim, Claimed
<1>2. TypeOK /\ SlotInv /\ [Next]_vars => SlotInv'
  BY SlotStep
<1> QED
  BY <1>1, <1>2, TypeCorrect, PTL DEF Spec

\* A phone has one provider call at a time, also when the lock has run out.
THEOREM OneCall ==
    ASSUME ProviderTimeout < Cooldown
    PROVE  Spec => []OneProviderCall
<1>1. SlotInv => OneProviderCall
  BY DEF SlotInv, OneClaim, Claimed, OneProviderCall
<1> QED
  BY <1>1, SlotHolds, PTL

\* And a cooldown between the requests of two messages, unless the provider
\* reported the first as failed.
THEOREM Spaced ==
    ASSUME ProviderTimeout < Cooldown
    PROVE  Spec => CooldownSpacing
<1>1. TypeOK /\ SlotInv /\ [Next]_vars =>
         [\A p \in Requests : Claim(p) /\ resend' # resend
             => sinceSms = Cooldown \/ misreported]_vars
  <2> SUFFICES ASSUME TypeOK, SlotInv, NEW p \in Requests, Claim(p), resend' # resend
               PROVE  sinceSms = Cooldown \/ misreported
    OBVIOUS
  <2>1. resend = 0
    BY DEF Claim
  <2> QED
    BY <2>1, TtlAssumption DEF TypeOK, SlotInv
<1> QED
  BY <1>1, SlotHolds, PTL DEF Spec, CooldownSpacing

-----------------------------------------------------------------------------
\* Where the counts begin, and begin again: nobody is inside.
Restarted ==
    /\ \A p \in Requests : pc[p] = "idle"
    /\ tries = 0 /\ guesses = 0 /\ uses = 0

LEMMA Starts == Init => Restarted
  BY DEF Init, Restarted

\* An overlap ends with the last request that leaves.
LEMMA LapseEnds == TypeOK /\ lapsed /\ [Next]_vars => lapsed' \/ Restarted'
<1> SUFFICES ASSUME TypeOK, lapsed, [Next]_vars, ~lapsed' PROVE Restarted'
  OBVIOUS
<1>1. ASSUME lapsed' = lapsed PROVE FALSE
  BY <1>1
<1>2. ~Tick
  BY DEF Tick
<1>3. ASSUME NEW p \in Requests, Start(p) PROVE lapsed' = lapsed
  BY <1>3 DEF Start, Acquire, history
<1>4. ASSUME NEW p \in Requests, SendOtp(p) PROVE lapsed' = lapsed
  BY <1>4 DEF SendOtp, SendBlockCheck, Claim, Delivered, NotDelivered, AnswerLost,
     Unclaim, Store, Refresh, history
<1>5. ASSUME NEW p \in Requests, VerifyOtp(p) PROVE lapsed' = lapsed
  BY <1>5 DEF VerifyOtp, VerifyBlockCheck, Compare, Count, Expire, DropCode,
     DropCount, Block, Consume, Clear, history
<1>6. ASSUME NEW p \in Requests, CommandFails(p) PROVE lapsed' = lapsed
  BY <1>6 DEF CommandFails, history
<1>7. ASSUME UNCHANGED vars PROVE lapsed' = lapsed
  BY <1>7 DEF vars, history
<1>8. PICK p \in Requests : Release(p) \/ Crash(p)
  <2>1. PICK p \in Requests : Start(p) \/ Continue(p) \/ Fails(p)
    BY <1>1, <1>2, <1>7 DEF Next
  <2>2. Release(p) \/ Crash(p)
    BY <1>1, <1>3, <1>4, <1>5, <1>6, <2>1 DEF Continue, Fails
  <2> QED
    BY <2>2
<1>9. Leave(p)
  BY <1>8 DEF Release, Crash
<1>10. /\ tries' = 0 /\ guesses' = 0 /\ uses' = 0
       /\ \A q \in Requests \ {p} : ~Critical(q)
  BY <1>1, <1>9 DEF Leave
<1>11. \A q \in Requests : pc'[q] = "idle"
  BY <1>9, <1>10 DEF Leave, Goto, Critical, TypeOK
<1> QED
  BY <1>10, <1>11 DEF Restarted

\* While the lock excludes, a request that passed the block check finds the
\* phone still unblocked, and one whose code matched finds it still unused.
UseInv ==
    /\ otp > 0 => uses = 0
    /\ uses <= 1
    /\ \A p \in Requests :
          /\ pc[p] \in {"compare", "consume", "clear"} => block = 0
          /\ pc[p] = "consume" => uses = 0
          /\ pc[p] = "clear" => uses = 0 /\ otp = 0

LEMMA UseStarts == Restarted => UseInv
  BY DEF Restarted, UseInv

\* What a request that is alone in the section may do to the code.
LEMMA UseStep ==
    TypeOK /\ ~lapsed /\ LockExclusion /\ UseInv /\ [Next]_vars => UseInv'
<1> SUFFICES ASSUME TypeOK, ~lapsed, LockExclusion, UseInv, [Next]_vars PROVE UseInv'
  OBVIOUS
<1> USE DEF TypeOK, UseInv
<1>0. {OtpTtl, BlockTtl} \subseteq Nat \ {0}
  BY TtlAssumption
<1>1. CASE Tick
  <2>1. /\ pc' = pc /\ uses' = uses /\ (otp' > 0 => otp > 0)
        /\ \A p \in Requests : pc[p] \in {"idle", "provider"}
    BY <1>1 DEF Tick, Down
  <2> QED
    BY <2>1
<1>2. ASSUME NEW p \in Requests, Start(p) PROVE UseInv'
  <2>1. PICK body \in {"sendBlockCheck", "verifyBlockCheck"} : Acquire(p, body)
    BY <1>2 DEF Start
  <2> QED
    BY <2>1 DEF Acquire, Step, Goto, history, counts
<1>3. ASSUME NEW p \in Requests, pc[p] # "idle" PROVE \A q \in Requests \ {p} : pc[q] = "idle"
  BY <1>3 DEF LockExclusion, Critical
<1>4. ASSUME NEW p \in Requests, SendOtp(p) PROVE UseInv'
  <2>1. pc[p] # "idle"
    BY <1>4 DEF SendOtp, SendBlockCheck, Claim, Delivered, NotDelivered, AnswerLost,
       Unclaim, Store, Refresh, Step
  <2>2. /\ \A q \in Requests \ {p} : pc'[q] = "idle"
        /\ pc'[p] \notin {"compare", "consume", "clear"}
    BY <1>3, <1>4, <2>1 DEF SendOtp, SendBlockCheck, Claim, Delivered, NotDelivered,
       AnswerLost, Unclaim, Store, Refresh, Step, Goto
  <2>3. uses' = 0 \/ UNCHANGED <<otp, uses>>
    BY <1>4 DEF SendOtp, SendBlockCheck, Claim, Delivered, NotDelivered, AnswerLost,
       Unclaim, Store, Refresh, keyVars, history, sms, counts
  <2> QED
    BY <2>2, <2>3
<1>5. ASSUME NEW p \in Requests, VerifyOtp(p) PROVE UseInv'
  <2> USE DEF Step, Goto
  <2>1. \A q \in Requests \ {p} : pc'[q] = "idle"
    BY <1>3, <1>5 DEF VerifyOtp, VerifyBlockCheck, Compare, Count, Expire, DropCode,
       DropCount, Block, Consume, Clear
  <2>2. CASE VerifyBlockCheck(p)
    BY <2>1, <2>2 DEF VerifyBlockCheck, keyVars, history, sms, counts
  <2>3. CASE Compare(p)
    BY <2>1, <2>3 DEF Compare, keyVars
  <2>4. CASE Count(p) \/ Expire(p) \/ DropCode(p) \/ DropCount(p) \/ Block(p)
    <3>1. /\ uses' = uses /\ (otp' > 0 => otp > 0)
          /\ pc'[p] \notin {"compare", "consume", "clear"}
      BY <2>4 DEF Count, Expire, DropCode, DropCount, Block, keyVars, history, sms, counts
    <3> QED
      BY <2>1, <3>1
  <2>5. CASE Consume(p)
    BY <2>1, <2>5 DEF Consume, history, counts
  <2>6. CASE Clear(p)
    BY <2>1, <2>6 DEF Clear
  <2> QED
    BY <1>5, <2>2, <2>3, <2>4, <2>5, <2>6 DEF VerifyOtp
<1>6. ASSUME NEW p \in Requests, Release(p) \/ Fails(p) PROVE UseInv'
  <2>1. /\ UNCHANGED <<otp, block, uses>>
        /\ \E step \in {"idle", "release"} : pc' = [pc EXCEPT ![p] = step]
    BY <1>6 DEF Release, Leave, Fails, CommandFails, Crash, Goto, keyVars, history, counts
  <2> QED
    BY <2>1
<1>7. CASE UNCHANGED vars
  BY <1>7 DEF vars, keyVars, reqVars, history, counts
<1> QED
  BY <1>1, <1>2, <1>4, <1>5, <1>6, <1>7 DEF Next, Continue

LEMMA UseHolds == Spec => [](TypeOK /\ (~lapsed => UseInv))
<1>1. ExclusiveUnlessLapsed /\ ~lapsed => LockExclusion
  BY DEF ExclusiveUnlessLapsed
<1> QED
  BY <1>1, Starts, LapseEnds, UseStarts, UseStep, TypeCorrect, LockExcludes,
     PTL DEF Spec

\* A code is accepted once, whatever fails between deleting it and the answer,
\* unless requests overlap in a lapsed lock.
THEOREM UsedOnce == Spec => []SingleUse
<1>1. (~lapsed => UseInv) => SingleUse
  BY DEF UseInv, SingleUse
<1> QED
  BY <1>1, UseHolds, PTL

\* No code is accepted while the phone is blocked and no request inside has
\* outlived the lock.
THEOREM BlockedRefuses == Spec => NoAcceptWhileBlocked
<1>1. TypeOK /\ (~lapsed => UseInv) /\ [Next]_vars
         => [block > 0 /\ ~lapsed => uses' <= uses]_vars
  <2> SUFFICES ASSUME TypeOK, UseInv, Next, block > 0, ~lapsed PROVE uses' <= uses
    BY DEF vars, history
  <2> USE DEF TypeOK, UseInv
  <2>1. CASE Tick
    BY <2>1 DEF Tick
  <2>2. ASSUME NEW p \in Requests, Start(p) \/ Fails(p) \/ Release(p) PROVE uses' <= uses
    <3>1. Leave(p) => UNCHANGED counts
      BY DEF Leave
    <3>2. UNCHANGED counts
      BY <2>2, <3>1 DEF Start, Acquire, Fails, CommandFails, Crash, Release, history
    <3> QED
      BY <3>2 DEF counts
  <2>3. ASSUME NEW p \in Requests, SendOtp(p) PROVE uses' <= uses
    <3>1. uses' = uses \/ uses' = 0
      BY <2>3 DEF SendOtp, SendBlockCheck, Claim, Delivered, NotDelivered, AnswerLost,
         Unclaim, Store, Refresh, history, counts
    <3> QED
      BY <3>1
  <2>4. ASSUME NEW p \in Requests, VerifyOtp(p) PROVE uses' <= uses
    BY <2>4 DEF VerifyOtp, VerifyBlockCheck, Compare, Count, Expire, DropCode,
       DropCount, Block, Consume, Clear, Step, history, counts
  <2> QED
    BY <2>1, <2>2, <2>3, <2>4 DEF Next, Continue
<1> QED
  BY <1>1, UseHolds, PTL DEF Spec, NoAcceptWhileBlocked
-----------------------------------------------------------------------------
\* How many requests are at one of some steps, when the lock excludes.
Under(steps) == IF \E p \in Requests : pc[p] \in steps THEN 1 ELSE 0

\* A guess under way that the counter does not show yet, and one that may
\* still be answered by dropping the code.
Uncounted == {"count", "consume"}
Unsettled == Uncounted \cup {"expire", "dropCode"}

\* The counter lives at least as long as the code.
Covered == attempts = 0 \/ counterTtl = NoExpiry \/ counterTtl >= otp

\* The counter shows all guesses at the code but those that a fault has lost,
\* and so does its absence once it may expire before the code; there is always
\* one guess left when none is under way.
PerCodeInv ==
    /\ tries <= AttemptLimit + faults
    /\ otp > 0 =>
        /\ tries < AttemptLimit + faults + Under(Unsettled)
        /\ tries <= attempts + faults + Under(Uncounted)
        /\ Covered \/ tries <= faults + Under(Unsettled)
    /\ \A p \in Requests :
          /\ pc[p] = "expire" => attempts > 0 /\ seen[p] = attempts
          /\ pc[p] \in {"clear", "dropCount"} => otp = 0

\* A request that is in its section is there alone.
LEMMA AloneStep ==
    ASSUME TypeOK, LockExclusion, NEW p \in Requests, pc[p] # "idle",
           NEW to \in Steps, pc' = [pc EXCEPT ![p] = to]
    PROVE  /\ \A q \in Requests \ {p} : pc[q] = "idle" /\ pc'[q] = "idle"
           /\ pc'[p] = to
           /\ \A steps : "idle" \notin steps =>
                 /\ Under(steps) = IF pc[p] \in steps THEN 1 ELSE 0
                 /\ Under(steps)' = IF to \in steps THEN 1 ELSE 0
<1>1. \A q \in Requests \ {p} : pc[q] = "idle" /\ pc'[q] = "idle"
  BY DEF LockExclusion, Critical, TypeOK
<1>2. pc'[p] = to
  BY DEF TypeOK
<1>3. ASSUME NEW steps, "idle" \notin steps
      PROVE  /\ Under(steps) = IF pc[p] \in steps THEN 1 ELSE 0
             /\ Under(steps)' = IF to \in steps THEN 1 ELSE 0
  BY <1>1, <1>2, <1>3 DEF Under
<1> QED
  BY <1>1, <1>2, <1>3

\* The steps of a request, by what they do to codes, counters and guesses.
LEMMA PerCodeStep ==
    ASSUME OtpTtl <= AttemptTtl
    PROVE  TypeOK /\ ~lapsed /\ LockExclusion /\ PerCodeInv /\ [Next]_vars => PerCodeInv'
<1> SUFFICES ASSUME TypeOK, ~lapsed, LockExclusion, PerCodeInv, [Next]_vars PROVE PerCodeInv'
  OBVIOUS
<1>0. /\ {OtpTtl, AttemptTtl, AttemptLimit} \subseteq Nat \ {0}
      /\ otp \in 0..OtpTtl /\ attempts \in Nat /\ faults \in Nat /\ tries \in Nat
      /\ counterTtl \in {NoExpiry} \cup 0..AttemptTtl /\ NoExpiry = -1
      /\ \A p \in Requests : seen[p] \in Nat
  BY TtlAssumption, BoundAssumption DEF TypeOK, NoExpiry
<1>1. \A steps : Under(steps) \in {0, 1} /\ Under(steps)' \in {0, 1}
  BY DEF Under
<1>2. CASE Tick
  <2>1. /\ \A p \in Requests : pc[p] \in {"idle", "provider"}
        /\ UNCHANGED <<pc, seen, tries, faults>>
        /\ otp' = Down(otp) /\ counterTtl' = Down(counterTtl)
        /\ attempts' = IF counterTtl = 1 THEN 0 ELSE attempts
    BY <1>2 DEF Tick
  <2>2. /\ Under(Unsettled) = 0 /\ Under(Uncounted) = 0
        /\ Under(Unsettled)' = 0 /\ Under(Uncounted)' = 0
    BY <2>1 DEF Under, Unsettled, Uncounted
  <2> QED
    BY <1>0, <2>1, <2>2 DEF PerCodeInv, Covered, Down
<1>3. ASSUME NEW p \in Requests, Start(p) PROVE PerCodeInv'
  <2>1. PICK body \in {"sendBlockCheck", "verifyBlockCheck"} : Acquire(p, body)
    BY <1>3 DEF Start
  <2>2. /\ pc[p] = "idle" /\ pc' = [pc EXCEPT ![p] = body]
        /\ seen' = [seen EXCEPT ![p] = 0]
        /\ UNCHANGED <<otp, attempts, counterTtl, tries, faults>>
    BY <2>1 DEF Acquire, Step, Goto, history, counts
  <2>3. \A q \in Requests \ {p} : pc'[q] = pc[q] /\ seen'[q] = seen[q]
    BY <2>2 DEF TypeOK
  <2>4. pc'[p] = body
    BY <2>2 DEF TypeOK
  <2>5. Under(Unsettled)' = Under(Unsettled) /\ Under(Uncounted)' = Under(Uncounted)
    BY <2>2, <2>3, <2>4 DEF Under, Unsettled, Uncounted
  <2> QED
    BY <2>2, <2>3, <2>4, <2>5 DEF PerCodeInv, Covered
<1>4. ASSUME NEW p \in Requests, pc[p] # "idle", NEW to \in Steps,
             pc' = [pc EXCEPT ![p] = to]
      PROVE  /\ \A q \in Requests \ {p} : pc[q] = "idle" /\ pc'[q] = "idle"
             /\ pc'[p] = to
             /\ Under(Unsettled) = IF pc[p] \in Unsettled THEN 1 ELSE 0
             /\ Under(Uncounted) = IF pc[p] \in Uncounted THEN 1 ELSE 0
             /\ Under(Unsettled)' = IF to \in Unsettled THEN 1 ELSE 0
             /\ Under(Uncounted)' = IF to \in Uncounted THEN 1 ELSE 0
  BY <1>4, AloneStep DEF Unsettled, Uncounted
<1>5. ASSUME NEW p \in Requests, SendOtp(p) PROVE PerCodeInv'
  <2>1. /\ pc[p] # "idle" /\ pc[p] \notin Unsettled \cup {"expire"}
        /\ faults' = faults /\ attempts' = attempts
        /\ \E to \in Steps \ Unsettled : pc' = [pc EXCEPT ![p] = to]
    BY <1>5 DEF SendOtp, SendBlockCheck, Claim, Delivered, NotDelivered, AnswerLost,
       Unclaim, Store, Refresh, Step, Goto, Steps, Unsettled, Uncounted, keyVars
  <2>2. /\ Under(Unsettled) = 0 /\ Under(Uncounted) = 0
        /\ Under(Unsettled)' = 0 /\ Under(Uncounted)' = 0
        /\ \A q \in Requests : pc'[q] # "expire"
    BY <1>4, <2>1 DEF Unsettled
  <2>3. \/ otp' = otp /\ tries' = tries /\ counterTtl' = counterTtl
        \/ tries' = 0
        \/ otp' = otp /\ tries' = tries /\ counterTtl' = RefreshedTtl
    BY <1>5 DEF SendOtp, SendBlockCheck, Claim, Delivered, NotDelivered, AnswerLost,
       Unclaim, Store, Refresh, keyVars, history, counts
  <2>4. \A q \in Requests : pc'[q] \notin {"clear", "dropCount"}
    BY <1>4, <1>5, <2>1, ZenonT(30)
       DEF SendOtp, SendBlockCheck, Claim, Delivered, NotDelivered, AnswerLost, Unclaim,
           Store, Refresh, Step, Goto, TypeOK
  <2>5. CASE otp' = otp /\ tries' = tries /\ counterTtl' = counterTtl
    BY <1>0, <2>1, <2>2, <2>4, <2>5 DEF PerCodeInv, Covered
  <2>6. CASE tries' = 0
    BY <1>0, <2>1, <2>2, <2>4, <2>6 DEF PerCodeInv
  <2>7. CASE otp' = otp /\ tries' = tries /\ counterTtl' = RefreshedTtl
    <3>1. Covered'
      BY <1>0, <2>1, <2>7, OtpTtl <= AttemptTtl DEF Covered, RefreshedTtl
    <3> QED
      BY <1>0, <2>1, <2>2, <2>4, <2>7, <3>1 DEF PerCodeInv
  <2> QED
    BY <2>3, <2>5, <2>6, <2>7
<1>6. ASSUME NEW p \in Requests, VerifyOtp(p) PROVE PerCodeInv'
  <2> USE DEF Steps, Step, Goto, Unsettled, Uncounted
  <2>1. CASE VerifyBlockCheck(p)
    <3>1. /\ pc[p] = "verifyBlockCheck"
          /\ \E to \in {"release", "compare"} : pc' = [pc EXCEPT ![p] = to]
          /\ UNCHANGED <<otp, attempts, counterTtl, tries, faults>>
      BY <2>1 DEF VerifyBlockCheck, keyVars, history, counts
    <3> QED
      BY <1>4, <3>1 DEF PerCodeInv, Covered
  <2>2. CASE Compare(p)
    <3>1. /\ pc[p] = "compare" /\ UNCHANGED <<otp, attempts, counterTtl, faults>>
          /\ \/ /\ otp = 0 /\ tries' = tries
                /\ pc' = [pc EXCEPT ![p] = "release"]
             \/ /\ otp > 0 /\ tries' = tries + 1
                /\ \E to \in {"consume", "count"} : pc' = [pc EXCEPT ![p] = to]
      BY <1>0, <2>2 DEF Compare, keyVars
    <3>2. /\ \A q \in Requests : pc'[q] \notin {"expire", "clear", "dropCount"}
          /\ Under(Uncounted) = 0 /\ Under(Unsettled) = 0
          /\ otp > 0 => Under(Uncounted)' = 1 /\ Under(Unsettled)' = 1
      BY <1>0, <1>4, <3>1
    <3> QED
      BY <1>0, <3>1, <3>2 DEF PerCodeInv, Covered
  <2>3. CASE Count(p)
    <3>1. /\ pc[p] = "count" /\ UNCHANGED <<otp, tries, faults>>
          /\ pc' = [pc EXCEPT ![p] = "expire"]
          /\ attempts' = attempts + 1 /\ seen'[p] = attempts + 1
          /\ counterTtl' = IF attempts = 0 THEN NoExpiry ELSE counterTtl
      BY <2>3 DEF Count, history, counts, TypeOK
    <3>2. /\ \A q \in Requests \ {p} : pc'[q] = "idle"
          /\ pc'[p] = "expire"
          /\ Under(Unsettled) = 1 /\ Under(Uncounted) = 1
          /\ Under(Unsettled)' = 1 /\ Under(Uncounted)' = 0
      BY <1>4, <3>1
    <3>3. Covered => Covered'
      BY <1>0, <3>1 DEF Covered
    <3> QED
      BY <1>0, <3>1, <3>2, <3>3 DEF PerCodeInv
  <2>4. CASE Expire(p)
    <3>1. /\ pc[p] = "expire" /\ UNCHANGED <<otp, attempts, tries, faults>>
          /\ pc' = [pc EXCEPT ![p] = IF attempts >= AttemptLimit THEN "dropCode" ELSE "release"]
          /\ counterTtl' = AttemptTtl /\ attempts > 0
      BY <1>0, <2>4 DEF Expire, history, counts, RefreshedTtl, PerCodeInv
    <3>2. Covered'
      BY <1>0, <3>1, OtpTtl <= AttemptTtl DEF Covered
    <3>3. /\ \A q \in Requests : pc'[q] \notin {"expire", "clear", "dropCount"}
          /\ Under(Uncounted) = 0 /\ Under(Unsettled) = 1 /\ Under(Uncounted)' = 0
          /\ Under(Unsettled)' = IF attempts >= AttemptLimit THEN 1 ELSE 0
      BY <1>4, <3>1
    <3> QED
      BY <1>0, <3>1, <3>2, <3>3 DEF PerCodeInv
  <2>5. CASE DropCode(p) \/ Consume(p)
    <3>1. /\ pc[p] \in {"dropCode", "consume"} /\ otp' = 0 /\ UNCHANGED <<tries, faults>>
          /\ \E to \in {"dropCount", "clear"} : pc' = [pc EXCEPT ![p] = to]
      BY <2>5 DEF DropCode, Consume, history, counts
    <3>2. \A q \in Requests : pc'[q] # "expire"
      BY <1>4, <3>1
    <3> QED
      BY <1>0, <3>1, <3>2 DEF PerCodeInv
  <2>6. CASE Clear(p) \/ DropCount(p) \/ Block(p)
    <3>1. /\ pc[p] \in {"clear", "dropCount", "block"}
          /\ \E to \in {"release", "block"} : pc' = [pc EXCEPT ![p] = to]
          /\ UNCHANGED <<otp, tries, faults>>
          /\ UNCHANGED <<attempts, counterTtl>> \/ otp = 0
      BY <2>6 DEF Clear, DropCount, Block, history, counts, PerCodeInv
    <3>2. /\ \A q \in Requests : pc'[q] \notin {"expire", "clear", "dropCount"}
          /\ Under(Uncounted) = 0 /\ Under(Unsettled) = 0
          /\ Under(Uncounted)' = 0 /\ Under(Unsettled)' = 0
      BY <1>4, <3>1
    <3> QED
      BY <1>0, <3>1, <3>2 DEF PerCodeInv, Covered
  <2> QED
    BY <1>6, <2>1, <2>2, <2>3, <2>4, <2>5, <2>6 DEF VerifyOtp
<1>7. ASSUME NEW p \in Requests, Release(p) PROVE PerCodeInv'
  <2>1. /\ pc[p] = "release" /\ pc' = [pc EXCEPT ![p] = "idle"]
        /\ UNCHANGED <<otp, attempts, counterTtl, tries, faults>>
    BY <1>7 DEF Release, Leave, Goto, counts
  <2> QED
    BY <1>4, <2>1 DEF PerCodeInv, Covered, Steps, Unsettled, Uncounted
<1>8. ASSUME NEW p \in Requests, Fails(p) PROVE PerCodeInv'
  <2>1. /\ pc[p] # "idle" /\ \E to \in {"idle", "release"} : pc' = [pc EXCEPT ![p] = to]
        /\ UNCHANGED <<otp, attempts, counterTtl, tries>> /\ faults' = faults + 1
    BY <1>8 DEF Fails, CommandFails, Crash, Leave, Critical, Fault, Goto, keyVars, history, counts
  <2>2. /\ \A q \in Requests : pc'[q] \notin {"expire", "clear", "dropCount"}
        /\ Under(Uncounted)' = 0 /\ Under(Unsettled)' = 0
    BY <1>4, <2>1 DEF Steps, Unsettled, Uncounted
  <2> QED
    BY <1>0, <1>1, <2>1, <2>2 DEF PerCodeInv, Covered
<1>9. CASE UNCHANGED vars
  BY <1>9 DEF vars, keyVars, reqVars, history, counts, PerCodeInv, Covered, Under
<1> QED
  BY <1>2, <1>3, <1>5, <1>6, <1>7, <1>8, <1>9 DEF Next, Continue

\* At the start, and when an overlap is over, a whole set of guesses is left.
LEMMA PerCodeStarts == TypeOK /\ Restarted => PerCodeInv
<1> SUFFICES ASSUME TypeOK, Restarted PROVE PerCodeInv
  OBVIOUS
<1>1. AttemptLimit \in Nat \ {0} /\ attempts \in Nat /\ faults \in Nat
  BY TtlAssumption, BoundAssumption DEF TypeOK
<1>2. Under(Unsettled) = 0 /\ Under(Uncounted) = 0
  BY DEF Restarted, Under, Unsettled, Uncounted
<1> QED
  BY <1>1, <1>2 DEF Restarted, PerCodeInv

\* No code is compared more often than the limit, and once more for each fault,
\* whatever expires, is sent again or is guessed at once, unless requests overlap
\* in a lapsed lock.
THEOREM CodeGuesses ==
    ASSUME OtpTtl <= AttemptTtl
    PROVE  Spec => []GuessesPerCode
<1>1. ExclusiveUnlessLapsed /\ ~lapsed => LockExclusion
  BY DEF ExclusiveUnlessLapsed
<1>2. (~lapsed => PerCodeInv) => GuessesPerCode
  BY DEF PerCodeInv, GuessesPerCode
<1>3. TypeOK /\ ~lapsed /\ LockExclusion /\ PerCodeInv /\ [Next]_vars => PerCodeInv'
  BY PerCodeStep
<1> QED
  BY <1>1, <1>2, <1>3, Starts, LapseEnds, PerCodeStarts, TypeCorrect, LockExcludes,
     PTL DEF Spec
-----------------------------------------------------------------------------
\* Guesses that the counter does not show yet, and those that may still end in
\* a block or a success.
Unbooked == Uncounted \cup {"clear"}
Undecided == Unbooked \cup {"expire", "dropCode", "dropCount"}

Budget == AttemptLimit * faults

\* A set of guesses for each fault, and of the current set what the counter
\* shows, unless it is already deleted for a block that is about to be set.
AcrossInv ==
    /\ guesses <= AttemptLimit + Budget
    /\ Under({"block"}) = 0 =>
        /\ guesses < AttemptLimit + Budget + Under(Undecided)
        /\ guesses <= attempts + Budget + Under(Unbooked)
    /\ \A p \in Requests : pc[p] = "expire" => seen[p] = attempts

LEMMA BudgetGrows ==
    ASSUME TypeOK
    PROVE  /\ Budget \in Nat
           /\ faults' = faults => Budget' = Budget
           /\ faults' = faults + 1 => Budget' = Budget + AttemptLimit
<1>1. AttemptLimit \in Nat /\ faults \in Nat
  BY TtlAssumption, BoundAssumption DEF TypeOK
<1>2. AttemptLimit * (faults + 1) = AttemptLimit * faults + AttemptLimit
  BY <1>1
<1>3. AttemptLimit * faults \in Nat
  BY <1>1
<1> QED
  BY <1>1, <1>2, <1>3 DEF Budget

LEMMA AcrossStep ==
    TypeOK /\ ~lapsed /\ LockExclusion /\ AcrossInv /\ [Next]_vars => AcrossInv'
<1> SUFFICES ASSUME TypeOK, ~lapsed, LockExclusion, AcrossInv, [Next]_vars PROVE AcrossInv'
  OBVIOUS
<1>0. /\ AttemptLimit \in Nat \ {0} /\ attempts \in Nat /\ guesses \in Nat
      /\ \A p \in Requests : seen[p] \in Nat
      /\ Budget \in Nat
      /\ faults' = faults => Budget' = Budget
      /\ faults' = faults + 1 => Budget' = Budget + AttemptLimit
  BY TtlAssumption, BudgetGrows DEF TypeOK
<1>1. \A steps : Under(steps) \in {0, 1} /\ Under(steps)' \in {0, 1}
  BY DEF Under
<1>2. CASE Tick
  <2>1. /\ UNCHANGED <<pc, seen, faults>>
        /\ \A p \in Requests : pc[p] \in {"idle", "provider"}
        /\ \/ UNCHANGED <<attempts, guesses>>
           \/ attempts' = 0 /\ guesses' = 0
    BY <1>2 DEF Tick
  <2>2. \A steps : Under(steps)' = Under(steps)
    BY <2>1 DEF Under
  <2> QED
    BY <1>0, <1>1, <2>1, <2>2 DEF AcrossInv
<1>3. ASSUME NEW p \in Requests, Start(p) PROVE AcrossInv'
  <2>1. PICK body \in {"sendBlockCheck", "verifyBlockCheck"} : Acquire(p, body)
    BY <1>3 DEF Start
  <2>2. /\ pc[p] = "idle" /\ pc' = [pc EXCEPT ![p] = body]
        /\ seen' = [seen EXCEPT ![p] = 0]
        /\ UNCHANGED <<attempts, guesses, faults>>
    BY <2>1 DEF Acquire, Step, Goto, history, counts
  <2>3. /\ \A q \in Requests \ {p} : pc'[q] = pc[q] /\ seen'[q] = seen[q]
        /\ pc'[p] = body
    BY <2>2 DEF TypeOK
  <2>4. /\ Under(Undecided)' = Under(Undecided) /\ Under(Unbooked)' = Under(Unbooked)
        /\ Under({"block"})' = Under({"block"})
    BY <2>2, <2>3 DEF Under, Undecided, Unbooked, Uncounted
  <2> QED
    BY <1>0, <2>2, <2>3, <2>4 DEF AcrossInv
<1>4. ASSUME NEW p \in Requests, pc[p] # "idle", NEW to \in Steps,
             pc' = [pc EXCEPT ![p] = to]
      PROVE  /\ \A q \in Requests \ {p} : pc'[q] = "idle"
             /\ pc'[p] = to
             /\ Under(Undecided) = IF pc[p] \in Undecided THEN 1 ELSE 0
             /\ Under(Unbooked) = IF pc[p] \in Unbooked THEN 1 ELSE 0
             /\ Under({"block"}) = IF pc[p] = "block" THEN 1 ELSE 0
             /\ Under(Undecided)' = IF to \in Undecided THEN 1 ELSE 0
             /\ Under(Unbooked)' = IF to \in Unbooked THEN 1 ELSE 0
             /\ Under({"block"})' = IF to = "block" THEN 1 ELSE 0
  <2>1. /\ \A q \in Requests \ {p} : pc'[q] = "idle"
        /\ pc'[p] = to
        /\ \A steps : "idle" \notin steps =>
              /\ Under(steps) = IF pc[p] \in steps THEN 1 ELSE 0
              /\ Under(steps)' = IF to \in steps THEN 1 ELSE 0
    BY <1>4, AloneStep
  <2>2. "idle" \notin Undecided /\ "idle" \notin Unbooked /\ "idle" \notin {"block"}
    BY DEF Undecided, Unbooked, Uncounted
  <2>3. /\ Under(Undecided) = IF pc[p] \in Undecided THEN 1 ELSE 0
        /\ Under(Undecided)' = IF to \in Undecided THEN 1 ELSE 0
    BY <2>1, <2>2
  <2>4. /\ Under(Unbooked) = IF pc[p] \in Unbooked THEN 1 ELSE 0
        /\ Under(Unbooked)' = IF to \in Unbooked THEN 1 ELSE 0
    BY <2>1, <2>2
  <2>5. /\ Under({"block"}) = IF pc[p] \in {"block"} THEN 1 ELSE 0
        /\ Under({"block"})' = IF to \in {"block"} THEN 1 ELSE 0
    BY <2>1, <2>2
  <2> QED
    BY <2>1, <2>3, <2>4, <2>5
<1>5. ASSUME NEW p \in Requests, pc[p] # "idle", pc[p] \notin Undecided \cup {"block"},
             NEW to \in Steps \ (Undecided \cup {"block"}),
             pc' = [pc EXCEPT ![p] = to], UNCHANGED <<attempts, guesses, faults>>
      PROVE  AcrossInv'
  <2>1. /\ \A q \in Requests : pc'[q] # "expire"
        /\ Under(Undecided) = 0 /\ Under(Unbooked) = 0 /\ Under({"block"}) = 0
        /\ Under(Undecided)' = 0 /\ Under(Unbooked)' = 0
    BY <1>4, <1>5 DEF Undecided
  <2> QED
    BY <1>0, <1>5, <2>1 DEF AcrossInv
<1>6. ASSUME NEW p \in Requests,
             SendOtp(p) \/ VerifyBlockCheck(p) \/ Release(p)
      PROVE  AcrossInv'
  <2>1. /\ pc[p] # "idle" /\ pc[p] \notin Undecided \cup {"block"}
        /\ UNCHANGED <<attempts, guesses, faults>>
        /\ \E to \in Steps \ (Undecided \cup {"block"}) : pc' = [pc EXCEPT ![p] = to]
    BY <1>6 DEF SendOtp, SendBlockCheck, Claim, Delivered, NotDelivered, AnswerLost,
       Unclaim, Store, Refresh, VerifyBlockCheck, Release, Leave, Step, Goto, Steps, Undecided,
       Unbooked, Uncounted, keyVars, history, counts
  <2> QED
    BY <1>5, <2>1
<1>7. ASSUME NEW p \in Requests, VerifyOtp(p), ~VerifyBlockCheck(p) PROVE AcrossInv'
  <2> USE DEF Steps, Step, Goto, Undecided, Unbooked, Uncounted
  <2>1. CASE Compare(p)
    <3>1. CASE otp = 0
      BY <1>5, <2>1, <3>1 DEF Compare, keyVars
    <3>2. CASE otp # 0
      <4>1. /\ pc[p] = "compare" /\ attempts' = attempts /\ faults' = faults
            /\ guesses' = guesses + 1
            /\ \E to \in {"consume", "count"} : pc' = [pc EXCEPT ![p] = to]
        BY <2>1, <3>2 DEF Compare, keyVars
      <4>2. /\ \A q \in Requests : pc'[q] # "expire"
            /\ Under(Undecided) = 0 /\ Under(Unbooked) = 0 /\ Under({"block"}) = 0
            /\ Under(Undecided)' = 1 /\ Under(Unbooked)' = 1
        BY <1>4, <4>1
      <4> QED
        BY <1>0, <4>1, <4>2 DEF AcrossInv
    <3> QED
      BY <3>1, <3>2
  <2>2. CASE Count(p)
    <3>1. /\ pc[p] = "count" /\ UNCHANGED <<guesses, faults>>
          /\ pc' = [pc EXCEPT ![p] = "expire"]
          /\ attempts' = attempts + 1 /\ seen'[p] = attempts + 1
      BY <2>2 DEF Count, history, counts, TypeOK
    <3>2. /\ \A q \in Requests \ {p} : pc'[q] = "idle"
          /\ Under(Undecided) = 1 /\ Under(Unbooked) = 1 /\ Under({"block"}) = 0
          /\ Under(Undecided)' = 1 /\ Under(Unbooked)' = 0
      BY <1>4, <3>1
    <3> QED
      BY <1>0, <3>1, <3>2 DEF AcrossInv
  <2>3. CASE Expire(p)
    <3>1. /\ pc[p] = "expire" /\ UNCHANGED <<attempts, guesses, faults>>
          /\ pc' = [pc EXCEPT ![p] = IF attempts >= AttemptLimit THEN "dropCode" ELSE "release"]
      BY <2>3 DEF Expire, history, counts, AcrossInv
    <3>2. /\ \A q \in Requests : pc'[q] # "expire"
          /\ Under(Undecided) = 1 /\ Under(Unbooked) = 0 /\ Under({"block"}) = 0
          /\ Under(Undecided)' = (IF attempts >= AttemptLimit THEN 1 ELSE 0)
          /\ Under(Unbooked)' = 0
      BY <1>4, <3>1
    <3> QED
      BY <1>0, <3>1, <3>2 DEF AcrossInv
  <2>4. CASE DropCode(p) \/ Consume(p)
    <3>1. /\ UNCHANGED <<attempts, guesses, faults>>
          /\ \/ pc[p] = "dropCode" /\ pc' = [pc EXCEPT ![p] = "dropCount"]
             \/ pc[p] = "consume" /\ pc' = [pc EXCEPT ![p] = "clear"]
      BY <2>4 DEF DropCode, Consume, history, counts
    <3>2. /\ \A q \in Requests : pc'[q] # "expire"
          /\ Under({"block"}) = 0 /\ Under(Undecided)' = Under(Undecided)
          /\ Under(Unbooked)' = Under(Unbooked)
      BY <1>4, <3>1
    <3> QED
      BY <1>0, <3>1, <3>2 DEF AcrossInv
  <2>5. CASE DropCount(p)
    <3>1. /\ pc[p] = "dropCount" /\ pc' = [pc EXCEPT ![p] = "block"]
          /\ UNCHANGED <<guesses, faults>>
      BY <2>5 DEF DropCount, history, counts
    <3>2. Under({"block"})' = 1 /\ \A q \in Requests : pc'[q] # "expire"
      BY <1>4, <3>1
    <3> QED
      BY <1>0, <3>1, <3>2 DEF AcrossInv
  <2>6. CASE Block(p) \/ Clear(p)
    <3>1. /\ pc[p] # "idle" /\ pc' = [pc EXCEPT ![p] = "release"]
          /\ guesses' = 0 /\ faults' = faults /\ attempts' \in Nat
      BY <1>0, <2>6 DEF Block, Clear, ClearCounter
    <3>2. \A q \in Requests : pc'[q] # "expire"
      BY <1>4, <3>1
    <3> QED
      BY <1>0, <1>1, <3>1, <3>2 DEF AcrossInv
  <2> QED
    BY <1>7, <2>1, <2>2, <2>3, <2>4, <2>5, <2>6 DEF VerifyOtp
<1>8. ASSUME NEW p \in Requests, Fails(p) PROVE AcrossInv'
  <2>1. /\ pc[p] # "idle" /\ \E to \in {"idle", "release"} : pc' = [pc EXCEPT ![p] = to]
        /\ UNCHANGED <<attempts, guesses>> /\ faults' = faults + 1
    BY <1>8 DEF Fails, CommandFails, Crash, Leave, Critical, Fault, Goto, keyVars, history, counts
  <2>2. \A q \in Requests : pc'[q] # "expire"
    BY <1>4, <2>1 DEF Steps
  <2> QED
    BY <1>0, <1>1, <2>1, <2>2 DEF AcrossInv
<1>9. CASE UNCHANGED vars
  BY <1>0, <1>9 DEF vars, keyVars, reqVars, history, counts, AcrossInv, Under
<1> QED
  BY <1>2, <1>3, <1>6, <1>7, <1>8, <1>9 DEF Next, Continue, VerifyOtp

LEMMA AcrossStarts == TypeOK /\ Restarted => AcrossInv
<1> SUFFICES ASSUME TypeOK, Restarted PROVE AcrossInv
  OBVIOUS
<1>1. AttemptLimit \in Nat \ {0} /\ attempts \in Nat /\ Budget \in Nat
  BY TtlAssumption, BudgetGrows DEF TypeOK
<1>2. \A steps : Under(steps) \in {0, 1}
  BY DEF Under
<1> QED
  BY <1>1, <1>2 DEF Restarted, AcrossInv

\* Sending new codes gives no new guesses: between two blocks, successes, expired
\* counters or overlaps there is one set of them, and another for each fault.
THEOREM PhoneGuesses == Spec => []GuessesAcrossCodes
<1>1. ExclusiveUnlessLapsed /\ ~lapsed => LockExclusion
  BY DEF ExclusiveUnlessLapsed
<1>2. TypeOK /\ (~lapsed => AcrossInv) => GuessesAcrossCodes
  <2> SUFFICES ASSUME TypeOK, AcrossInv PROVE guesses <= AttemptLimit * (1 + faults)
    BY DEF GuessesAcrossCodes
  <2>1. AttemptLimit \in Nat /\ faults \in Nat
    BY TtlAssumption, BoundAssumption DEF TypeOK
  <2>2. AttemptLimit * (1 + faults) = AttemptLimit + Budget
    BY <2>1 DEF Budget
  <2> QED
    BY <2>2 DEF AcrossInv
<1> QED
  BY <1>1, <1>2, Starts, LapseEnds, AcrossStarts, AcrossStep, TypeCorrect, LockExcludes,
     PTL DEF Spec
=============================================================================
