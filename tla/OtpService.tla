----------------------------- MODULE OtpService -----------------------------
(***************************************************************************)
(* The one-time-password state machine of auth-service for one phone       *)
(* number (src/services/otpService.js): five Redis keys with times to live,*)
(* a lock taken with SET NX EX and released with DEL, and concurrent       *)
(* requests whose every Redis command, and call of the SMS or WhatsApp     *)
(* provider, is a step of its own.                                         *)
(*                                                                         *)
(* Time passes in ticks.  A provider call takes up to ProviderTimeout      *)
(* ticks (axios timeout: 10 s; the console provider answers at once); a    *)
(* Redis command takes none, so Tick waits for requests that are between   *)
(* commands: what is shown does not rest on a slow Redis.  The TTLs keep   *)
(* the order they have in the code, not its seconds.                       *)
(*                                                                         *)
(* Abstractions: digits are not modelled, a submitted code matches or not; *)
(* a refused lock changes nothing and is left out; a command that errors   *)
(* is one that was not applied; MaxFaults bounds errors and crashes.       *)
(***************************************************************************)
EXTENDS Integers, FiniteSets

CONSTANTS Requests,          \* requests for the phone that may overlap
          LockTtl,           \* LOCK_TTL_SECONDS (5)
          ProviderTimeout,   \* the provider's HTTP timeout (10), console: 0
          Cooldown,          \* RESEND_COOLDOWN_SECONDS (60)
          OtpTtl,            \* OTP_EXPIRY_SECONDS (300)
          AttemptTtl,        \* ATTEMPT_TTL_SECONDS (1800)
          BlockTtl,          \* BLOCK_DURATION_SECONDS (1800)
          AttemptLimit,      \* ATTEMPT_LIMIT (3)
          MaxFaults          \* bound on command errors and crashes

ASSUME TtlAssumption ==
    {LockTtl, Cooldown, OtpTtl, AttemptTtl, BlockTtl, AttemptLimit} \subseteq Nat \ {0}
ASSUME BoundAssumption == {ProviderTimeout, MaxFaults} \subseteq Nat

VARIABLES
    lock,       \* seconds left of otp:lock:<phone>, 0 when there is no key
    resend,     \* the same of otp:resend, ...
    otp,        \* ... of otp, ...
    block,      \* ... and of otp:block
    attempts,   \* value of otp:attempts, 0 when there is no key
    counterTtl, \* its time to live, NoExpiry between INCR and EXPIRE
    pc,         \* pc[p]: the command request p issues next
    wait,       \* wait[p]: ticks since request p took the lock
    seen,       \* seen[p]: what p's INCR returned
    sinceSms,   \* ticks since the request of the last message sent began
    misreported,\* that message went out, but the provider reported a failure
    tries,      \* comparisons made with the current code
    guesses,    \* comparisons since the last block, success or expired counter
    uses,       \* times the current code was accepted
    lapsed,     \* a request inside has outlived the lock it took; while it is
                \* set nothing excludes, and the three counts restart when the
                \* last request inside has left
    faults      \* faults so far

keyVars == <<lock, resend, otp, block, attempts, counterTtl>>
reqVars == <<pc, wait, seen>>
sms == <<sinceSms, misreported>>
counts == <<tries, guesses, uses>>
history == <<sms, counts, lapsed>>
vars == <<keyVars, reqVars, history, faults>>

-----------------------------------------------------------------------------
NoExpiry == -1
Down(ttl) == IF ttl > 0 THEN ttl - 1 ELSE ttl

Steps == {"idle", "sendBlockCheck", "claim", "provider", "unclaim", "store",
          "refresh", "verifyBlockCheck", "compare", "count", "expire",
          "dropCode", "dropCount", "block", "consume", "clear", "release"}

TypeOK ==
    /\ lock \in 0..LockTtl /\ resend \in 0..Cooldown
    /\ otp \in 0..OtpTtl /\ block \in 0..BlockTtl
    /\ attempts \in Nat /\ counterTtl \in {NoExpiry} \cup 0..AttemptTtl
    /\ pc \in [Requests -> Steps]
    /\ wait \in [Requests -> 0..ProviderTimeout]
    /\ seen \in [Requests -> Nat]
    /\ sinceSms \in 0..Cooldown /\ misreported \in BOOLEAN /\ lapsed \in BOOLEAN
    /\ {tries, guesses, uses} \subseteq Nat
    /\ faults \in 0..MaxFaults

Init ==
    /\ lock = 0 /\ resend = 0 /\ otp = 0 /\ block = 0
    /\ attempts = 0 /\ counterTtl = 0
    /\ pc = [p \in Requests |-> "idle"]
    /\ wait = [p \in Requests |-> 0]
    /\ seen = [p \in Requests |-> 0]
    /\ sinceSms = Cooldown /\ misreported = FALSE /\ lapsed = FALSE
    /\ tries = 0 /\ guesses = 0 /\ uses = 0
    /\ faults = 0

Fault == faults < MaxFaults /\ faults' = faults + 1

Goto(p, step) == pc' = [pc EXCEPT ![p] = step]
Step(p, from, to) == pc[p] = from /\ Goto(p, to)

Critical(p) == pc[p] # "idle"

-----------------------------------------------------------------------------
(* withPhoneLock().                                                        *)

\* Mutants: SET without NX, and SET without EX.
AcquireAlways(p, body) ==
    /\ Step(p, "idle", body)
    /\ lock' = LockTtl
    /\ wait' = [wait EXCEPT ![p] = 0]
    /\ seen' = [seen EXCEPT ![p] = 0]
    /\ UNCHANGED <<resend, otp, block, attempts, counterTtl, history, faults>>
AcquireForever(p, body) ==
    /\ lock = 0
    /\ Step(p, "idle", body)
    /\ lock' = NoExpiry
    /\ wait' = [wait EXCEPT ![p] = 0]
    /\ seen' = [seen EXCEPT ![p] = 0]
    /\ UNCHANGED <<resend, otp, block, attempts, counterTtl, history, faults>>

\* SET otp:lock NX EX succeeds, and the body of sendOtp or verifyOtp starts.
Acquire(p, body) ==
    /\ lock = 0
    /\ Step(p, "idle", body)
    /\ lock' = LockTtl
    /\ wait' = [wait EXCEPT ![p] = 0]
    /\ seen' = [seen EXCEPT ![p] = 0]
    /\ UNCHANGED <<resend, otp, block, attempts, counterTtl, history, faults>>

\* A request leaves the section; with the last one an overlap is over.
Leave(p) ==
    /\ Goto(p, "idle")
    /\ IF lapsed /\ \A q \in Requests \ {p} : ~Critical(q)
       THEN lapsed' = FALSE /\ tries' = 0 /\ guesses' = 0 /\ uses' = 0
       ELSE UNCHANGED <<lapsed, counts>>

\* finally: DEL otp:lock, whoever holds it by now.
Release(p) ==
    /\ pc[p] = "release"
    /\ Leave(p)
    /\ lock' = 0
    /\ UNCHANGED <<resend, otp, block, attempts, counterTtl, wait, seen, sms, faults>>

-----------------------------------------------------------------------------
(* sendOtp().                                                              *)

SendBlockCheck(p) ==
    /\ Step(p, "sendBlockCheck", IF block > 0 THEN "release" ELSE "claim")
    /\ UNCHANGED <<keyVars, wait, seen, history, faults>>

\* Mutant: the result of SET otp:resend NX is not looked at.
ClaimUnchecked(p) ==
    /\ Step(p, "claim", "provider")
    /\ resend' = Cooldown
    /\ UNCHANGED <<lock, otp, block, attempts, counterTtl, wait, seen, history, faults>>

\* SET otp:resend NX EX
Claim(p) ==
    /\ IF resend = 0
       THEN Step(p, "claim", "provider") /\ resend' = Cooldown
       ELSE Step(p, "claim", "release") /\ UNCHANGED resend
    /\ UNCHANGED <<lock, otp, block, attempts, counterTtl, wait, seen, history, faults>>

\* A message has gone out, with the outcome that is reported of it.
Sent(p, wrongly) ==
    /\ sinceSms' = IF wait[p] < Cooldown THEN wait[p] ELSE Cooldown
    /\ misreported' = wrongly

\* The provider answers within its timeout; it never throws.
Delivered(p) ==
    /\ Step(p, "provider", "store")
    /\ Sent(p, FALSE)
    /\ UNCHANGED <<keyVars, wait, seen, counts, lapsed, faults>>

NotDelivered(p) ==
    /\ Step(p, "provider", "unclaim")
    /\ UNCHANGED <<keyVars, wait, seen, history, faults>>

\* {success: false} of a message that the gateway sent: the HTTP call timed
\* out or broke, or the answer was not understood.
AnswerLost(p) ==
    /\ Step(p, "provider", "unclaim")
    /\ Sent(p, TRUE)
    /\ UNCHANGED <<keyVars, wait, seen, counts, lapsed, faults>>

\* DEL otp:resend
Unclaim(p) ==
    /\ Step(p, "unclaim", "release")
    /\ resend' = 0
    /\ UNCHANGED <<lock, otp, block, attempts, counterTtl, wait, seen, history, faults>>

\* Mutant: the cooldown slot is freed after a delivery as well.
StoreFreesSlot(p) ==
    /\ Step(p, "store", "refresh")
    /\ otp' = OtpTtl /\ resend' = 0
    /\ tries' = 0 /\ uses' = 0
    /\ UNCHANGED <<lock, block, attempts, counterTtl, wait, seen,
                   sms, guesses, lapsed, faults>>

\* SET otp EX: a new code, of which nothing was tried yet.
Store(p) ==
    /\ Step(p, "store", "refresh")
    /\ otp' = OtpTtl
    /\ tries' = 0 /\ uses' = 0
    /\ UNCHANGED <<lock, resend, block, attempts, counterTtl, wait, seen,
                   sms, guesses, lapsed, faults>>

\* EXPIRE otp:attempts, which does nothing without the key.
RefreshedTtl == IF attempts > 0 THEN AttemptTtl ELSE counterTtl

\* Mutant: a resend deletes the counter instead of refreshing its TTL.
RefreshClears(p) ==
    /\ Step(p, "refresh", "release")
    /\ attempts' = 0 /\ counterTtl' = 0
    /\ UNCHANGED <<lock, resend, otp, block, wait, seen, history, faults>>

Refresh(p) ==
    /\ Step(p, "refresh", "release")
    /\ counterTtl' = RefreshedTtl
    /\ UNCHANGED <<lock, resend, otp, block, attempts, wait, seen, history, faults>>

-----------------------------------------------------------------------------
(* verifyOtp().                                                            *)

VerifyBlockCheck(p) ==
    /\ Step(p, "verifyBlockCheck", IF block > 0 THEN "release" ELSE "compare")
    /\ UNCHANGED <<keyVars, wait, seen, history, faults>>

\* GET otp and, with no await in between, the comparison.
Compare(p) ==
    /\ IF otp = 0
       THEN Step(p, "compare", "release") /\ UNCHANGED <<tries, guesses>>
       ELSE /\ Step(p, "compare", "consume") \/ Step(p, "compare", "count")
            /\ tries' = tries + 1 /\ guesses' = guesses + 1
    /\ UNCHANGED <<keyVars, wait, seen, sms, uses, lapsed, faults>>

\* INCR otp:attempts: a new key has no time to live.
Count(p) ==
    /\ Step(p, "count", "expire")
    /\ attempts' = attempts + 1
    /\ seen' = [seen EXCEPT ![p] = attempts + 1]
    /\ counterTtl' = IF attempts = 0 THEN NoExpiry ELSE counterTtl
    /\ UNCHANGED <<lock, resend, otp, block, wait, history, faults>>

\* Mutant: > for >= in the comparison with the limit.
ExpireLate(p) ==
    /\ Step(p, "expire", IF seen[p] > AttemptLimit THEN "dropCode" ELSE "release")
    /\ counterTtl' = RefreshedTtl
    /\ UNCHANGED <<lock, resend, otp, block, attempts, wait, seen, history, faults>>

Expire(p) ==
    /\ Step(p, "expire", IF seen[p] >= AttemptLimit THEN "dropCode" ELSE "release")
    /\ counterTtl' = RefreshedTtl
    /\ UNCHANGED <<lock, resend, otp, block, attempts, wait, seen, history, faults>>

DropCode(p) ==
    /\ Step(p, "dropCode", "dropCount")
    /\ otp' = 0
    /\ UNCHANGED <<lock, resend, block, attempts, counterTtl, wait, seen, history, faults>>

ClearCounter == attempts' = 0 /\ counterTtl' = 0

DropCount(p) ==
    /\ Step(p, "dropCount", "block")
    /\ ClearCounter
    /\ UNCHANGED <<lock, resend, otp, block, wait, seen, history, faults>>

\* Mutant: the duration is given in another unit.
BlockMilliseconds(p) ==
    /\ Step(p, "block", "release")
    /\ block' = BlockTtl * 1000 /\ guesses' = 0
    /\ UNCHANGED <<lock, resend, otp, attempts, counterTtl, wait, seen,
                   sms, tries, uses, lapsed, faults>>

Block(p) ==
    /\ Step(p, "block", "release")
    /\ block' = BlockTtl /\ guesses' = 0
    /\ UNCHANGED <<lock, resend, otp, attempts, counterTtl, wait, seen,
                   sms, tries, uses, lapsed, faults>>

\* Mutant: a code that matched is not deleted.
ConsumeKeeps(p) ==
    /\ Step(p, "consume", "clear")
    /\ UNCHANGED <<keyVars, wait, seen, history, faults>>

\* The code matched: DEL otp, DEL otp:attempts, {success: true}.
Consume(p) ==
    /\ Step(p, "consume", "clear")
    /\ otp' = 0
    /\ UNCHANGED <<lock, resend, block, attempts, counterTtl, wait, seen, history, faults>>

Clear(p) ==
    /\ Step(p, "clear", "release")
    /\ ClearCounter
    /\ uses' = uses + 1 /\ guesses' = 0
    /\ UNCHANGED <<lock, resend, otp, block, wait, seen, sms, tries, lapsed, faults>>

-----------------------------------------------------------------------------
(* Failures and time.                                                      *)

\* A Redis command rejects: the body throws, and finally runs.
CommandFails(p) ==
    /\ Fault
    /\ pc[p] \notin {"idle", "provider", "release"}
    /\ Goto(p, "release")
    /\ UNCHANGED <<keyVars, wait, seen, history>>

\* The process dies, or the DEL of finally fails: the lock stays, and a
\* message that was under way is sent or is not.
Crash(p) ==
    /\ Fault
    /\ Critical(p)
    /\ Leave(p)
    /\ \/ UNCHANGED sms
       \/ pc[p] = "provider" /\ Sent(p, FALSE)
    /\ UNCHANGED <<keyVars, wait, seen>>

Tick ==
    /\ \A p \in Requests : \/ pc[p] = "idle"
                           \/ pc[p] = "provider" /\ wait[p] < ProviderTimeout
    /\ lock' = Down(lock) /\ resend' = Down(resend)
    /\ otp' = Down(otp) /\ block' = Down(block)
    /\ counterTtl' = Down(counterTtl)
    /\ IF counterTtl = 1 THEN attempts' = 0 /\ guesses' = 0
                         ELSE UNCHANGED <<attempts, guesses>>
    /\ wait' = [p \in Requests |-> IF Critical(p) THEN wait[p] + 1 ELSE wait[p]]
    /\ sinceSms' = IF sinceSms < Cooldown THEN sinceSms + 1 ELSE sinceSms
    /\ lapsed' = (lapsed \/ \E p \in Requests : Critical(p) /\ wait[p] + 1 >= LockTtl)
    /\ UNCHANGED <<pc, seen, misreported, tries, uses, faults>>

-----------------------------------------------------------------------------
SendOtp(p) == \/ SendBlockCheck(p) \/ Claim(p) \/ Delivered(p) \/ NotDelivered(p)
              \/ AnswerLost(p) \/ Unclaim(p) \/ Store(p) \/ Refresh(p)

VerifyOtp(p) == \/ VerifyBlockCheck(p) \/ Compare(p) \/ Count(p) \/ Expire(p)
                \/ DropCode(p) \/ DropCount(p) \/ Block(p)
                \/ Consume(p) \/ Clear(p)

Start(p) == Acquire(p, "sendBlockCheck") \/ Acquire(p, "verifyBlockCheck")
Continue(p) == SendOtp(p) \/ VerifyOtp(p) \/ Release(p)
Fails(p) == CommandFails(p) \/ Crash(p)

Next == Tick \/ \E p \in Requests : Start(p) \/ Continue(p) \/ Fails(p)

\* Commands and provider calls are answered, and time passes.
Fairness == WF_vars(Tick) /\ \A p \in Requests : WF_vars(Continue(p))

Spec == Init /\ [][Next]_vars
FairSpec == Spec /\ Fairness

-----------------------------------------------------------------------------
(* Properties.                                                             *)

\* "Only one request per phone can be inside the check-then-act sequence at
\* a time" (otpService.js:23).
LockExclusion == \A p, q \in Requests : Critical(p) /\ Critical(q) => p = q

\* What the lock gives, with any provider: it excludes unless a request inside
\* has outlived it (a gateway may take 10 s, the lock lives 5), and again as
\* soon as the requests that then overlap have left (otpService.js:55-66).
ExclusiveUnlessLapsed == ~lapsed => LockExclusion

\* No code is compared more than AttemptLimit times, whatever the expiry of
\* the counter, a resend, or concurrent guesses do (an errored or crashed
\* request may leave its guess uncounted), but while requests overlap in a
\* lapsed lock; an overlap that is over leaves no more than a full set.
GuessesPerCode == ~lapsed => tries <= AttemptLimit + faults

\* A resend gives no fresh set of guesses: they are counted across codes, up
\* to a block, a success, AttemptTtl without any, or the end of an overlap in
\* a lapsed lock.  The counter is deleted before the block is set
\* (otpService.js:125-127): what fails in between costs a further set of
\* guesses, but never more than that.
GuessesAcrossCodes == ~lapsed => guesses <= AttemptLimit * (1 + faults)

\* A code is accepted once: no second request passes with a used code, unless
\* it overlaps with the first in a lapsed lock.
SingleUse == ~lapsed => uses <= 1

\* While the phone is blocked no code is accepted, but of a request that was
\* let in beside the one that set the block, by a lapsed lock.
NoAcceptWhileBlocked == [][block > 0 /\ ~lapsed => uses' <= uses]_vars

\* The requests of two messages are a cooldown apart, even when the lock has
\* run out during a slow provider call (otpService.js:82-84), unless the
\* provider reported the first as failed, which frees the slot (:92-95).
CooldownSpacing ==
    [][\A p \in Requests : Claim(p) /\ resend' # resend
          => sinceSms = Cooldown \/ misreported]_vars

\* One provider call per phone at a time, lock or no lock.
OneProviderCall ==
    \A p, q \in Requests : pc[p] = "provider" /\ pc[q] = "provider" => p = q

\* A crash between acquire and release does not leave the phone locked
\* forever (otpService.js:24-26).
LockIsFreed == []<>(lock = 0)
=============================================================================
