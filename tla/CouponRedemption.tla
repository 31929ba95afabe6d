-------------------------- MODULE CouponRedemption --------------------------
(***************************************************************************)
(* POST /coupons/:code/redeem of promotions-service: the controller        *)
(* (couponController.js), and redeemCoupon() (couponService.js), whose     *)
(* MongoDB transaction claims a slot of the coupon with one conditional    *)
(* update and inserts the outbox row of the event.                         *)
(*                                                                         *)
(* The driver's withTransaction() runs the callback again on a transient   *)
(* error, with a new eventId each time; two open transactions cannot both  *)
(* have written the coupon (the second one's update is a write conflict).  *)
(*                                                                         *)
(* Abstractions: one coupon; numbers are multiples of 1/Unit and computed  *)
(* with exactly, so that a double's overflow is in the model but not its   *)
(* last binary digits; the clock has an instant before, one in and one     *)
(* after the validity window; a write conflict leaves the request where it *)
(* is, to try again; MaxFaults bounds transient errors and crashes.        *)
(***************************************************************************)
EXTENDS Integers, FiniteSets

CONSTANTS Requests,
          Body,        \* Body[q]: what request q carries, see Bodies
          Cap,         \* maxRedemptionsTotal, 0 for no cap
          Type, Value, \* "flat" or "percent", and the coupon's value in 1/Unit
          Unit,        \* how finely numbers are divided
          Largest,     \* the largest number of JavaScript, in 1/Unit
          MaxFaults    \* bound on transient errors and crashes

\* What a client may send: a code that exists or not, a driverId that is
\* missing, a string or another truthy value, a fareAmount that is a number
\* or not; beyond Largest JSON.parse() makes it Infinity.
Bodies == [known : BOOLEAN, driver : {"missing", "string", "object"},
           numeric : BOOLEAN, fare : Int]

ASSUME BodyAssumption == Body \in [Requests -> Bodies]
ASSUME CouponAssumption ==
    /\ Cap \in Nat /\ Type \in {"flat", "percent"} /\ Value \in 0..Largest
    /\ Unit \in Nat \ {0} /\ Largest \in Nat
ASSUME BoundAssumption == MaxFaults \in Nat

VARIABLES
    clock,      \* 0 before the validity window, 1 in it, 2 after it
    count,      \* redemptionsCount of the coupon, as committed
    rows,       \* outbox rows: the request and attempt that wrote each
    pc,         \* pc[q]: what request q does next
    now,        \* now[q]: the instant redeemCoupon() read, once
    attempt,    \* attempt[q]: runs of the transaction callback
    slot,       \* slot[q]: the count that q's update returned
    answer,     \* answer[q]: the HTTP response
    faults      \* faults so far

vars == <<clock, count, rows, pc, now, attempt, slot, answer, faults>>

-----------------------------------------------------------------------------
Steps == {"start", "claim", "insert", "commit", "done"}

\* HTTP responses, 0 while there is none.  501 stands for the 500 whose code
\* is EVENT_SCHEMA_VIOLATION.
Answers == [status : {0, 200, 400, 409, 500, 501}, event : Nat, slot : Nat]
Error(s) == [status |-> s, event |-> 0, slot |-> 0]
NoAnswer == Error(0)

TypeOK ==
    /\ clock \in 0..2
    /\ count \in Nat
    /\ rows \subseteq Requests \X Nat
    /\ pc \in [Requests -> Steps]
    /\ now \in [Requests -> 0..2]
    /\ attempt \in [Requests -> Nat]
    /\ slot \in [Requests -> Nat]
    /\ answer \in [Requests -> Answers]
    /\ faults \in 0..MaxFaults

Init ==
    /\ clock \in 0..1
    /\ count = 0 /\ rows = {}
    /\ pc = [q \in Requests |-> "start"]
    /\ now = [q \in Requests |-> 0]
    /\ attempt = [q \in Requests |-> 0]
    /\ slot = [q \in Requests |-> 0]
    /\ answer = [q \in Requests |-> NoAnswer]
    /\ faults = 0

Fault == faults < MaxFaults /\ faults' = faults + 1

\* Transactions that have written the coupon and are still open.
InTxn(q) == pc[q] \in {"insert", "commit"}
Locked == \E q \in Requests : InTxn(q)

\* computeRedeemedAmount(), in 1/Unit of a hundredth: a percentage is rounded
\* to whole hundredths, halves up.
RedeemedAmount(fare) ==
    IF Type = "flat" THEN 100 * Value
    ELSE Unit * ((2 * Value * fare + Unit * Unit) \div (2 * Unit * Unit))

\* Its product is Infinity, or NaN: flat coupons do not multiply.
Overflows(fare) ==
    /\ Type = "percent"
    /\ \/ fare \notin -Largest..Largest
       \/ Value * fare \notin -(Largest * Unit)..(Largest * Unit)

\* couponRedeemedEventV1.safeParse(): driverId is a string, amount is finite
\* and not negative.
EventIsValid(q) ==
    /\ Body[q].driver = "string"
    /\ ~Overflows(Body[q].fare) /\ RedeemedAmount(Body[q].fare) >= 0

\* Mutant: $lte for $lt in the filter.
RedeemableAtCap(q) == Body[q].known /\ now[q] = 1 /\ (Cap = 0 \/ count <= Cap)

\* The filter of the conditional update, on the committed coupon.
Redeemable(q) == Body[q].known /\ now[q] = 1 /\ (Cap = 0 \/ count < Cap)

Answer(q, a) ==
    /\ answer' = [answer EXCEPT ![q] = a]
    /\ pc' = [pc EXCEPT ![q] = "done"]

-----------------------------------------------------------------------------
Tick == clock < 2 /\ clock' = clock + 1
        /\ UNCHANGED <<count, rows, pc, now, attempt, slot, answer, faults>>

\* The controller's checks, and the instant redeemCoupon() goes by.
Receive(q) ==
    /\ pc[q] = "start"
    /\ IF Body[q].driver = "missing" \/ ~Body[q].numeric
       THEN Answer(q, Error(400)) /\ UNCHANGED now
       ELSE /\ pc' = [pc EXCEPT ![q] = "claim"]
            /\ now' = [now EXCEPT ![q] = clock]
            /\ UNCHANGED answer
    /\ UNCHANGED <<clock, count, rows, attempt, slot, faults>>

\* Mutants: a read and a later write for the conditional update, and a count
\* that goes down.
ClaimStep(q, free, returned) ==
    /\ pc[q] = "claim"
    /\ attempt' = [attempt EXCEPT ![q] = @ + 1]
    /\ IF ~Redeemable(q) THEN Answer(q, Error(409)) /\ UNCHANGED slot
       ELSE /\ free
            /\ slot' = [slot EXCEPT ![q] = returned]
            /\ pc' = [pc EXCEPT ![q] = "insert"]
            /\ UNCHANGED answer
    /\ UNCHANGED <<clock, count, rows, now, faults>>
ClaimReadThenWrite(q) == ClaimStep(q, TRUE, count + 1)
ClaimDecrements(q) == ClaimStep(q, ~Locked, count - 1)

\* findOneAndUpdate(): no match is a 409; a match that another open
\* transaction has written is a conflict, and is tried again when it ended.
Claim(q) ==
    /\ pc[q] = "claim"
    /\ attempt' = [attempt EXCEPT ![q] = @ + 1]
    /\ IF ~Redeemable(q) THEN Answer(q, Error(409)) /\ UNCHANGED slot
       ELSE /\ ~Locked
            /\ slot' = [slot EXCEPT ![q] = count + 1]
            /\ pc' = [pc EXCEPT ![q] = "insert"]
            /\ UNCHANGED answer
    /\ UNCHANGED <<clock, count, rows, now, faults>>

\* Mutant: the callback's throw leaves its transaction open.
InsertLeaks(q) ==
    /\ pc[q] = "insert"
    /\ EventIsValid(q)
    /\ pc' = [pc EXCEPT ![q] = "commit"] /\ UNCHANGED answer
    /\ UNCHANGED <<clock, count, rows, now, attempt, slot, faults>>

\* The event is built and checked; Outbox.create() in the transaction.  A
\* throw of the callback aborts the transaction.
Insert(q) ==
    /\ pc[q] = "insert"
    /\ IF EventIsValid(q)
       THEN pc' = [pc EXCEPT ![q] = "commit"] /\ UNCHANGED answer
       ELSE Answer(q, Error(501))
    /\ UNCHANGED <<clock, count, rows, now, attempt, slot, faults>>

\* Mutant: the outbox row is written without { session } and lost.
DurableCountOnly(q) == count' = slot[q] /\ UNCHANGED rows

\* The coupon's new count and the outbox row, in one commit.
Durable(q) ==
    /\ count' = slot[q]
    /\ rows' = rows \cup {<<q, attempt[q]>>}

\* Mutant: the result of the first run of the callback is kept.
RedeemedFirst(q) == [status |-> 200, event |-> 1, slot |-> slot[q]]

Redeemed(q) == [status |-> 200, event |-> attempt[q], slot |-> slot[q]]

Commit(q) ==
    /\ pc[q] = "commit"
    /\ Durable(q)
    /\ Answer(q, Redeemed(q))
    /\ UNCHANGED <<clock, now, attempt, slot, faults>>

\* Mutant: a commit that was applied is taken for one rolled back.
TransientErrorApplied(q) ==
    /\ Fault
    /\ pc[q] = "commit"
    /\ Durable(q)
    /\ pc' = [pc EXCEPT ![q] = "claim"]
    /\ UNCHANGED <<clock, now, attempt, slot, answer>>

\* A transient error aborts the transaction: the driver runs the callback
\* again, or gives up after its deadline.
TransientError(q) ==
    /\ Fault
    /\ InTxn(q)
    /\ \/ pc' = [pc EXCEPT ![q] = "claim"] /\ UNCHANGED answer
       \/ Answer(q, Error(500))
    /\ UNCHANGED <<clock, count, rows, now, attempt, slot>>

\* The process dies, or the commit's result never comes: no 200, and the
\* transaction is aborted, or at the commit maybe applied.
Crash(q) ==
    /\ Fault
    /\ pc[q] \notin {"start", "done"}
    /\ pc' = [pc EXCEPT ![q] = "done"]
    /\ answer' \in {answer, [answer EXCEPT ![q] = Error(500)]}
    /\ \/ UNCHANGED <<count, rows>>
       \/ pc[q] = "commit" /\ Durable(q)
    /\ UNCHANGED <<clock, now, attempt, slot>>

-----------------------------------------------------------------------------
Redeem(q) == Receive(q) \/ Claim(q) \/ Insert(q) \/ Commit(q)

Next == Tick \/ \E q \in Requests : Redeem(q) \/ TransientError(q) \/ Crash(q)

Fairness == \A q \in Requests : WF_vars(Redeem(q))

Spec == Init /\ [][Next]_vars
FairSpec == Spec /\ Fairness

-----------------------------------------------------------------------------
(* Properties.                                                             *)

\* "Concurrent redemptions can't push redemptionsCount past the cap"
\* (couponService.js:22-23), through retries and unknown commits.
CapRespected == Cap > 0 => count <= Cap

\* The coupon counts exactly the events queued: the two writes never come
\* apart, and no update of the count is lost.
CountMatchesOutbox == count = Cardinality(rows)

\* A callback that ran several times queued one event at most.
OneEventPerRequest ==
    \A q \in Requests : Cardinality({r \in rows : r[1] = q}) <= 1

\* A 200 names the event that was committed, not one of an attempt that was
\* rolled back, and no two answers show the same count.
AnswersAreCommitted ==
    \A q \in Requests : answer[q].status = 200 =>
        /\ <<q, answer[q].event>> \in rows
        /\ \A p \in Requests \ {q} : answer[p].status = 200 =>
              answer[p].slot # answer[q].slot

\* Every request ends: the retries of a contended coupon do not starve one.
EveryRequestEnds == \A q \in Requests : pc[q] # "start" ~> pc[q] = "done"

\* The transaction implements the ledger.
Ledger == INSTANCE RedemptionLedger
            WITH redeemed <- {r[1] : r \in rows}, total <- count
ImplementsLedger == Ledger!Spec
=============================================================================
