----------------------- MODULE CouponRedemptionProofs -----------------------
(***************************************************************************)
(* Proofs about CouponRedemption for any requests, cap, coupon and number  *)
(* of faults: the cap is respected, the count is the number of rows in the *)
(* outbox, a 200 names a row and a slot of its own, redeemCoupon()         *)
(* implements the ledger of redemptions, the amount is within the fare but *)
(* for rounding, and the error of the event's schema meets bad input only. *)
(***************************************************************************)
EXTENDS CouponRedemption, FiniteSetTheorems, TLAPS

\* Every response is of the one type.
LEMMA AnswerTypes ==
    /\ \A s \in {0, 400, 409, 500, 501} : Error(s) \in Answers
    /\ NoAnswer \in Answers
    /\ TypeOK => \A q \in Requests : Redeemed(q) \in Answers
  BY DEF Answers, Error, NoAnswer, Redeemed, TypeOK

\* Every step keeps the types.
LEMMA TypeStep == TypeOK /\ [Next]_vars => TypeOK'
<1> SUFFICES ASSUME TypeOK, [Next]_vars PROVE TypeOK'
  OBVIOUS
<1> USE AnswerTypes DEF TypeOK, Steps
<1>1. CASE Tick
  BY <1>1 DEF Tick
<1>2. ASSUME NEW q \in Requests, Redeem(q) PROVE TypeOK'
  <2>1. CASE Receive(q)
    BY <2>1 DEF Receive, Answer
  <2>2. CASE Claim(q)
    BY <2>2 DEF Claim, Answer
  <2>3. CASE Insert(q)
    BY <2>3 DEF Insert, Answer
  <2>4. CASE Commit(q)
    BY <2>4 DEF Commit, Durable, Answer
  <2> QED
    BY <1>2, <2>1, <2>2, <2>3, <2>4 DEF Redeem
<1>3. ASSUME NEW q \in Requests, TransientError(q) PROVE TypeOK'
  BY <1>3, BoundAssumption DEF TransientError, Fault, Answer
<1>4. ASSUME NEW q \in Requests, Crash(q) PROVE TypeOK'
  <2>1. faults' \in 0..MaxFaults
    BY <1>4, BoundAssumption DEF Crash, Fault
  <2>2. count' \in Nat /\ rows' \subseteq Requests \X Nat
    BY <1>4 DEF Crash, Durable
  <2>3. answer' \in [Requests -> Answers]
    BY <1>4 DEF Crash
  <2> QED
    BY <1>4, <2>1, <2>2, <2>3, ZenonT(30) DEF Crash
<1>5. CASE UNCHANGED vars
  BY <1>5 DEF vars
<1> QED
  BY <1>1, <1>2, <1>3, <1>4, <1>5 DEF Next

\* Type correctness of every reachable state.
THEOREM TypeCorrect == Spec => []TypeOK
<1>1. Init => TypeOK
  BY BoundAssumption, AnswerTypes DEF Init, TypeOK, Steps
<1> QED
  BY <1>1, TypeStep, PTL DEF Spec

-----------------------------------------------------------------------------
\* One transaction at a time has the coupon written, on the latest count.
SlotsAreFresh ==
    /\ \A p, q \in Requests : InTxn(p) /\ InTxn(q) => p = q
    /\ \A q \in Requests : InTxn(q) =>
          slot[q] = count + 1 /\ (Cap = 0 \/ slot[q] <= Cap)

\* A request whose row is in the outbox is over: it cannot write another.
RowsAreDone == \A r \in rows : pc[r[1]] = "done"

\* The cap is respected because an open transaction, of which there is one at
\* most, holds the successor of the committed count.
Inv == TypeOK /\ SlotsAreFresh /\ RowsAreDone /\ CapRespected

LEMMA InvStep == Inv /\ [Next]_vars => Inv'
<1> SUFFICES ASSUME Inv, [Next]_vars
             PROVE  SlotsAreFresh' /\ RowsAreDone' /\ CapRespected'
  BY TypeStep DEF Inv
<1>0. TypeOK /\ TypeOK'
  BY TypeStep DEF Inv
<1> USE DEF Inv, SlotsAreFresh, RowsAreDone, CapRespected, InTxn
<1>1. ASSUME Tick \/ UNCHANGED vars
      PROVE  SlotsAreFresh' /\ RowsAreDone' /\ CapRespected'
  BY <1>1 DEF Tick, vars
<1>2. ASSUME NEW q \in Requests, Receive(q) \/ Insert(q) \/ TransientError(q)
      PROVE  SlotsAreFresh' /\ RowsAreDone' /\ CapRespected'
  <2>1. UNCHANGED <<count, rows, slot>>
    BY <1>2 DEF Receive, Insert, TransientError
  <2>2. /\ pc[q] # "done"
        /\ pc'[q] \in {"claim", "commit", "done"}
        /\ pc'[q] = "commit" => InTxn(q)
        /\ \A p \in Requests \ {q} : pc'[p] = pc[p]
    BY <1>0, <1>2 DEF TypeOK, Receive, Insert, TransientError, Answer
  <2>3. \A p \in Requests : InTxn(p)' => InTxn(p)
    BY <2>2
  <2>4. \A r \in rows : r[1] \in Requests /\ r[1] # q
    BY <1>0, <2>2 DEF TypeOK
  <2> QED
    BY <1>0, <2>1, <2>2, <2>3, <2>4 DEF TypeOK
<1>3. ASSUME NEW q \in Requests, Claim(q)
      PROVE  SlotsAreFresh' /\ RowsAreDone' /\ CapRespected'
  <2>1. UNCHANGED <<count, rows>> /\ pc[q] = "claim"
    BY <1>3 DEF Claim
  <2>2. \A p \in Requests \ {q} : pc'[p] = pc[p] /\ slot'[p] = slot[p]
    BY <1>0, <1>3 DEF TypeOK, Claim, Answer
  <2>3. \A r \in rows : r[1] \in Requests /\ r[1] # q
    BY <1>0, <2>1 DEF TypeOK
  <2>4. CASE pc'[q] = "done"
    BY <1>0, <2>1, <2>2, <2>3, <2>4 DEF TypeOK
  <2>5. CASE pc'[q] # "done"
    <3>1. /\ Redeemable(q) /\ ~Locked
          /\ slot'[q] = count + 1
      BY <1>0, <1>3, <2>5 DEF TypeOK, Claim, Answer
    <3>2. \A p \in Requests : InTxn(p)' => p = q
      BY <2>2, <3>1 DEF Locked
    <3>3. Cap = 0 \/ slot'[q] <= Cap
      BY <1>0, <3>1, CouponAssumption DEF Redeemable, TypeOK
    <3> QED
      BY <1>0, <2>1, <2>2, <2>3, <3>1, <3>2, <3>3 DEF TypeOK
  <2> QED
    BY <2>4, <2>5
<1>4. ASSUME NEW q \in Requests, Commit(q) \/ Crash(q)
      PROVE  SlotsAreFresh' /\ RowsAreDone' /\ CapRespected'
  <2>1. /\ pc'[q] = "done" /\ UNCHANGED slot
        /\ \A p \in Requests \ {q} : pc'[p] = pc[p]
    BY <1>0, <1>4 DEF TypeOK, Commit, Crash, Answer
  <2>2. CASE UNCHANGED <<count, rows>>
    BY <1>0, <2>1, <2>2 DEF TypeOK
  <2>3. CASE pc[q] = "commit" /\ Durable(q)
    <3>1. \A p \in Requests : ~InTxn(p)'
      BY <2>1, <2>3
    <3>2. count' = slot[q] /\ (Cap = 0 \/ slot[q] <= Cap)
      BY <2>3 DEF Durable
    <3>3. rows' = rows \cup {<<q, attempt[q]>>}
      BY <2>3 DEF Durable
    <3>4. RowsAreDone'
      BY <1>0, <2>1, <3>3 DEF TypeOK
    <3> QED
      BY <1>0, <3>1, <3>2, <3>4, CouponAssumption DEF TypeOK
  <2> QED
    BY <1>4, <2>2, <2>3 DEF Commit, Crash
<1> QED
  BY <1>1, <1>2, <1>3, <1>4 DEF Next, Redeem

LEMMA InvHolds == Spec => []Inv
<1>1. Init => Inv
  <2>1. Init => TypeOK
    BY BoundAssumption, AnswerTypes DEF Init, TypeOK, Steps
  <2>2. Init => SlotsAreFresh /\ RowsAreDone /\ CapRespected
    BY CouponAssumption DEF Init, SlotsAreFresh, RowsAreDone, CapRespected, InTxn
  <2> QED
    BY <2>1, <2>2 DEF Inv
<1> QED
  BY <1>1, InvStep, PTL DEF Spec

\* However redemptions, retries and crashes interleave, the count stays
\* within maxRedemptionsTotal.
THEOREM CapHolds == Spec => []CapRespected
<1>1. Inv => CapRespected
  BY DEF Inv
<1> QED
  BY <1>1, InvHolds, PTL

-----------------------------------------------------------------------------
\* What the outbox rows and the answers say of the count: a row is of a
\* request that committed it, once, and a 200 names that row and a slot which
\* the count has reached.
RowsCounted == IsFiniteSet(rows) /\ count = Cardinality(rows)

RowsAreOnce == \A r, s \in rows : r[1] = s[1] => r = s

AnswersNameRows ==
    \A q \in Requests : answer[q].status = 200 =>
        /\ pc[q] = "done"
        /\ <<q, answer[q].event>> \in rows
        /\ answer[q].slot <= count

SlotsApart ==
    \A p, q \in Requests :
        p # q /\ answer[p].status = 200 /\ answer[q].status = 200 =>
            answer[p].slot # answer[q].slot

RowsInv == RowsCounted /\ RowsAreOnce /\ AnswersNameRows /\ SlotsApart

\* A step leaves the count and the rows alone and answers no 200, or it is a
\* commit, answered with 200 or without.
Kept == /\ UNCHANGED <<count, rows>>
        /\ \A p \in Requests :
              /\ answer'[p].status = 200 => answer'[p] = answer[p]
              /\ pc[p] = "done" => pc'[p] = "done"

Committed(q) ==
    /\ pc[q] = "commit" /\ Durable(q) /\ pc'[q] = "done"
    /\ \A p \in Requests \ {q} : answer'[p] = answer[p] /\ pc'[p] = pc[p]
    /\ answer'[q].status = 200 => answer'[q] = Redeemed(q)

LEMMA RowShapes ==
    ASSUME TypeOK, AnswersNameRows, [Next]_vars
    PROVE  Kept \/ \E q \in Requests : Committed(q)
<1>1. ASSUME Tick \/ UNCHANGED vars PROVE Kept
  BY <1>1 DEF Tick, vars, Kept
<1>2. ASSUME NEW q \in Requests, Receive(q) \/ Claim(q) \/ Insert(q) \/ TransientError(q)
      PROVE  Kept
  <2>1. UNCHANGED <<count, rows>> /\ pc[q] # "done"
    BY <1>2 DEF Receive, Claim, Insert, TransientError, InTxn
  <2>2. /\ \A p \in Requests \ {q} : answer'[p] = answer[p] /\ pc'[p] = pc[p]
        /\ answer'[q] = answer[q] \/ answer'[q].status # 200
    BY <1>2 DEF TypeOK, Answers, Error, Answer, Receive, Claim, Insert, TransientError
  <2> QED
    BY <2>1, <2>2 DEF Kept
<1>3. ASSUME NEW q \in Requests, Commit(q) PROVE Committed(q)
  BY <1>3 DEF TypeOK, Answers, Answer, Commit, Committed
<1>4. ASSUME NEW q \in Requests, Crash(q) PROVE Kept \/ Committed(q)
  <2>1. pc[q] # "done" /\ answer[q].status # 200
    BY <1>4 DEF Crash, AnswersNameRows
  <2>2. /\ pc'[q] = "done" /\ answer'[q].status # 200
        /\ \A p \in Requests \ {q} : answer'[p] = answer[p] /\ pc'[p] = pc[p]
    BY <1>4, <2>1 DEF TypeOK, Answers, Error, Crash
  <2>3. CASE UNCHANGED <<count, rows>>
    BY <2>1, <2>2, <2>3 DEF Kept
  <2>4. CASE pc[q] = "commit" /\ Durable(q)
    BY <2>2, <2>4 DEF Committed
  <2> QED
    BY <1>4, <2>3, <2>4 DEF Crash
<1> QED
  BY <1>1, <1>2, <1>3, <1>4 DEF Next, Redeem

LEMMA RowsStep == Inv /\ RowsInv /\ [Next]_vars => RowsInv'
<1> SUFFICES ASSUME Inv, RowsInv, [Next]_vars PROVE RowsInv'
  OBVIOUS
<1>0. TypeOK /\ TypeOK'
  BY TypeStep DEF Inv
<1>1. CASE Kept
  BY <1>1 DEF Kept, RowsInv, RowsCounted, RowsAreOnce, AnswersNameRows, SlotsApart
<1>2. ASSUME NEW q \in Requests, Committed(q) PROVE RowsInv'
  <2> DEFINE row == <<q, attempt[q]>>
  <2>1. rows' = rows \cup {row} /\ count' = slot[q] /\ slot[q] = count + 1
    BY <1>2 DEF Committed, Durable, Inv, SlotsAreFresh, InTxn
  <2>2. \A r \in rows : r[1] # q
    BY <1>2 DEF Committed, Inv, RowsAreDone
  <2>3. row \notin rows /\ row[1] = q
    BY <2>2
  <2>4. RowsCounted'
    BY <2>1, <2>3, FS_AddElement DEF RowsInv, RowsCounted
  <2>5. RowsAreOnce'
    BY <2>1, <2>2, <2>3 DEF RowsInv, RowsAreOnce
  <2>6. count \in Nat /\ count' = count + 1
    BY <1>0, <2>1 DEF TypeOK
  <2>7. answer'[q].status = 200 =>
           <<q, answer'[q].event>> \in rows' /\ answer'[q].slot = count'
    BY <1>2, <2>1 DEF Committed, Redeemed
  <2>8. \A p \in Requests \ {q} : answer'[p].status = 200 =>
           /\ pc'[p] = "done" /\ <<p, answer'[p].event>> \in rows'
           /\ answer'[p].slot <= count /\ answer'[p].slot \in Nat
    BY <1>0, <1>2, <2>1 DEF Committed, RowsInv, AnswersNameRows, TypeOK, Answers
  <2>9. AnswersNameRows'
    <3>1. pc'[q] = "done"
      BY <1>2 DEF Committed
    <3> QED
      BY <2>6, <2>7, <2>8, <3>1 DEF AnswersNameRows
  <2>10. SlotsApart'
    <3>1. \A p \in Requests \ {q} : answer'[p] = answer[p]
      BY <1>2 DEF Committed
    <3>2. SUFFICES ASSUME NEW p \in Requests, NEW o \in Requests, p # o,
                          answer'[p].status = 200, answer'[o].status = 200
                   PROVE  answer'[p].slot # answer'[o].slot
      BY DEF SlotsApart
    <3>3. CASE p = q
      <4>1. answer'[p].slot = count + 1
        BY <2>6, <2>7, <3>2, <3>3
      <4>2. answer'[o].slot <= count /\ answer'[o].slot \in Nat
        BY <2>8, <3>2, <3>3
      <4> QED
        BY <2>6, <4>1, <4>2
    <3>4. CASE o = q
      <4>1. answer'[o].slot = count + 1
        BY <2>6, <2>7, <3>2, <3>4
      <4>2. answer'[p].slot <= count /\ answer'[p].slot \in Nat
        BY <2>8, <3>2, <3>4
      <4> QED
        BY <2>6, <4>1, <4>2
    <3>5. CASE p # q /\ o # q
      BY <3>1, <3>2, <3>5 DEF SlotsApart, RowsInv
    <3> QED
      BY <3>3, <3>4, <3>5
  <2> QED
    BY <2>4, <2>5, <2>9, <2>10 DEF RowsInv
<1> QED
  BY <1>0, <1>1, <1>2, RowShapes DEF RowsInv

LEMMA RowsHold == Spec => []RowsInv
<1>1. Init => RowsInv
  BY FS_EmptySet DEF Init, RowsInv, RowsCounted, RowsAreOnce, AnswersNameRows,
     SlotsApart, NoAnswer, Error
<1> QED
  BY <1>1, RowsStep, InvHolds, PTL DEF Spec

\* The coupon's count and the outbox never come apart.
THEOREM CountMatches == Spec => []CountMatchesOutbox
<1>1. RowsInv => CountMatchesOutbox
  BY DEF RowsInv, RowsCounted, CountMatchesOutbox
<1> QED
  BY <1>1, RowsHold, PTL

\* A request, however often its callback ran, queued one event at most.
THEOREM OneEvent == Spec => []OneEventPerRequest
<1>1. RowsInv => OneEventPerRequest
  <2> SUFFICES ASSUME RowsInv, NEW q \in Requests
               PROVE  Cardinality({r \in rows : r[1] = q}) <= 1
    BY DEF OneEventPerRequest
  <2> DEFINE own == {r \in rows : r[1] = q}
  <2>1. CASE own = {}
    BY <2>1, FS_EmptySet
  <2>2. CASE own # {}
    <3>1. PICK r \in own : TRUE
      BY <2>2
    <3>2. own = {r}
      BY <3>1 DEF RowsInv, RowsAreOnce
    <3> QED
      BY <3>2, FS_Singleton
  <2> QED
    BY <2>1, <2>2
<1> QED
  BY <1>1, RowsHold, PTL

\* A 200 names a committed event, and a slot of its own.
THEOREM AnswersHold == Spec => []AnswersAreCommitted
<1>1. RowsInv => AnswersAreCommitted
  BY DEF RowsInv, AnswersNameRows, SlotsApart, AnswersAreCommitted
<1> QED
  BY <1>1, RowsHold, PTL

-----------------------------------------------------------------------------
\* A commit is an entry of the ledger; every other step leaves it alone.
LEMMA LedgerStep == Inv /\ [Next]_vars =>
                    [Ledger!Next]_<<{r[1] : r \in rows}, count>>
<1> SUFFICES ASSUME Inv, [Next]_vars
             PROVE  UNCHANGED <<rows, count>> \/ Ledger!Next
  OBVIOUS
<1>1. ASSUME NEW q \in Requests, pc[q] = "commit", Durable(q)
      PROVE  Ledger!Redeem(q)
  <2>1. TypeOK /\ InTxn(q)
    BY <1>1 DEF Inv, InTxn
  <2>2. slot[q] = count + 1 /\ (Cap = 0 \/ count < Cap)
    BY <2>1, CouponAssumption DEF Inv, SlotsAreFresh, TypeOK
  <2>3. q \notin {r[1] : r \in rows}
    BY <1>1 DEF Inv, RowsAreDone
  <2>4. {r[1] : r \in rows'} = {r[1] : r \in rows} \cup {q}
    <3>1. rows' = rows \cup {<<q, attempt[q]>>}
      BY <1>1 DEF Durable
    <3> DEFINE R(S) == {r[1] : r \in S}
    <3>2. R(rows') = R(rows) \cup R({<<q, attempt[q]>>})
      BY <3>1
    <3>3. R({<<q, attempt[q]>>}) = {q}
      OBVIOUS
    <3> QED
      BY <3>2, <3>3
  <2> QED
    BY <1>1, <2>2, <2>3, <2>4 DEF Durable, Ledger!Redeem
<1>2. ASSUME NEW q \in Requests, Redeem(q) \/ TransientError(q) \/ Crash(q)
      PROVE  UNCHANGED <<rows, count>> \/ (pc[q] = "commit" /\ Durable(q))
  BY <1>2 DEF Redeem, Receive, Claim, Insert, Commit, TransientError, Crash
<1>3. CASE Tick \/ UNCHANGED vars
  BY <1>3 DEF Tick, vars
<1> QED
  BY <1>1, <1>2, <1>3 DEF Next, Ledger!Next

\* redeemCoupon() with its retries implements the atomic ledger.
THEOREM LedgerImplemented == Spec => ImplementsLedger
<1>1. Init => Ledger!Init
  BY DEF Init, Ledger!Init
<1> QED
  BY <1>1, InvHolds, LedgerStep, PTL DEF Spec, ImplementsLedger, Ledger!Spec

-----------------------------------------------------------------------------
(* What is redeemed, and whom the schema error meets.                      *)

\* A fare that is not negative gives an amount that is not negative, and a
\* percentage up to 100 takes at most half a hundredth more than the fare: 100%
\* of 0.005 is 0.01 (computeRedeemedAmount(), couponService.js:11-14).
THEOREM AmountInRange ==
    ASSUME NEW fare \in Nat
    PROVE  /\ RedeemedAmount(fare) \in Nat
           /\ Type = "percent" /\ Value <= 100 * Unit
                 => 2 * RedeemedAmount(fare) <= 200 * fare + Unit
<1>1. Value \in Nat /\ Unit \in Nat \ {0} /\ Value * fare \in Nat
  BY CouponAssumption
<1>2. CASE Type = "flat"
  BY <1>1, <1>2 DEF RedeemedAmount
<1>3. CASE Type = "percent"
  <2> DEFINE part == Value * fare
             square == Unit * Unit
             hundredths == (2 * part + square) \div (2 * square)
  <2>1. 2 * Value * fare = 2 * part /\ 2 * Unit * Unit = 2 * square
    BY <1>1
  <2>2. RedeemedAmount(fare) = Unit * hundredths
    BY <1>3, <2>1 DEF RedeemedAmount
  <2>3. part \in Nat /\ square \in Nat \ {0}
    BY <1>1
  <2>4. Value <= 100 * Unit => part <= 100 * Unit * fare
    BY <1>1
  <2> HIDE DEF part, square
  <2>5. hundredths \in Nat /\ hundredths * (2 * square) <= 2 * part + square
    BY <2>3
  <2> HIDE DEF hundredths
  <2>6. Unit * hundredths \in Nat
    BY <1>1, <2>5
  <2>7. ASSUME Value <= 100 * Unit PROVE 2 * (Unit * hundredths) <= 200 * fare + Unit
    <3>1. hundredths * (2 * square) = Unit * (2 * (Unit * hundredths))
      BY <1>1, <2>5 DEF square
    <3>2. 2 * part + square <= Unit * (200 * fare + Unit)
      BY <1>1, <2>3, <2>4, <2>7 DEF square
    <3>3. Unit * (2 * (Unit * hundredths)) <= Unit * (200 * fare + Unit)
      BY <1>1, <2>3, <2>5, <3>1, <3>2
    <3>4. \A m, n \in Nat : Unit * m <= Unit * n => m <= n
      BY <1>1
    <3> QED
      BY <1>1, <2>6, <3>3, <3>4
  <2> QED
    BY <2>2, <2>6, <2>7
<1> QED
  BY <1>2, <1>3, CouponAssumption

\* A driverId that is a string, and a fareAmount that is not negative nor so
\* large that the percentage overflows.
SoundInput(q) ==
    Body[q].driver = "string" /\ Body[q].fare >= 0 /\ ~Overflows(Body[q].fare)

\* The answer whose code is EVENT_SCHEMA_VIOLATION goes to other input only,
\* and every event in the outbox passes its schema.
SchemaErrorsNeedBadInput ==
    \A q \in Requests : answer[q].status = 501 => ~SoundInput(q)
RowsAreValid == \A r \in rows : EventIsValid(r[1])

\* A transaction that is about to commit has checked its event.
SchemaInv ==
    /\ SchemaErrorsNeedBadInput /\ RowsAreValid
    /\ \A q \in Requests : pc[q] = "commit" => EventIsValid(q)

LEMMA SoundIsValid == ASSUME NEW q \in Requests, SoundInput(q) PROVE EventIsValid(q)
<1>1. Body[q].fare \in Nat
  BY BodyAssumption DEF SoundInput, Bodies
<1> QED
  BY <1>1, AmountInRange DEF EventIsValid, SoundInput

LEMMA SchemaStep == TypeOK /\ SchemaInv /\ [Next]_vars => SchemaInv'
<1> SUFFICES ASSUME TypeOK, SchemaInv, [Next]_vars PROVE SchemaInv'
  OBVIOUS
<1> USE DEF SchemaInv, SchemaErrorsNeedBadInput, RowsAreValid, EventIsValid
<1>1. CASE Tick \/ UNCHANGED vars
  BY <1>1 DEF Tick, vars
<1>2. ASSUME NEW q \in Requests,
             \/ UNCHANGED rows
             \/ rows' = rows \cup {<<q, attempt[q]>>} /\ pc[q] = "commit",
             \A p \in Requests \ {q} : pc'[p] = pc[p] /\ answer'[p] = answer[p],
             answer'[q].status = 501 => answer[q].status = 501 \/ ~EventIsValid(q),
             pc'[q] = "commit" => EventIsValid(q)
      PROVE  SchemaInv'
  <2>1. RowsAreValid'
    BY <1>2
  <2>2. SchemaErrorsNeedBadInput'
    BY <1>2, SoundIsValid
  <2> QED
    BY <1>2, <2>1, <2>2
<1>3. ASSUME NEW q \in Requests, Redeem(q) \/ TransientError(q) \/ Crash(q)
      PROVE  SchemaInv'
  <2> USE DEF TypeOK, Answers, Answer, Error
  <2>1. CASE Receive(q)
    BY <1>2, <2>1 DEF Receive
  <2>2. CASE Claim(q)
    BY <1>2, <2>2 DEF Claim
  <2>3. CASE Insert(q)
    BY <1>2, <2>3 DEF Insert
  <2>4. CASE Commit(q)
    BY <1>2, <2>4 DEF Commit, Durable, Redeemed
  <2>5. CASE TransientError(q)
    BY <1>2, <2>5 DEF TransientError
  <2>6. CASE Crash(q)
    BY <1>2, <2>6 DEF Crash, Durable
  <2> QED
    BY <1>3, <2>1, <2>2, <2>3, <2>4, <2>5, <2>6 DEF Redeem
<1> QED
  BY <1>1, <1>3 DEF Next

\* The branch of couponService.js:62-68, "should be unreachable", is entered by
\* a request whose driverId is no string or whose fare is negative or overflows,
\* and by no other, whatever the coupon, the retries and the faults; and what it
\* lets through to the outbox passes the schema.
THEOREM SchemaErrorIsInput == Spec => [](SchemaErrorsNeedBadInput /\ RowsAreValid)
<1>1. Init => SchemaInv
  BY DEF Init, SchemaInv, SchemaErrorsNeedBadInput, RowsAreValid, NoAnswer, Error
<1>2. SchemaInv => SchemaErrorsNeedBadInput /\ RowsAreValid
  BY DEF SchemaInv
<1>3. Spec => []TypeOK
  BY TypeCorrect
<1> QED
  BY <1>1, <1>2, <1>3, SchemaStep, PTL DEF Spec
=============================================================================
