-------------------------- MODULE RedemptionLedger --------------------------
(***************************************************************************)
(* What redeeming a coupon promises: a ledger of redemptions, one atomic   *)
(* entry per request, never more than the cap, whose size is the count the *)
(* coupon shows.                                                           *)
(***************************************************************************)
EXTENDS Naturals, FiniteSets

CONSTANTS Requests, Cap        \* 0: no cap

VARIABLES redeemed,            \* requests that redeemed the coupon
          total                \* redemptions the coupon counts

Init == redeemed = {} /\ total = 0

Redeem(q) == /\ q \notin redeemed
             /\ Cap = 0 \/ total < Cap
             /\ redeemed' = redeemed \cup {q}
             /\ total' = total + 1

Next == \E q \in Requests : Redeem(q)

Spec == Init /\ [][Next]_<<redeemed, total>>
=============================================================================
