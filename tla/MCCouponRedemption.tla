------------------------- MODULE MCCouponRedemption -------------------------
(* Small instances of CouponRedemption for TLC. *)
EXTENDS CouponRedemption, TLC

CONSTANT q1, q2, q3, q4

\* Drivers with good requests of 10.005, and a fare below zero, which typeof
\* fareAmount === "number" lets through.
GoodBody == [known |-> TRUE, driver |-> "string",
             numeric |-> TRUE, fare |-> 10005]
MixedBodies == [q \in Requests |->
    IF q = q4 THEN [GoodBody EXCEPT !.fare = -10005] ELSE GoodBody]
=============================================================================
