------------------------- MODULE MCRegistrationFlow -------------------------
(* A small instance of RegistrationFlow for TLC. *)
EXTENDS RegistrationFlow, TLC

CONSTANTS p1, p2, r1, upper, lower, other

\* One address in two spellings, and another one.
TwoSpellings == (upper :> lower) @@ (lower :> lower) @@ (other :> other)
=============================================================================
