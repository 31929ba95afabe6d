-------------------------- MODULE MCPassengerAuth --------------------------
(* A small instance of PassengerAuth for TLC. *)
EXTENDS PassengerAuth, TLC

CONSTANTS in1, in2, form1, form2, out1, check1, check2, phone1, phone2

\* One form and one login come from each of two devices.
TwoDevices == (in1 :> phone1) @@ (in2 :> phone2)
           @@ (form1 :> phone1) @@ (form2 :> phone2)

\* The two verifications are alike.
Checks == Permutations({check1, check2})
=============================================================================
