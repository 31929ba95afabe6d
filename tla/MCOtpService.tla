---------------------------- MODULE MCOtpService ----------------------------
(* Small instances of OtpService for TLC. *)
EXTENDS OtpService, TLC

CONSTANT p1, p2, p3

RequestSymmetry == Permutations(Requests)
=============================================================================
