------------------------------ MODULE MCABTest ------------------------------
(* Instances of ABTest: two tests, one parameter that may not be tested. *)
EXTENDS ABTest

CONSTANTS c1, c2, t1, t2, temperature, auth_mode, keep, adopt
=============================================================================
