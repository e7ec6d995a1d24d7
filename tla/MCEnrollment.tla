----------------------------- MODULE MCEnrollment ------------------------------
(* Values of the constants of the NodeEnrollment module for TLC. *)
EXTENDS NodeEnrollment

Tokens == 1..11
=============================================================================
