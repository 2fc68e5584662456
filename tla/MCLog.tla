------------------------------- MODULE MCLog -------------------------------
(* A small instance of Log for TLC. *)
EXTENDS Log

CONSTANTS p1, p2, b1, b2, none
=============================================================================
