------------------------------ MODULE MCPipe ------------------------------
(* A small instance of Pipe for TLC. *)
EXTENDS Pipe, TLC

CONSTANTS p1, p2, p3, none

Symmetry == Permutations(Procs)
=============================================================================
