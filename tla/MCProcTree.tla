---------------------------- MODULE MCProcTree ----------------------------
(* Small instances of ProcTree for TLC. *)
EXTENDS ProcTree
=============================================================================
