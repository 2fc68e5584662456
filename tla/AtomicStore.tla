---------------------------- MODULE AtomicStore ----------------------------
(***************************************************************************)
(* What xv6/kernel/log.c promises the file system: blocks are updated in   *)
(* memory by operations, the updates of operations that have all ended     *)
(* become durable together, and a crash loses what is not durable.         *)
(***************************************************************************)
CONSTANTS Procs, Blocks, Val

VARIABLES durable,   \* what recovery after a crash would yield
          current,   \* what bread() returns
          active     \* the processes between begin_op() and end_op()

Init ==
  /\ durable \in [Blocks -> Val]
  /\ current = durable
  /\ active = {}

Begin(p) ==
  /\ p \notin active
  /\ active' = active \cup {p}
  /\ UNCHANGED <<durable, current>>

Update(p, b, v) ==
  /\ p \in active
  /\ current' = [current EXCEPT ![b] = v]
  /\ UNCHANGED <<durable, active>>

End(p) ==
  /\ p \in active
  /\ active' = active \ {p}
  /\ UNCHANGED <<durable, current>>

\* All or nothing, and never with an operation half done.
Commit ==
  /\ active = {}
  /\ durable' = current
  /\ UNCHANGED <<current, active>>

Crash ==
  /\ current' = durable
  /\ active' = {}
  /\ UNCHANGED durable

Next ==
  \/ \E p \in Procs : Begin(p) \/ End(p) \/ \E b \in Blocks, v \in Val : Update(p, b, v)
  \/ Commit
  \/ Crash

Spec == Init /\ [][Next]_<<durable, current, active>>
=============================================================================
