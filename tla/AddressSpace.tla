--------------------------- MODULE AddressSpace ---------------------------
(***************************************************************************)
(* What the memory calls of xv6 promise a process: memory of its own.  New *)
(* pages are zero, only the process itself changes them, a child starts    *)
(* with a copy of its parent's, and exec puts the program's image there,   *)
(* or leaves everything as it was.                                         *)
(***************************************************************************)
CONSTANTS Procs, Pages, Values, Zero, Absent,
          Image      \* the set of memories a new program may start with

VARIABLE mem    \* mem[p][v]: page v of process p

Nothing == [v \in Pages |-> Absent]

Init == mem = [p \in Procs |-> Nothing]

Store(p, v, x) ==
  /\ mem[p][v] # Absent
  /\ mem' = [mem EXCEPT ![p][v] = x]

\* The pages of V come, or those of V go.
Grow(p, V)   == mem' = [mem EXCEPT ![p] = [v \in Pages |-> IF v \in V THEN Zero ELSE mem[p][v]]]
Shrink(p, V) == mem' = [mem EXCEPT ![p] = [v \in Pages |-> IF v \in V THEN Absent ELSE mem[p][v]]]

Fork(p, q) ==
  /\ mem[q] = Nothing
  /\ mem' = [mem EXCEPT ![q] = mem[p]]

Exec(p) == \E m \in Image : mem' = [mem EXCEPT ![p] = m]
Exit(p) == mem' = [mem EXCEPT ![p] = Nothing]

Next ==
  \E p \in Procs :
    \/ \E v \in Pages, x \in Values : Store(p, v, x)
    \/ \E V \in SUBSET {v \in Pages : mem[p][v] = Absent} : Grow(p, V)
    \/ \E V \in SUBSET Pages : Shrink(p, V)
    \/ \E q \in Procs : Fork(p, q)
    \/ Exec(p) \/ Exit(p)

Spec == Init /\ [][Next]_mem
=============================================================================
