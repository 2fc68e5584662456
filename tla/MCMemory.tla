------------------------------ MODULE MCMemory ----------------------------
(* A small instance of Memory for TLC. *)
EXTENDS Memory

CONSTANTS p1, p2

MCDeltas == {-8, 4}

(***************************************************************************)
(* Which page is where does not matter: states that differ by a permutation *)
(* of the pages are one.  Pages stand in the view for what they hold, with *)
(* free ones in use told apart, and the number of pages in use tells one   *)
(* that is in two places.                                                  *)
(***************************************************************************)
Seen(g)  == IF g = 0 THEN -1 ELSE IF g \in free THEN -2 ELSE content[g]
Shape(t) == <<Seen(t.root), [n \in Nodes |-> Seen(t.node[n])], [v \in VPages |-> Seen(t.leaf[v])], t.perm>>

PageView == <<sz, state, pc, at, nsz, child, Cardinality(free), Cardinality({PageAt(h) : h \in Held}),
              [p \in Procs |-> <<Shape(pt[p]), Shape(npt[p]), Seen(trapframe[p]), Seen(arg[p])>>]>>
=============================================================================
