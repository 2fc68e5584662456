--------------------------- MODULE MCBufferCache --------------------------
(* A small instance of BufferCache for TLC. *)
EXTENDS BufferCache, TLC

CONSTANTS p1, p2, p3, none, b1, b2, b3, null, n1, n2, n3, n4, noblock

Symmetry == Permutations(Procs) \cup Permutations(Bufs)

\* States up to the names of the blocks: a block is known by the buffers that hold it, by
\* whether the disk has its contents and whether it is pinned.
Known(n) == IF n = NoBlock THEN <<>> ELSE <<Cached(n), stored[n], n \in pinned>>

BlockView ==
  << free, desc, [i \in Desc |-> <<ops[i].write, Known(ops[i].sector)>>], info, rings,
     [b \in Bufs |-> Known(blockno[b])], bdisk, fresh, asleep, locals, valid, refcnt, locked,
     [s \in {0, 1} |->
        Cardinality({n \in Blocks : Cached(n) = {} /\ stored[n] = s /\ n \in pinned})],
     Cardinality({n \in Blocks : Cached(n) = {} /\ stored[n] = 0}) >>
=============================================================================
