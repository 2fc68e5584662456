----------------------------- MODULE ByteQueue -----------------------------
(***************************************************************************)
(* What xv6/kernel/pipe.c promises: a bounded queue of bytes.              *)
(***************************************************************************)
EXTENDS Naturals, Sequences

CONSTANTS Byte, Size

VARIABLES queue,   \* bytes written and not yet read
          got      \* the byte delivered last

Init == queue = <<>> /\ got \in Byte

Put(b) == Len(queue) < Size /\ queue' = Append(queue, b) /\ UNCHANGED got

Get == queue # <<>> /\ got' = Head(queue) /\ queue' = Tail(queue)

\* A new pipe.
Clear == queue' = <<>> /\ UNCHANGED got

Next == Get \/ Clear \/ \E b \in Byte : Put(b)

Spec == Init /\ [][Next]_<<queue, got>>
=============================================================================
