---------------------------- MODULE VirtioDisk ----------------------------
(***************************************************************************)
(* The disk driver xv6/kernel/virtio_disk.c with the device behind it:     *)
(* descriptors, requests, completions, the interrupt and its handler.      *)
(* The processes that call virtio_disk_rw() are those of BufferCache,      *)
(* which extends this module and puts the actions together.                *)
(*                                                                         *)
(* disk.vdisk_lock is held from one sleep() to the next, so a stretch of   *)
(* virtio_disk_rw() between two of them is one step.  The interrupt        *)
(* handler holds the lock too, but takes a step per used entry, because    *)
(* the device goes on while it runs.  sleep() and wakeup() are those       *)
(* established in Scheduler: no wakeup falls between test and sleep.       *)
(*                                                                         *)
(* The avail ring is the set of requests the device has not finished, in   *)
(* whatever order it does that; the part of the used ring between          *)
(* disk.used_idx and disk.used->idx is a queue.  Of the contents of a      *)
(* block only this is kept: does a copy have the latest changes?           *)
(***************************************************************************)
EXTENDS Integers, Sequences, FiniteSets, FiniteSetsExt

CONSTANTS Procs, Bufs, NoBuf, Blocks, NoBlock,
          NUM      \* descriptors

ASSUME DiskAssumption ==
  /\ NUM \in Nat /\ NUM >= 3
  /\ NoBuf \notin Bufs /\ NoBlock \notin Blocks

VARIABLES
  free,                \* the i with disk.free[i] = 1
  desc,                \* addr and next of each descriptor
  ops,                 \* command header in the first descriptor of a request
  info,                \* info[i].b
  avail,               \* first descriptors of what the device has to do
  used,                \* of what it has done and the handler has not seen
  irq, handler,        \* interrupt pending; virtio_disk_intr() in its loop
  stored,              \* 1: the block on disk is the latest
  blockno, bdisk,      \* fields of struct buf
  fresh,               \* 1: b->data is the latest of its block
  asleep,              \* the channel a process sleeps on
  pc, buf, write, idx  \* the callers and their locals

driver == <<free, desc, ops, info>>
rings  == <<avail, used, irq, handler>>
bufs   == <<stored, blockno, bdisk, fresh>>
locals == <<pc, buf, write, idx>>

Desc == 0 .. NUM - 1

\* Channels of sleep().
Awake       == <<"awake">>
DescChan    == <<"free">>     \* &disk.free[0]
IoChan(b)   == <<"buf", b>>
LockChan(b) == <<"lock", b>>  \* the sleep lock of b

\* wakeup(c)
Woken(c) == [q \in Procs |-> IF asleep[q] = c THEN Awake ELSE asleep[q]]

NoDesc == [addr |-> NoBuf, next |-> -1]   \* next = -1: no VRING_DESC_F_NEXT
NoOp   == [write |-> 0, sector |-> NoBlock]

DiskInit ==
  /\ free = Desc /\ desc = [i \in Desc |-> NoDesc]
  /\ ops = [i \in Desc |-> NoOp] /\ info = [i \in Desc |-> NoBuf]
  /\ avail = {} /\ used = <<>> /\ irq = 0 /\ handler = 0

---------------------------------------------------------------------------

VdiskLockFree == handler = 0

\* alloc_desc() takes the lowest free descriptor, alloc3_desc() three of them.
alloc3_desc ==
  LET i == Min(free)  j == Min(free \ {i})  k == Min(free \ {i, j})
  IN  <<i, j, k>>

\* alloc3_desc() fails: what it got is given back, which wakes the others
\* that wait, and the caller sleeps.
rw_full(p) ==
  /\ pc[p] = "rw" /\ asleep[p] = Awake /\ VdiskLockFree
  /\ Cardinality(free) < 3
  /\ asleep' = [(IF free = {} THEN asleep ELSE Woken(DescChan)) EXCEPT ![p] = DescChan]
  /\ UNCHANGED <<driver, rings, bufs, locals>>

\* The request is formatted and published; the caller sleeps on the buffer.
rw_submit(p) ==
  LET c == alloc3_desc
      b == buf[p]
  IN  /\ pc[p] = "rw" /\ asleep[p] = Awake /\ VdiskLockFree
      /\ Cardinality(free) >= 3
      /\ free' = free \ {c[1], c[2], c[3]}
      /\ ops' = [ops EXCEPT ![c[1]] = [write |-> write[p], sector |-> blockno[b]]]
      /\ desc' = [desc EXCEPT ![c[1]] = [addr |-> NoBuf, next |-> c[2]],
                              ![c[2]] = [addr |-> b, next |-> c[3]],
                              ![c[3]] = [addr |-> NoBuf, next |-> -1]]
      /\ bdisk' = [bdisk EXCEPT ![b] = 1]
      /\ info' = [info EXCEPT ![c[1]] = b]
      /\ avail' = avail \cup {c[1]}
      /\ asleep' = [asleep EXCEPT ![p] = IoChan(b)]
      /\ pc' = [pc EXCEPT ![p] = "io"]
      /\ idx' = [idx EXCEPT ![p] = c[1]]
      /\ UNCHANGED <<used, irq, handler, stored, blockno, fresh, buf, write>>

\* Woken before the disk is done with the buffer: kkill() wakes any sleeper.
rw_again(p) ==
  /\ pc[p] = "io" /\ asleep[p] = Awake /\ VdiskLockFree
  /\ bdisk[buf[p]] = 1
  /\ asleep' = [asleep EXCEPT ![p] = IoChan(buf[p])]
  /\ UNCHANGED <<driver, rings, bufs, locals>>

\* What free_chain(i) frees, following next.
Chain(i) ==
  LET j == desc[i].next
      k == IF j = -1 THEN -1 ELSE desc[j].next
  IN  {i, j, k} \ {-1}

\* free_chain(i), after which the request and its header are forgotten.
free_chain(i) ==
  /\ free' = free \cup Chain(i)
  /\ desc' = [d \in Desc |-> IF d \in Chain(i) THEN NoDesc ELSE desc[d]]
  /\ info' = [info EXCEPT ![i] = NoBuf]
  /\ ops' = [ops EXCEPT ![i] = NoOp]

\* The locals when virtio_disk_rw() returns to l.
rw_return(p, l) ==
  /\ pc' = [pc EXCEPT ![p] = l]
  /\ idx' = [idx EXCEPT ![p] = 0] /\ write' = [write EXCEPT ![p] = 0]
  /\ UNCHANGED buf

\* Mutant: a woken caller does not look at b->disk again.
rw_doneBlind(p, l) ==
  /\ pc[p] = "io" /\ asleep[p] = Awake /\ VdiskLockFree
  /\ free_chain(idx[p]) /\ rw_return(p, l)
  /\ asleep' = Woken(DescChan)
  /\ UNCHANGED <<rings, bufs>>

\* Mutant: free_desc() does not wake those who wait for descriptors.
rw_doneSilent(p, l) ==
  /\ pc[p] = "io" /\ asleep[p] = Awake /\ VdiskLockFree
  /\ bdisk[buf[p]] = 0
  /\ free_chain(idx[p]) /\ rw_return(p, l)
  /\ UNCHANGED <<rings, bufs, asleep>>

\* The end of virtio_disk_rw(); the caller goes on at l.
rw_done(p, l) ==
  /\ pc[p] = "io" /\ asleep[p] = Awake /\ VdiskLockFree
  /\ bdisk[buf[p]] = 0
  /\ free_chain(idx[p]) /\ rw_return(p, l)
  /\ asleep' = Woken(DescChan)
  /\ UNCHANGED <<rings, bufs>>

---------------------------------------------------------------------------

\* The device carries out a request, in any order, and raises the interrupt.
DevComplete(h) ==
  LET b == desc[desc[h].next].addr
      s == ops[h].sector
  IN  /\ h \in avail
      /\ IF ops[h].write = 1
         THEN stored' = [stored EXCEPT ![s] = fresh[b]] /\ UNCHANGED fresh
         ELSE fresh' = [fresh EXCEPT ![b] = stored[s]] /\ UNCHANGED stored
      /\ avail' = avail \ {h}
      /\ used' = Append(used, h)
      /\ irq' = 1
      /\ UNCHANGED <<driver, handler, blockno, bdisk, asleep, locals>>

\* virtio_disk_intr() takes the lock and acknowledges the interrupt.
IntrAck ==
  /\ irq = 1 /\ VdiskLockFree
  /\ irq' = 0 /\ handler' = 1
  /\ UNCHANGED <<driver, avail, used, bufs, asleep, locals>>

\* One round of its loop.
IntrUsed ==
  LET b == info[Head(used)]
  IN  /\ handler = 1 /\ used # <<>>
      /\ bdisk' = [bdisk EXCEPT ![b] = 0]
      /\ asleep' = Woken(IoChan(b))
      /\ used' = Tail(used)
      /\ UNCHANGED <<driver, avail, irq, handler, stored, blockno, fresh, locals>>

\* Mutant: the handler looks at one entry of the used ring only.
IntrReturnEarly ==
  /\ handler = 1
  /\ handler' = 0
  /\ UNCHANGED <<driver, avail, used, irq, bufs, asleep, locals>>

IntrReturn ==
  /\ handler = 1 /\ used = <<>>
  /\ handler' = 0
  /\ UNCHANGED <<driver, avail, used, irq, bufs, asleep, locals>>
=============================================================================
