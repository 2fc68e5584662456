---------------------------- MODULE BufferCache ---------------------------
(***************************************************************************)
(* The buffer cache xv6/kernel/bio.c with its sleep locks (sleeplock.c) on *)
(* top of the disk driver: processes read blocks, change them, write them  *)
(* or pin them for the log, and release them.                              *)
(*                                                                         *)
(* A stretch under bcache.lock, or under the spin lock inside a sleep      *)
(* lock, is one step.  Which unused buffer is recycled is left open: the   *)
(* code takes the least recently used one, and nothing depends on it.      *)
(***************************************************************************)
EXTENDS VirtioDisk

CONSTANTS NoProc,
          MaxPins     \* blocks pinned at a time: log.lh.n of the log

ASSUME CacheAssumption ==
  NoProc \notin Procs /\ IsFiniteSet(Procs) /\ MaxPins \in Nat

VARIABLES valid, refcnt,
          locked,   \* who holds b->lock, from b->lock.locked and .pid
          pinned    \* the blocks the log has pinned

diskVars  == <<driver, rings, bufs, asleep, locals>>
cacheVars == <<valid, refcnt, locked, pinned>>
vars      == <<diskVars, cacheVars>>

Init ==
  /\ DiskInit
  /\ stored = [n \in Blocks |-> 1]
  /\ blockno = [b \in Bufs |-> NoBlock]
  /\ bdisk = [b \in Bufs |-> 0] /\ fresh = [b \in Bufs |-> 0]
  /\ valid = [b \in Bufs |-> 0] /\ refcnt = [b \in Bufs |-> 0]
  /\ locked = [b \in Bufs |-> NoProc] /\ pinned = {}
  /\ asleep = [p \in Procs |-> Awake] /\ pc = [p \in Procs |-> "user"]
  /\ buf = [p \in Procs |-> NoBuf] /\ write = [p \in Procs |-> 0] /\ idx = [p \in Procs |-> 0]

Running(p, l) == pc[p] = l /\ asleep[p] = Awake
Goto(p, l)    == pc' = [pc EXCEPT ![p] = l]

---------------------------------------------------------------------------

Cached(n) == {b \in Bufs : blockno[b] = n}
Unused    == {b \in Bufs : refcnt[b] = 0}

\* bget(): the block is in the cache.
BgetHit(p, n) ==
  /\ Running(p, "user")
  /\ \E b \in Cached(n) :
       /\ refcnt' = [refcnt EXCEPT ![b] = @ + 1]
       /\ buf' = [buf EXCEPT ![p] = b]
  /\ Goto(p, "lock")
  /\ UNCHANGED <<driver, rings, bufs, asleep, write, idx, valid, locked, pinned>>

\* Mutant: a recycled buffer keeps its valid flag.
BgetMissStale(p, n) ==
  /\ Running(p, "user") /\ Cached(n) = {}
  /\ \E b \in Unused :
       /\ blockno' = [blockno EXCEPT ![b] = n]
       /\ fresh' = [fresh EXCEPT ![b] = 0]
       /\ refcnt' = [refcnt EXCEPT ![b] = 1]
       /\ buf' = [buf EXCEPT ![p] = b]
  /\ Goto(p, "lock")
  /\ UNCHANGED <<driver, rings, stored, bdisk, asleep, write, idx, valid, locked, pinned>>

\* bget(): an unused buffer is recycled.  When there is none bget() panics
\* and the system stops.
BgetMiss(p, n) ==
  /\ Running(p, "user") /\ Cached(n) = {}
  /\ \E b \in Unused :
       /\ blockno' = [blockno EXCEPT ![b] = n]
       /\ fresh' = [fresh EXCEPT ![b] = 0]
       /\ valid' = [valid EXCEPT ![b] = 0]
       /\ refcnt' = [refcnt EXCEPT ![b] = 1]
       /\ buf' = [buf EXCEPT ![p] = b]
  /\ Goto(p, "lock")
  /\ UNCHANGED <<driver, rings, stored, bdisk, asleep, write, idx, locked, pinned>>

\* acquiresleep() of a lock that is taken.
AcquireSleeps(p) ==
  /\ Running(p, "lock") /\ locked[buf[p]] # NoProc
  /\ asleep' = [asleep EXCEPT ![p] = LockChan(buf[p])]
  /\ UNCHANGED <<driver, rings, bufs, locals, cacheVars>>

\* acquiresleep() of a free lock, and the test of b->valid in bread().
Acquiresleep(p) ==
  /\ Running(p, "lock") /\ locked[buf[p]] = NoProc
  /\ locked' = [locked EXCEPT ![buf[p]] = p]
  /\ Goto(p, IF valid[buf[p]] = 1 THEN "hold" ELSE "rw")
  /\ UNCHANGED <<driver, rings, bufs, asleep, buf, write, idx, valid, refcnt, pinned>>

\* virtio_disk_rw() returns to bread(), which sets b->valid, or to bwrite().
RwReturn(p) ==
  /\ rw_done(p, "hold")
  /\ valid' = [valid EXCEPT ![buf[p]] = 1]
  /\ UNCHANGED <<refcnt, locked, pinned>>

\* The caller changes the block: every other copy is now out of date.
Modify(p) ==
  LET n == blockno[buf[p]]
  IN  /\ Running(p, "hold")
      /\ stored' = [stored EXCEPT ![n] = 0]
      /\ fresh' = [b \in Bufs |-> IF b \in Cached(n) \ {buf[p]} THEN 0 ELSE fresh[b]]
      /\ UNCHANGED <<driver, rings, blockno, bdisk, asleep, locals, cacheVars>>

Bwrite(p) ==
  /\ Running(p, "hold")
  /\ write' = [write EXCEPT ![p] = 1]
  /\ Goto(p, "rw")
  /\ UNCHANGED <<driver, rings, bufs, asleep, buf, idx, cacheVars>>

\* log_write() pins a block it has not logged yet.
Bpin(p) ==
  LET n == blockno[buf[p]]
  IN  /\ Running(p, "hold") /\ n \notin pinned /\ Cardinality(pinned) < MaxPins
      /\ refcnt' = [refcnt EXCEPT ![buf[p]] = @ + 1]
      /\ pinned' = pinned \cup {n}
      /\ UNCHANGED <<diskVars, valid, locked>>

\* install_trans() unpins a block it has written.
Bunpin(p) ==
  LET n == blockno[buf[p]]
  IN  /\ Running(p, "hold") /\ n \in pinned /\ stored[n] = 1
      /\ refcnt' = [refcnt EXCEPT ![buf[p]] = @ - 1]
      /\ pinned' = pinned \ {n}
      /\ UNCHANGED <<diskVars, valid, locked>>

\* A caller has written the block, or pinned it to the log, before it gives
\* it up: every modification in fs.c ends in log_write(), in log.c in bwrite().
MayRelease(n) == stored[n] = 1 \/ n \in pinned

\* brelse() begins with releasesleep().
Releasesleep(p) ==
  /\ Running(p, "hold") /\ MayRelease(blockno[buf[p]])
  /\ locked' = [locked EXCEPT ![buf[p]] = NoProc]
  /\ asleep' = Woken(LockChan(buf[p]))
  /\ Goto(p, "brelse")
  /\ UNCHANGED <<driver, rings, bufs, buf, write, idx, valid, refcnt, pinned>>

\* Mutant: brelse() leaves the reference to others that remain.
BrelseShared(p) ==
  /\ Running(p, "brelse")
  /\ refcnt' = [refcnt EXCEPT ![buf[p]] = 0]
  /\ buf' = [buf EXCEPT ![p] = NoBuf]
  /\ Goto(p, "user")
  /\ UNCHANGED <<driver, rings, bufs, asleep, write, idx, valid, locked, pinned>>

\* The rest of brelse().
Brelse(p) ==
  /\ Running(p, "brelse")
  /\ refcnt' = [refcnt EXCEPT ![buf[p]] = @ - 1]
  /\ buf' = [buf EXCEPT ![p] = NoBuf]
  /\ Goto(p, "user")
  /\ UNCHANGED <<driver, rings, bufs, asleep, write, idx, valid, locked, pinned>>

\* kkill() makes a sleeping process runnable, whatever it waits for.
Kill(p) ==
  /\ asleep[p] # Awake
  /\ asleep' = [asleep EXCEPT ![p] = Awake]
  /\ UNCHANGED <<driver, rings, bufs, locals, cacheVars>>

---------------------------------------------------------------------------

Rw(p)     == (rw_full(p) \/ rw_submit(p) \/ rw_again(p)) /\ UNCHANGED cacheVars
Bio(p)    == RwReturn(p) \/ AcquireSleeps(p) \/ Acquiresleep(p) \/ Releasesleep(p) \/ Brelse(p)
Caller(p) == (\E n \in Blocks : BgetHit(p, n) \/ BgetMiss(p, n))
             \/ Modify(p) \/ Bwrite(p) \/ Bpin(p) \/ Bunpin(p)
Device    == (\E h \in Desc : DevComplete(h)) /\ UNCHANGED cacheVars
Intr      == (IntrAck \/ IntrUsed \/ IntrReturn) /\ UNCHANGED cacheVars

Next == Device \/ Intr \/ \E p \in Procs : Rw(p) \/ Bio(p) \/ Caller(p) \/ Kill(p)

Spec == Init /\ [][Next]_vars

---------------------------------------------------------------------------

Chans == {Awake, DescChan} \cup {IoChan(b) : b \in Bufs} \cup {LockChan(b) : b \in Bufs}

\* Types of the driver and of the cache.
TypeOK ==
  /\ free \subseteq Desc /\ avail \subseteq Desc /\ used \in Seq(Desc)
  /\ desc \in [Desc -> [addr : Bufs \cup {NoBuf}, next : -1 .. NUM - 1]]
  /\ ops \in [Desc -> [write : {0, 1}, sector : Blocks \cup {NoBlock}]]
  /\ info \in [Desc -> Bufs \cup {NoBuf}]
  /\ irq \in {0, 1} /\ handler \in {0, 1}
  /\ stored \in [Blocks -> {0, 1}] /\ fresh \in [Bufs -> {0, 1}]
  /\ blockno \in [Bufs -> Blocks \cup {NoBlock}] /\ bdisk \in [Bufs -> {0, 1}]
  /\ asleep \in [Procs -> Chans] /\ idx \in [Procs -> Desc] /\ write \in [Procs -> {0, 1}]
  /\ pc \in [Procs -> {"user", "lock", "rw", "io", "hold", "brelse"}]
  /\ buf \in [Procs -> Bufs \cup {NoBuf}]
  /\ valid \in [Bufs -> {0, 1}] /\ locked \in [Bufs -> Procs \cup {NoProc}]
  /\ refcnt \in [Bufs -> Nat] /\ pinned \subseteq Blocks

\* Nobody sleeps on a condition that holds: on a lock that is free, on a
\* buffer the disk is done with, for descriptors that are there; and no
\* completion waits in the used ring without an interrupt to announce it.
NoLostWakeup ==
  /\ used # <<>> => irq = 1 \/ handler = 1
  /\ \A p \in Procs : asleep[p] # Awake =>
       \/ pc[p] = "rw" /\ Cardinality(free) < 3
       \/ pc[p] = "lock" /\ locked[buf[p]] # NoProc
       \/ pc[p] = "io" /\ bdisk[buf[p]] = 1

\* b->refcnt counts the processes that use or wait for the buffer and the
\* log's pin, so bget() recycles no buffer somebody relies on, and panics
\* only when every buffer is relied on.
RefcntExact ==
  \A b \in Bufs : refcnt[b] = Cardinality({p \in Procs : buf[p] = b})
                              + (IF blockno[b] \in pinned THEN 1 ELSE 0)

\* Between bread() and brelse() a process is the only one that has the block,
\* and it sees the latest contents: no second copy, no stale buffer, no lost
\* write, whatever is recycled and in whatever order the disk works.
BlockCurrent ==
  \A p \in Procs :
    pc[p] = "hold" \/ (pc[p] \in {"rw", "io"} /\ write[p] = 1) =>
      /\ locked[buf[p]] = p /\ fresh[buf[p]] = 1
      /\ Cardinality(Cached(blockno[buf[p]])) = 1

\* The chain that virtio_disk_rw() is about to free is its own, whole and in
\* use (the panics of free_desc()), and the handler knows whose request ends.
ChainsOwned ==
  /\ \A p \in Procs : pc[p] = "io" =>
       /\ Cardinality(Chain(idx[p])) = 3 /\ Chain(idx[p]) \cap free = {}
       /\ info[idx[p]] = buf[p]
       /\ \A q \in Procs \ {p} : pc[q] = "io" => Chain(idx[p]) \cap Chain(idx[q]) = {}
  /\ \A i \in DOMAIN used : info[used[i]] # NoBuf
=============================================================================
