------------------------- MODULE BufferCacheSteps --------------------------
(***************************************************************************)
(* The inductive invariant of the buffer cache and of the disk driver      *)
(* under it, and the proof that every step keeps it, for any number of     *)
(* processes, buffers, blocks and descriptors.  What follows from it is in *)
(* BufferCacheProofs.                                                      *)
(***************************************************************************)
EXTENDS BufferCache, TLAPS

Holding == {"rw", "io", "hold"}

\* Where a process stands, which buffer it has and whose sleep lock it holds.
ProcInv ==
  \A p \in Procs :
    /\ buf[p] = NoBuf <=> pc[p] = "user"
    /\ buf[p] # NoBuf => blockno[buf[p]] # NoBlock
    /\ pc[p] \in Holding => locked[buf[p]] = p
    /\ write[p] = 1 => pc[p] \in {"rw", "io"}

LockInv ==
  \A b \in Bufs : locked[b] # NoProc => buf[locked[b]] = b /\ pc[locked[b]] \in Holding

\* What a process sleeps on and why.
SleepInv ==
  \A p \in Procs : asleep[p] # Awake =>
    \/ pc[p] = "rw" /\ asleep[p] = DescChan /\ Cardinality(free) < 3
    \/ pc[p] = "lock" /\ asleep[p] = LockChan(buf[p]) /\ locked[buf[p]] # NoProc
    \/ pc[p] = "io" /\ asleep[p] = IoChan(buf[p]) /\ bdisk[buf[p]] = 1

\* One buffer per block; a pinned block has one.
CacheInv ==
  /\ \A a, b \in Bufs : blockno[a] = blockno[b] /\ blockno[a] # NoBlock => a = b
  /\ \A n \in pinned : \E b \in Bufs : blockno[b] = n

\* A valid buffer has the latest contents; those of a block that the disk does not have
\* are in a valid buffer that is pinned or locked.
DataInv ==
  /\ \A b \in Bufs : valid[b] = 1 => fresh[b] = 1
  /\ \A p \in Procs :
       /\ pc[p] = "hold" => valid[buf[p]] = 1
       /\ pc[p] \in {"rw", "io"} => valid[buf[p]] = write[p]
  /\ \A n \in Blocks : stored[n] = 0 =>
       \E b \in Bufs : blockno[b] = n /\ valid[b] = 1 /\ (n \in pinned \/ locked[b] # NoProc)

\* The three descriptors of the request of a process that waits for the disk.
Mid(h)  == desc[h].next
Last(h) == desc[Mid(h)].next

Own(p)  == {idx[p], Mid(idx[p]), Last(idx[p])}

\* The chain of descriptors behind the request of p is whole, in use and about its buffer.
ReqOk(p) ==
  LET h == idx[p] IN
  /\ h \in Desc \ free /\ Mid(h) \in Desc \ free /\ Last(h) \in Desc \ free
  /\ h # Mid(h) /\ h # Last(h) /\ Mid(h) # Last(h)
  /\ desc[Mid(h)].addr = buf[p] /\ info[h] = buf[p]
  /\ ops[h] = [write |-> write[p], sector |-> blockno[buf[p]]]

ChainInv ==
  /\ \A p \in Procs : pc[p] = "io" => ReqOk(p)
  /\ \A p, q \in Procs : pc[p] = "io" /\ pc[q] = "io" /\ p # q => Own(p) \cap Own(q) = {}

Done == {used[i] : i \in DOMAIN used}

\* What is in the rings is a request of a process that waits for it, in one of them and
\* once; a request the device is done with has left the latest contents in its buffer.
RingInv ==
  /\ \A h \in avail \cup Done :
       \E p \in Procs : pc[p] = "io" /\ idx[p] = h /\ bdisk[buf[p]] = 1
  /\ avail \cap Done = {}
  /\ \A i, j \in DOMAIN used : used[i] = used[j] => i = j
  /\ \A p \in Procs : pc[p] = "io" /\ idx[p] \notin avail => fresh[buf[p]] = 1
  /\ used # <<>> => irq = 1 \/ handler = 1

BufInv == ProcInv /\ LockInv /\ SleepInv /\ CacheInv /\ DataInv /\ ChainInv /\ RingInv

\* What alloc3_desc() finds: three different descriptors that are free, if there are three.
AllocOk ==
  /\ Cardinality(free) \in Nat
  /\ Cardinality(free) >= 3 =>
       /\ alloc3_desc[1] \in free /\ alloc3_desc[2] \in free /\ alloc3_desc[3] \in free
       /\ alloc3_desc[1] # alloc3_desc[2] /\ alloc3_desc[1] # alloc3_desc[3]
       /\ alloc3_desc[2] # alloc3_desc[3]

---------------------------------------------------------------------------
\* Channels are told apart.
LEMMA ChanFacts ==
  /\ DescChan # Awake
  /\ \A b : IoChan(b) # Awake /\ IoChan(b) # DescChan /\ LockChan(b) # Awake /\ LockChan(b) # DescChan
  /\ \A a, b : IoChan(a) # LockChan(b) /\ (IoChan(a) = IoChan(b) => a = b)
               /\ (LockChan(a) = LockChan(b) => a = b)
BY Zenon DEF DescChan, Awake, IoChan, LockChan

---------------------------------------------------------------------------
(* Every step keeps BufInv.                                                 *)

\* The part of TypeOK that the steps need, without records, sequences and counts.
Shape ==
  /\ pc \in [Procs -> {"user", "lock", "rw", "io", "hold", "brelse"}]
  /\ buf \in [Procs -> Bufs \cup {NoBuf}] /\ write \in [Procs -> {0, 1}]
  /\ asleep \in [Procs -> Chans] /\ idx \in [Procs -> Desc]
  /\ locked \in [Bufs -> Procs \cup {NoProc}] /\ valid \in [Bufs -> {0, 1}]
  /\ fresh \in [Bufs -> {0, 1}] /\ bdisk \in [Bufs -> {0, 1}]
  /\ blockno \in [Bufs -> Blocks \cup {NoBlock}] /\ stored \in [Blocks -> {0, 1}]
  /\ pinned \subseteq Blocks
  /\ NoBuf \notin Bufs /\ NoProc \notin Procs /\ NoBlock \notin Blocks

LEMMA ShapeFacts == TypeOK => Shape
BY CacheAssumption, DiskAssumption, Zenon DEF TypeOK, Shape

\* A step that leaves the requests, and all that the disk works on, alone.
IoFrame ==
  /\ UNCHANGED <<driver, rings>>
  /\ \A q \in Procs : (pc'[q] = "io" <=> pc[q] = "io")
  /\ \A q \in Procs : pc[q] = "io" =>
       /\ idx'[q] = idx[q] /\ buf'[q] = buf[q] /\ write'[q] = write[q]
       /\ blockno'[buf[q]] = blockno[buf[q]] /\ fresh'[buf[q]] = fresh[buf[q]]
       /\ bdisk'[buf[q]] = bdisk[buf[q]]

\* The request of a process that waits for the disk.
LEMMA Request ==
  ASSUME ChainInv, NEW p \in Procs, pc[p] = "io"
  PROVE  /\ ReqOk(p)
         /\ idx[p] \in Desc \ free /\ Mid(idx[p]) \in Desc \ free /\ Last(idx[p]) \in Desc \ free
         /\ desc[desc[idx[p]].next].addr = buf[p] /\ info[idx[p]] = buf[p]
         /\ ops[idx[p]].sector = blockno[buf[p]] /\ ops[idx[p]].write = write[p]
BY DEF ChainInv, ReqOk, Mid

\* Two requests have no descriptor in common.
LEMMA Requests ==
  ASSUME ChainInv, NEW p \in Procs, NEW q \in Procs, pc[p] = "io", pc[q] = "io", p # q
  PROVE  /\ idx[q] # idx[p]
         /\ idx[q] \notin Own(p) /\ Mid(idx[q]) \notin Own(p) /\ Last(idx[q]) \notin Own(p)
<1>1. Own(p) \cap Own(q) = {}  BY Zenon DEF ChainInv
<1> QED BY <1>1, Zenon DEF Own

LEMMA IoSame == ChainInv /\ RingInv /\ IoFrame => ChainInv' /\ RingInv'
<1> SUFFICES ASSUME ChainInv, RingInv, IoFrame PROVE ChainInv' /\ RingInv'  BY Zenon
<1> USE SMTT(30) DEF IoFrame, driver, rings
<1>1. ChainInv'
  <2>1. \A q \in Procs : pc[q] = "io" => (ReqOk(q)' <=> ReqOk(q)) /\ Own(q)' = Own(q)
    BY DEF ReqOk, Own, Mid, Last
  <2> QED BY <2>1, Zenon DEF ChainInv
<1>2. RingInv'   BY DEF RingInv, Done
<1> QED BY <1>1, <1>2, Zenon

\* bget() finds the block: the process now has a reference, and no lock yet.
LEMMA BgetHitInv ==
  ASSUME Shape, BufInv, NEW p \in Procs, NEW n \in Blocks, BgetHit(p, n)
  PROVE  BufInv'
<1> USE SMTT(30) DEF Shape, Running, Goto, bufs
<1>1. PICK b \in Bufs :
      /\ pc[p] = "user" /\ asleep[p] = Awake /\ blockno[b] = n
      /\ buf' = [buf EXCEPT ![p] = b] /\ pc' = [pc EXCEPT ![p] = "lock"]
  BY Zenon DEF BgetHit, Cached
<1>2. UNCHANGED <<driver, rings, bufs, asleep, write, idx, valid, locked, pinned>>
  BY Zenon DEF BgetHit
<1>3. ProcInv'   BY <1>1, <1>2, Zenon DEF BufInv, ProcInv, Holding
<1>4. LockInv'   BY <1>1, <1>2 DEF BufInv, LockInv, Holding
<1>5. SleepInv'  BY <1>1, <1>2, ChanFacts, Zenon DEF BufInv, SleepInv, driver
<1>6. CacheInv'  BY <1>2, Zenon DEF BufInv, CacheInv
<1>7. DataInv'   BY <1>1, <1>2 DEF BufInv, DataInv
<1>8. IoFrame    BY <1>1, <1>2, Zenon DEF IoFrame
<1> QED BY <1>3, <1>4, <1>5, <1>6, <1>7, <1>8, IoSame, Zenon DEF BufInv

\* bget() recycles a buffer with refcnt = 0: nobody has it and its block is not pinned.
LEMMA BgetMissInv ==
  ASSUME Shape, BufInv, NEW p \in Procs, NEW n \in Blocks, BgetMiss(p, n),
         \A b \in Bufs : refcnt[b] = 0 => blockno[b] \notin pinned /\ \A q \in Procs : buf[q] # b
  PROVE  BufInv'
<1> USE SMTT(30) DEF Shape, Running, Goto
<1>1. PICK b \in Bufs :
      /\ pc[p] = "user" /\ asleep[p] = Awake /\ refcnt[b] = 0
      /\ blockno' = [blockno EXCEPT ![b] = n] /\ fresh' = [fresh EXCEPT ![b] = 0]
      /\ valid' = [valid EXCEPT ![b] = 0]
      /\ buf' = [buf EXCEPT ![p] = b] /\ pc' = [pc EXCEPT ![p] = "lock"]
  BY Zenon DEF BgetMiss, Unused
<1>2. /\ UNCHANGED <<driver, rings, stored, bdisk, asleep, write, idx, locked, pinned>>
      /\ \A a \in Bufs : blockno[a] # n
  BY Zenon DEF BgetMiss, Cached
<1>3. blockno[b] \notin pinned /\ \A q \in Procs : buf[q] # b  BY <1>1, Zenon
<1>4. locked[b] = NoProc  BY <1>3 DEF BufInv, LockInv
<1>5. ProcInv'   BY <1>1, <1>2, <1>3 DEF BufInv, ProcInv, Holding
<1>6. LockInv'   BY <1>1, <1>2, <1>3 DEF BufInv, LockInv, Holding
<1>7. SleepInv'  BY <1>1, <1>2, <1>3, ChanFacts DEF BufInv, SleepInv, driver
<1>8. CacheInv'
  <2>1. \A a \in Bufs : blockno'[a] = IF a = b THEN n ELSE blockno[a]  BY <1>1, Zenon
  <2>2. \A m \in pinned : \E a \in Bufs : a # b /\ blockno[a] = m  BY <1>3 DEF BufInv, CacheInv
  <2> QED BY <1>2, <2>1, <2>2, Zenon DEF BufInv, CacheInv
<1>9. DataInv'
  <2>1. \A a \in Bufs \ {b} : fresh'[a] = fresh[a] /\ valid'[a] = valid[a] /\ blockno'[a] = blockno[a]
    BY <1>1, Zenon
  <2>2. \A q \in Procs : q # p => pc'[q] = pc[q] /\ buf'[q] = buf[q]  BY <1>1, Zenon
  <2>3. valid'[b] = 0 /\ pc'[p] = "lock"  BY <1>1, Zenon
  <2>4. \A m \in Blocks : stored[m] = 0 =>
          \E a \in Bufs \ {b} : blockno[a] = m /\ valid[a] = 1 /\ (m \in pinned \/ locked[a] # NoProc)
    BY <1>3, <1>4 DEF BufInv, DataInv
  <2>5. \A q \in Procs : pc[q] \in Holding => buf[q] \in Bufs \ {b}
    BY <1>3 DEF BufInv, ProcInv, Holding
  <2> QED BY <1>2, <2>1, <2>2, <2>3, <2>4, <2>5 DEF BufInv, DataInv, Holding
<1>10. IoFrame
  <2>1. \A q \in Procs : pc[q] = "io" => q # p /\ buf[q] # b  BY <1>1, <1>3, Zenon
  <2> QED BY <1>1, <1>2, <2>1 DEF IoFrame
<1> QED BY <1>5, <1>6, <1>7, <1>8, <1>9, <1>10, IoSame, Zenon DEF BufInv

\* acquiresleep(): sleep on a lock that is taken, or take it.
LEMMA AcquireInv ==
  ASSUME Shape, BufInv, NEW p \in Procs, AcquireSleeps(p) \/ Acquiresleep(p)
  PROVE  BufInv'
<1> USE SMTT(30) DEF Shape, Running, Goto
<1>1. pc[p] = "lock" /\ asleep[p] = Awake /\ buf[p] \in Bufs
  BY DEF AcquireSleeps, Acquiresleep, BufInv, ProcInv
<1>2. CASE AcquireSleeps(p)
  <2>1. /\ UNCHANGED <<driver, rings, bufs, locals, cacheVars>>
        /\ locked[buf[p]] # NoProc /\ asleep' = [asleep EXCEPT ![p] = LockChan(buf[p])]
    BY <1>2, Zenon DEF AcquireSleeps
  <2>2. ProcInv' /\ LockInv'  BY <2>1, Zenon DEF BufInv, ProcInv, LockInv, locals, bufs, cacheVars
  <2>3. SleepInv'  BY <1>1, <2>1, Zenon DEF BufInv, SleepInv, driver, locals, bufs, cacheVars
  <2>4. CacheInv' /\ DataInv'  BY <2>1 DEF BufInv, CacheInv, DataInv, locals, bufs, cacheVars
  <2>5. IoFrame    BY <2>1, Zenon DEF IoFrame, locals, bufs
  <2> QED BY <2>2, <2>3, <2>4, <2>5, IoSame, Zenon DEF BufInv
<1>3. CASE Acquiresleep(p)
  <2>1. /\ UNCHANGED <<driver, rings, bufs, asleep, buf, write, idx, valid, refcnt, pinned>>
        /\ locked[buf[p]] = NoProc /\ locked' = [locked EXCEPT ![buf[p]] = p]
        /\ pc' = [pc EXCEPT ![p] = IF valid[buf[p]] = 1 THEN "hold" ELSE "rw"]
    BY <1>3, Zenon DEF Acquiresleep
  <2>2. ProcInv'   BY <1>1, <2>1 DEF BufInv, ProcInv, bufs, Holding
  <2>3. LockInv'   BY <1>1, <2>1 DEF BufInv, LockInv, Holding
  <2>4. SleepInv'  BY <1>1, <2>1 DEF BufInv, SleepInv, driver, bufs
  <2>5. CacheInv'  BY <2>1, Zenon DEF BufInv, CacheInv, bufs
  <2>6. DataInv'
    <3>1. write[p] = 0  BY <1>1, Zenon DEF BufInv, ProcInv
    <3>2. \A b \in Bufs : locked[b] # NoProc => locked'[b] # NoProc  BY <1>1, <2>1, Zenon
    <3>3. \A q \in Procs : q # p => pc'[q] = pc[q]  BY <2>1, Zenon
    <3>4. pc'[p] = IF valid[buf[p]] = 1 THEN "hold" ELSE "rw"  BY <2>1, Zenon
    <3> QED BY <1>1, <2>1, <3>1, <3>2, <3>3, <3>4 DEF BufInv, DataInv, bufs
  <2>7. IoFrame    BY <1>1, <2>1, Zenon DEF IoFrame, bufs
  <2> QED BY <2>2, <2>3, <2>4, <2>5, <2>6, <2>7, IoSame, Zenon DEF BufInv
<1> QED BY <1>2, <1>3, Zenon

\* What the caller does with a block it holds, short of giving it up.
LEMMA CallerInv ==
  ASSUME Shape, BufInv, NEW p \in Procs, Modify(p) \/ Bwrite(p) \/ Bpin(p) \/ Bunpin(p)
  PROVE  BufInv'
<1> DEFINE b == buf[p]  n == blockno[b]
<1> USE SMTT(30) DEF Shape, Running, Goto
<1>1. pc[p] = "hold" /\ asleep[p] = Awake
  BY Zenon DEF Modify, Bwrite, Bpin, Bunpin
<1>2. b \in Bufs /\ n \in Blocks /\ locked[b] = p /\ valid[b] = 1 /\ write[p] = 0
  BY <1>1 DEF BufInv, ProcInv, DataInv, Holding
<1>3. CASE Modify(p)
  <2>1. /\ UNCHANGED <<driver, rings, blockno, bdisk, asleep, locals, cacheVars>>
        /\ stored' = [stored EXCEPT ![n] = 0]
        /\ fresh' = [a \in Bufs |-> IF a \in Cached(n) \ {b} THEN 0 ELSE fresh[a]]
    BY <1>3, Zenon DEF Modify
  <2>2. \A a \in Bufs : fresh'[a] = fresh[a]
    <3>1. \A a \in Bufs : blockno[a] = n => a = b  BY <1>2, Zenon DEF BufInv, CacheInv
    <3> QED BY <2>1, <3>1, Zenon DEF Cached
  <2> HIDE DEF b, n
  <2>3. ProcInv' /\ LockInv'  BY <2>1, Zenon DEF BufInv, ProcInv, LockInv, locals, cacheVars
  <2>4. SleepInv'  BY <2>1, Zenon DEF BufInv, SleepInv, driver, locals, cacheVars
  <2>5. CacheInv'  BY <2>1, Zenon DEF BufInv, CacheInv, cacheVars
  <2>6. DataInv'
    <3>1. \A m \in Blocks : stored'[m] = 0 => stored[m] = 0 \/ m = n  BY <2>1, Zenon
    <3>2. blockno[b] = n /\ locked[b] # NoProc  BY <1>2, Zenon DEF n
    <3> QED BY <1>2, <2>1, <2>2, <3>1, <3>2 DEF BufInv, DataInv, locals, cacheVars
  <2>7. IoFrame
    <3>1. \A q \in Procs : pc[q] = "io" => buf[q] \in Bufs  BY DEF BufInv, ProcInv
    <3> QED BY <2>1, <2>2, <3>1, Zenon DEF IoFrame, locals
  <2> QED BY <2>3, <2>4, <2>5, <2>6, <2>7, IoSame, Zenon DEF BufInv
<1>4. CASE Bwrite(p)
  <2>1. /\ UNCHANGED <<driver, rings, bufs, asleep, buf, idx, cacheVars>>
        /\ write' = [write EXCEPT ![p] = 1] /\ pc' = [pc EXCEPT ![p] = "rw"]
    BY <1>4, Zenon DEF Bwrite
  <2> HIDE DEF n
  <2>3. ProcInv'   BY <1>1, <2>1, Zenon DEF BufInv, ProcInv, Holding, bufs, cacheVars
  <2>4. LockInv'   BY <1>1, <2>1 DEF BufInv, LockInv, Holding, cacheVars
  <2>5. SleepInv'  BY <1>1, <2>1, Zenon DEF BufInv, SleepInv, driver, bufs, cacheVars
  <2>6. CacheInv'  BY <2>1, Zenon DEF BufInv, CacheInv, bufs, cacheVars
  <2>7. DataInv'   BY <1>1, <1>2, <2>1 DEF BufInv, DataInv, bufs, cacheVars
  <2>8. IoFrame    BY <1>1, <2>1, Zenon DEF IoFrame, bufs
  <2> QED BY <2>3, <2>4, <2>5, <2>6, <2>7, <2>8, IoSame, Zenon DEF BufInv
<1>5. CASE Bpin(p) \/ Bunpin(p)
  <2>1. /\ UNCHANGED <<diskVars, valid, locked>>
        /\ \/ pinned' = pinned \cup {n}
           \/ pinned' = pinned \ {n} /\ stored[n] = 1
    BY <1>5, Zenon DEF Bpin, Bunpin
  <2>2. ProcInv' /\ LockInv'  BY <2>1, Zenon DEF BufInv, ProcInv, LockInv, locals, diskVars, bufs
  <2>3. SleepInv'  BY <2>1, Zenon DEF BufInv, SleepInv, driver, locals, diskVars, bufs
  <2>4. CacheInv'  BY <1>2, <2>1, Zenon DEF BufInv, CacheInv, diskVars, bufs
  <2>5. DataInv'
    <3>1. \A m \in Blocks : stored[m] = 0 /\ m \in pinned => m \in pinned'  BY <2>1
    <3> QED BY <2>1, <3>1 DEF BufInv, DataInv, locals, diskVars, bufs
  <2>6. IoFrame    BY <2>1, Zenon DEF IoFrame, locals, diskVars, bufs
  <2> QED BY <2>2, <2>3, <2>4, <2>5, <2>6, IoSame, Zenon DEF BufInv
<1> QED BY <1>3, <1>4, <1>5, Zenon

\* brelse(): first the lock, whose waiters are woken, then the reference.
LEMMA BrelseInv ==
  ASSUME Shape, BufInv, NEW p \in Procs, Releasesleep(p) \/ Brelse(p)
  PROVE  BufInv'
<1> USE SMTT(30) DEF Shape, Running, Goto
<1>1. CASE Releasesleep(p)
  <2> DEFINE b == buf[p]  n == blockno[b]
  <2>1. /\ UNCHANGED <<driver, rings, bufs, buf, write, idx, valid, refcnt, pinned>>
        /\ pc[p] = "hold" /\ asleep[p] = Awake /\ (stored[n] = 1 \/ n \in pinned)
        /\ locked' = [locked EXCEPT ![b] = NoProc] /\ pc' = [pc EXCEPT ![p] = "brelse"]
        /\ \A q \in Procs : asleep'[q] = IF asleep[q] = LockChan(b) THEN Awake ELSE asleep[q]
    BY <1>1, Zenon DEF Releasesleep, MayRelease, Woken
  <2>2. b \in Bufs /\ locked[b] = p  BY <2>1 DEF BufInv, ProcInv, Holding
  <2>3. \A q \in Procs : pc[q] \in Holding /\ buf[q] = b => q = p
    BY <2>2, Zenon DEF BufInv, ProcInv
  <2>4. \A a \in Bufs : locked'[a] = IF a = b THEN NoProc ELSE locked[a]  BY <2>1, Zenon
  <2> HIDE DEF b
  <2>5. ProcInv'   BY <2>1, <2>3, <2>4 DEF BufInv, ProcInv, Holding, bufs
  <2>6. LockInv'   BY <2>1, <2>2, <2>4 DEF BufInv, LockInv, Holding
  <2>7. SleepInv'  BY <2>1, <2>2, <2>4, ChanFacts DEF BufInv, SleepInv, driver, bufs
  <2>8. CacheInv'  BY <2>1, Zenon DEF BufInv, CacheInv, bufs
  <2>9. DataInv'   BY <2>1, <2>2, <2>4 DEF BufInv, DataInv, bufs
  <2>10. IoFrame   BY <2>1, Zenon DEF IoFrame, bufs
  <2> QED BY <2>5, <2>6, <2>7, <2>8, <2>9, <2>10, IoSame, Zenon DEF BufInv
<1>2. CASE Brelse(p)
  <2>1. /\ UNCHANGED <<driver, rings, bufs, asleep, write, idx, valid, locked, pinned>>
        /\ pc[p] = "brelse" /\ asleep[p] = Awake
        /\ buf' = [buf EXCEPT ![p] = NoBuf] /\ pc' = [pc EXCEPT ![p] = "user"]
    BY <1>2, Zenon DEF Brelse
  <2>2. ProcInv'   BY <2>1, Zenon DEF BufInv, ProcInv, Holding, bufs
  <2>3. LockInv'   BY <2>1 DEF BufInv, LockInv, Holding
  <2>4. SleepInv'  BY <2>1, Zenon DEF BufInv, SleepInv, driver, bufs
  <2>5. CacheInv'  BY <2>1, Zenon DEF BufInv, CacheInv, bufs
  <2>6. DataInv'   BY <2>1 DEF BufInv, DataInv, bufs
  <2>7. IoFrame    BY <2>1, Zenon DEF IoFrame, bufs
  <2> QED BY <2>2, <2>3, <2>4, <2>5, <2>6, <2>7, IoSame, Zenon DEF BufInv
<1> QED BY <1>1, <1>2, Zenon

\* Steps that only put processes to sleep or wake them.
LEMMA SleepStepInv ==
  ASSUME Shape, BufInv, NEW p \in Procs, Kill(p) \/ rw_full(p) \/ rw_again(p),
         UNCHANGED cacheVars
  PROVE  BufInv'
<1> USE SMTT(30) DEF Shape
<1>1. UNCHANGED <<driver, rings, bufs, locals, cacheVars>>
  BY Zenon DEF Kill, rw_full, rw_again
<1>2. /\ \A q \in Procs \ {p} : asleep'[q] \in {asleep[q], Awake}
      /\ \/ asleep'[p] = Awake
         \/ pc[p] = "rw" /\ asleep'[p] = DescChan /\ Cardinality(free) < 3
         \/ pc[p] = "io" /\ asleep'[p] = IoChan(buf[p]) /\ bdisk[buf[p]] = 1
  <2>1. CASE Kill(p)      BY <2>1, Zenon DEF Kill
  <2>2. CASE rw_again(p)  BY <2>2, Zenon DEF rw_again
  <2>3. CASE rw_full(p)
    <3>1. CASE free = {}  BY <2>3, <3>1, Zenon DEF rw_full
    <3>2. CASE free # {}
      <4>1. asleep' = [Woken(DescChan) EXCEPT ![p] = DescChan] /\ pc[p] = "rw" /\ Cardinality(free) < 3
        BY <2>3, <3>2, Zenon DEF rw_full
      <4> QED BY <4>1, Zenon DEF Woken
    <3> QED BY <3>1, <3>2, Zenon
  <2> QED BY <2>1, <2>2, <2>3, Zenon
<1>3. ProcInv' /\ LockInv'  BY <1>1, Zenon DEF BufInv, ProcInv, LockInv, locals, cacheVars, bufs
<1>4. SleepInv'  BY <1>1, <1>2, Zenon DEF BufInv, SleepInv, driver, locals, cacheVars, bufs
<1>5. CacheInv' /\ DataInv'  BY <1>1 DEF BufInv, CacheInv, DataInv, locals, cacheVars, bufs
<1>6. IoFrame    BY <1>1, Zenon DEF IoFrame, locals, bufs
<1> QED BY <1>3, <1>4, <1>5, <1>6, IoSame, Zenon DEF BufInv

\* virtio_disk_rw() publishes a request made of free descriptors.
LEMMA SubmitInv ==
  ASSUME TypeOK, Shape, BufInv, AllocOk, NEW p \in Procs, rw_submit(p), UNCHANGED cacheVars
  PROVE  BufInv'
<1> DEFINE i == alloc3_desc[1]  j == alloc3_desc[2]  k == alloc3_desc[3]  b == buf[p]
<1>1. /\ pc[p] = "rw" /\ asleep[p] = Awake /\ Cardinality(free) >= 3
      /\ free' = free \ {i, j, k}
      /\ ops' = [ops EXCEPT ![i] = [write |-> write[p], sector |-> blockno[b]]]
      /\ desc' = [desc EXCEPT ![i] = [addr |-> NoBuf, next |-> j],
                              ![j] = [addr |-> b, next |-> k],
                              ![k] = [addr |-> NoBuf, next |-> -1]]
      /\ bdisk' = [bdisk EXCEPT ![b] = 1]
      /\ info' = [info EXCEPT ![i] = b]
      /\ avail' = avail \cup {i}
      /\ asleep' = [asleep EXCEPT ![p] = IoChan(b)]
      /\ pc' = [pc EXCEPT ![p] = "io"]
      /\ idx' = [idx EXCEPT ![p] = i]
      /\ UNCHANGED <<used, irq, handler, stored, blockno, fresh, buf, write>>
  BY Zenon DEF rw_submit
<1>2. i \in free /\ j \in free /\ k \in free /\ i # j /\ i # k /\ j # k /\ free \subseteq Desc
  <2>1. Cardinality(free) >= 3  BY <1>1, Zenon
  <2>2. free \subseteq Desc  BY Zenon DEF TypeOK
  <2> QED BY <2>1, <2>2, Zenon DEF AllocOk
<1> HIDE DEF i, j, k
<1> USE SMTT(30) DEF Shape
<1>3. b \in Bufs /\ blockno[b] \in Blocks /\ locked[b] = p  BY <1>1 DEF BufInv, ProcInv, Holding
<1>4. \A q \in Procs : q # p /\ pc[q] = "io" => buf[q] # b /\ buf[q] \in Bufs
  BY <1>3 DEF BufInv, ProcInv, Holding
<1> HIDE DEF b
<1>5. /\ \A q \in Procs : q # p => pc'[q] = pc[q] /\ idx'[q] = idx[q]
      /\ \A q \in Procs : pc[q] = "io" => q # p
  BY <1>1, Zenon
<1>6. \A q \in Procs : pc[q] = "io" =>
        idx[q] \in Desc \ free /\ Mid(idx[q]) \in Desc \ free /\ Last(idx[q]) \in Desc \ free
  BY Request, Zenon DEF BufInv
<1>7. UNCHANGED <<valid, refcnt, locked, pinned>>  BY Zenon DEF cacheVars
<1>8. ProcInv'  BY <1>1, <1>7, Zenon DEF BufInv, ProcInv, Holding
<1>9. LockInv'  BY <1>1, <1>7 DEF BufInv, LockInv, Holding
<1>10. SleepInv'
  <2>1. \A q \in Procs : q # p => asleep'[q] = asleep[q] /\ pc'[q] = pc[q]  BY <1>1, Zenon
  <2>2. asleep'[p] = IoChan(b) /\ pc'[p] = "io" /\ bdisk'[b] = 1 /\ b = buf[p]
    BY <1>1, <1>3, Zenon DEF b
  <2>3. \A q \in Procs : pc[q] = "io" /\ bdisk[buf[q]] = 1 => bdisk'[buf[q]] = 1
    BY <1>1, <1>4, Zenon
  <2>4. ~(Cardinality(free) < 3)  BY <1>1 DEF AllocOk
  <2> QED BY <1>1, <1>7, <2>1, <2>2, <2>3, <2>4 DEF BufInv, SleepInv
<1>11. CacheInv'  BY <1>1, <1>7, Zenon DEF BufInv, CacheInv
<1>12. DataInv'
  <2>1. \A q \in Procs : pc'[q] = IF q = p THEN "io" ELSE pc[q]  BY <1>1, Zenon
  <2> QED BY <1>1, <1>7, <2>1 DEF BufInv, DataInv
<1>13. ChainInv'
  <2>1. /\ desc'[i].next = j /\ desc'[j].next = k /\ desc'[j].addr = b
        /\ \A d \in Desc \ {i, j, k} : desc'[d] = desc[d]
    BY <1>1, <1>2, Zenon DEF TypeOK
  <2>2. /\ ops'[i] = [write |-> write[p], sector |-> blockno[b]] /\ info'[i] = b
        /\ \A d \in Desc \ {i} : ops'[d] = ops[d] /\ info'[d] = info[d]
    BY <1>1, <1>2, Zenon DEF TypeOK
  <2>3. \A q \in Procs : pc'[q] = "io" /\ q # p =>
          /\ pc[q] = "io" /\ idx'[q] = idx[q]
          /\ idx[q] \in Desc \ free /\ Mid(idx[q]) \in Desc \ free /\ Last(idx[q]) \in Desc \ free
    BY <1>5, <1>6, Zenon
  <2>4. \A q \in Procs : pc'[q] = "io" /\ q # p =>
          Mid(idx[q])' = Mid(idx[q]) /\ Last(idx[q])' = Last(idx[q])
            /\ desc'[Mid(idx[q])] = desc[Mid(idx[q])]
    BY <1>2, <2>1, <2>3 DEF Mid, Last
  <2>5. idx'[p] = i /\ Mid(idx[p])' = j /\ Last(idx[p])' = k  BY <1>1, <2>1, Zenon DEF Mid, Last
  <2>6. ASSUME NEW q \in Procs, pc'[q] = "io" PROVE ReqOk(q)'
    <3>1. CASE q = p
      BY <1>1, <1>2, <2>1, <2>2, <2>5, <3>1, Zenon DEF b, ReqOk
    <3>2. CASE q # p
      <4>1. /\ idx'[q] = idx[q] /\ Mid(idx[q])' = Mid(idx[q]) /\ Last(idx[q])' = Last(idx[q])
            /\ idx[q] \in Desc \ free /\ Mid(idx[q]) \in Desc \ free /\ Last(idx[q]) \in Desc \ free
            /\ idx[q] # i /\ desc'[Mid(idx[q])] = desc[Mid(idx[q])] /\ pc[q] = "io"
        BY <1>2, <2>3, <2>4, <2>6, <3>2, Zenon
      <4>2. ops'[idx[q]] = ops[idx[q]] /\ info'[idx[q]] = info[idx[q]]  BY <2>2, <4>1, Zenon
      <4>3. ReqOk(q)  BY <4>1, Zenon DEF BufInv, ChainInv
      <4> QED BY <1>1, <4>1, <4>2, <4>3, Zenon DEF ReqOk
    <3> QED BY <3>1, <3>2, Zenon
  <2>7. ASSUME NEW q \in Procs, NEW r \in Procs, pc'[q] = "io", pc'[r] = "io", q # r
        PROVE  (Own(q) \cap Own(r) = {})'
    <3>1. CASE q # p /\ r # p
      <4>1. Own(q) \cap Own(r) = {}  BY <2>3, <2>7, <3>1, Zenon DEF BufInv, ChainInv
      <4> QED BY <2>3, <2>4, <2>7, <3>1, <4>1, Zenon DEF Own
    <3>2. CASE q = p
      BY <1>2, <2>3, <2>4, <2>5, <2>7, <3>2 DEF Own
    <3>3. CASE r = p
      BY <1>2, <2>3, <2>4, <2>5, <2>7, <3>3 DEF Own
    <3> QED BY <3>1, <3>2, <3>3, Zenon
  <2> QED BY <2>6, <2>7, Zenon DEF ChainInv
<1>14. RingInv'
  <2>1. pc'[p] = "io" /\ idx'[p] = i /\ bdisk'[buf[p]] = 1 /\ buf' = buf
    BY <1>1, <1>3, Zenon DEF b
  <2>2. \A q \in Procs : pc[q] = "io" => bdisk'[buf[q]] = bdisk[buf[q]] /\ idx[q] # i
    BY <1>1, <1>2, <1>4, <1>5, <1>6, Zenon
  <2>3. Done' = Done /\ i \notin Done
    <3>1. \A h \in Done : \E q \in Procs : pc[q] = "io" /\ idx[q] = h  BY Zenon DEF BufInv, RingInv
    <3>2. \A h \in Done : h # i  BY <2>2, <3>1, Zenon
    <3>3. used' = used  BY <1>1, Zenon
    <3>4. Done' = Done  BY <3>3 DEF Done
    <3> QED BY <3>2, <3>4, Zenon
  <2>4. \A q \in Procs : pc'[q] = "io" /\ q # p => pc[q] = "io" /\ idx'[q] = idx[q]  BY <1>5, Zenon
  <2>5. avail' = avail \cup {i} /\ UNCHANGED <<used, irq, handler, fresh>>  BY <1>1, Zenon
  <2> QED BY <1>5, <2>1, <2>2, <2>3, <2>4, <2>5 DEF BufInv, RingInv
<1> QED BY <1>8, <1>9, <1>10, <1>11, <1>12, <1>13, <1>14, Zenon DEF BufInv

\* virtio_disk_rw() returns: the chain is freed, and the buffer has the latest contents.
LEMMA ReturnInv ==
  ASSUME TypeOK, Shape, BufInv, NEW p \in Procs, RwReturn(p)
  PROVE  BufInv'
<1> DEFINE b == buf[p]  h == idx[p]
<1>1. /\ pc[p] = "io" /\ asleep[p] = Awake /\ bdisk[b] = 0
      /\ free' = free \cup Chain(h)
      /\ desc' = [d \in Desc |-> IF d \in Chain(h) THEN NoDesc ELSE desc[d]]
      /\ info' = [info EXCEPT ![h] = NoBuf] /\ ops' = [ops EXCEPT ![h] = NoOp]
      /\ pc' = [pc EXCEPT ![p] = "hold"] /\ idx' = [idx EXCEPT ![p] = 0]
      /\ write' = [write EXCEPT ![p] = 0]
      /\ asleep' = [q \in Procs |-> IF asleep[q] = DescChan THEN Awake ELSE asleep[q]]
      /\ valid' = [valid EXCEPT ![b] = 1]
      /\ UNCHANGED <<buf, avail, used, irq, handler, stored, blockno, bdisk, fresh, refcnt,
                     locked, pinned>>
  BY Zenon DEF RwReturn, rw_done, rw_return, free_chain, Woken, rings, bufs
<1> USE SMTT(30) DEF Shape
<1>2. b \in Bufs /\ blockno[b] \in Blocks /\ locked[b] = p  BY <1>1 DEF BufInv, ProcInv, Holding
<1>3. \A q \in Procs : q # p /\ pc[q] \in Holding => buf[q] # b /\ buf[q] \in Bufs
  BY <1>2 DEF BufInv, ProcInv, Holding
<1>4. \A q \in Procs : q # p => pc'[q] = pc[q] /\ idx'[q] = idx[q] /\ write'[q] = write[q]
  BY <1>1, Zenon
<1>5. pc'[p] = "hold" /\ write'[p] = 0  BY <1>1, Zenon
<1>6. h \notin avail /\ h \notin Done
  <2>1. \A q \in Procs : pc[q] = "io" /\ idx[q] = h => q = p
    BY <1>1, Requests, Zenon DEF BufInv
  <2> QED BY <1>1, <2>1 DEF BufInv, RingInv
<1>7. fresh[b] = 1  BY <1>1, <1>6, Zenon DEF BufInv, RingInv
<1> HIDE DEF b, h
<1>8. ProcInv'   BY <1>1, <1>4, <1>5 DEF BufInv, ProcInv, Holding
<1>9. LockInv'   BY <1>1, <1>4, <1>5 DEF BufInv, LockInv, Holding
<1>10. SleepInv'
  <2>1. \A q \in Procs : asleep'[q] = IF asleep[q] = DescChan THEN Awake ELSE asleep[q]
    BY <1>1, Zenon
  <2> QED BY <1>1, <1>4, <2>1, ChanFacts DEF BufInv, SleepInv
<1>11. CacheInv'  BY <1>1, Zenon DEF BufInv, CacheInv
<1>12. DataInv'
  <2>1. \A a \in Bufs : valid'[a] = IF a = b THEN 1 ELSE valid[a]  BY <1>1, Zenon
  <2>2. buf[p] = b  BY Zenon DEF b
  <2> QED BY <1>1, <1>2, <1>3, <1>4, <1>5, <1>7, <2>1, <2>2 DEF BufInv, DataInv, Holding
<1>13. ChainInv'
  <2> DEFINE own == Own(p)
  <2>1. Chain(h) = own /\ own \subseteq Desc /\ -1 \notin Desc
    <3>1. h \in Desc /\ Mid(h) \in Desc /\ Last(h) \in Desc
      BY <1>1, Request, Zenon DEF BufInv, h
    <3>2. -1 \notin Desc  BY DEF Desc
    <3> QED BY <3>1, <3>2 DEF Chain, Mid, Last, Own, h
  <2>2. \A q \in Procs : q # p /\ pc[q] = "io" =>
          /\ idx[q] \notin own /\ Mid(idx[q]) \notin own /\ Last(idx[q]) \notin own
          /\ idx[q] \in Desc /\ Mid(idx[q]) \in Desc
    BY <1>1, Request, Requests, Zenon DEF BufInv
  <2>3. \A d \in Desc \ own : desc'[d] = desc[d] /\ info'[d] = info[d] /\ ops'[d] = ops[d]
    BY <1>1, <2>1, Zenon DEF TypeOK, Own, h
  <2>4. free' = free \cup own  BY <1>1, <2>1, Zenon
  <2> HIDE DEF own
  <2>5. \A q \in Procs : q # p /\ pc[q] = "io" =>
          /\ Mid(idx[q])' = Mid(idx[q]) /\ Last(idx[q])' = Last(idx[q])
          /\ desc'[Mid(idx[q])] = desc[Mid(idx[q])]
          /\ info'[idx[q]] = info[idx[q]] /\ ops'[idx[q]] = ops[idx[q]]
    BY <1>4, <2>2, <2>3 DEF Mid, Last
  <2>6. ASSUME NEW q \in Procs, pc'[q] = "io" PROVE ReqOk(q)'
    <3>1. q # p /\ pc[q] = "io"  BY <1>4, <1>5, <2>6, Zenon
    <3>2. ReqOk(q)  BY <3>1, Zenon DEF BufInv, ChainInv
    <3>3. /\ idx'[q] = idx[q] /\ write'[q] = write[q] /\ buf' = buf /\ blockno' = blockno
          /\ Mid(idx[q])' = Mid(idx[q]) /\ Last(idx[q])' = Last(idx[q])
          /\ desc'[Mid(idx[q])] = desc[Mid(idx[q])]
          /\ info'[idx[q]] = info[idx[q]] /\ ops'[idx[q]] = ops[idx[q]]
      BY <1>1, <1>4, <2>5, <3>1, Zenon
    <3>4. \A d \in {idx[q], Mid(idx[q]), Last(idx[q])} : d \in Desc \ free => d \in Desc \ free'
      BY <2>2, <2>4, <3>1, Zenon
    <3> QED BY <3>2, <3>3, <3>4, Zenon DEF ReqOk
  <2>7. ASSUME NEW q \in Procs, NEW r \in Procs, pc'[q] = "io", pc'[r] = "io", q # r
        PROVE  (Own(q) \cap Own(r) = {})'
    <3>1. q # p /\ r # p /\ pc[q] = "io" /\ pc[r] = "io"  BY <1>4, <1>5, <2>7, Zenon
    <3>2. Own(q) \cap Own(r) = {}  BY <2>7, <3>1, Zenon DEF BufInv, ChainInv
    <3> QED BY <1>4, <2>5, <3>1, <3>2, Zenon DEF Own
  <2> QED BY <2>6, <2>7, Zenon DEF ChainInv
<1>14. RingInv'
  <2>1. Done' = Done  BY <1>1 DEF Done
  <2>2. \A q \in Procs : pc[q] = "io" /\ idx[q] \in avail \cup Done => q # p
    BY <1>6, Zenon DEF h
  <2> QED BY <1>1, <1>4, <1>5, <2>1, <2>2 DEF BufInv, RingInv
<1> QED BY <1>8, <1>9, <1>10, <1>11, <1>12, <1>13, <1>14, Zenon DEF BufInv

\* The device completes a request: it reads into, or writes from, the buffer that its
\* caller has locked.
LEMMA DeviceInv ==
  ASSUME TypeOK, Shape, BufInv, NEW h \in Desc, DevComplete(h), UNCHANGED cacheVars
  PROVE  BufInv'
<1> USE SMTT(30) DEF Shape
<1>1. h \in avail /\ UNCHANGED <<driver, handler, blockno, bdisk, asleep, locals, cacheVars>>
  BY Zenon DEF DevComplete
<1>2. PICK p \in Procs : pc[p] = "io" /\ idx[p] = h /\ bdisk[buf[p]] = 1
  BY <1>1, Zenon DEF BufInv, RingInv
<1> DEFINE b == buf[p]  n == blockno[b]
<1>3. b \in Bufs /\ n \in Blocks /\ locked[b] = p  BY <1>2 DEF BufInv, ProcInv, Holding
<1>4. desc[desc[h].next].addr = b /\ ops[h].sector = n /\ ops[h].write = write[p]
  BY <1>2, Request, Zenon DEF BufInv
<1>5. valid[b] = write[p]  BY <1>2, Zenon DEF BufInv, DataInv
<1>6. \/ /\ write[p] = 1 /\ valid[b] = 1 /\ fresh[b] = 1
         /\ stored' = [stored EXCEPT ![n] = 1] /\ fresh' = fresh
      \/ /\ write[p] = 0 /\ valid[b] = 0 /\ stored[n] = 1
         /\ fresh' = [fresh EXCEPT ![b] = 1] /\ stored' = stored
  <2>1. CASE write[p] = 1
    BY <1>3, <1>4, <1>5, <2>1 DEF DevComplete, BufInv, DataInv
  <2>2. CASE write[p] = 0
    <3>1. stored[n] = 1  BY <1>3, <1>5, <2>2 DEF BufInv, DataInv, CacheInv
    <3> QED BY <1>3, <1>4, <1>5, <2>2, <3>1, Zenon DEF DevComplete
  <2> QED BY <2>1, <2>2, Zenon
<1>7. avail' = avail \ {h} /\ used' = Append(used, h) /\ irq' = 1  BY Zenon DEF DevComplete
<1>8. \A q \in Procs : pc[q] = "io" /\ idx[q] = h => q = p
  BY <1>2, Requests, Zenon DEF BufInv
<1> HIDE DEF b, n
<1>9. ProcInv' /\ LockInv'  BY <1>1, Zenon DEF BufInv, ProcInv, LockInv, locals, cacheVars
<1>10. SleepInv'  BY <1>1, Zenon DEF BufInv, SleepInv, driver, locals, cacheVars
<1>11. CacheInv'  BY <1>1, Zenon DEF BufInv, CacheInv, cacheVars
<1>12. DataInv'
  <2>1. \A a \in Bufs : valid[a] = 1 => fresh'[a] = 1  BY <1>6 DEF BufInv, DataInv
  <2>2. \A m \in Blocks : stored'[m] = 0 => stored[m] = 0  BY <1>6, Zenon
  <2> QED BY <1>1, <2>1, <2>2 DEF BufInv, DataInv, locals, cacheVars
<1>13. ChainInv'
  <2>1. \A q \in Procs : (ReqOk(q)' <=> ReqOk(q)) /\ Own(q)' = Own(q)
    BY <1>1, Zenon DEF ReqOk, Own, Mid, Last, driver, locals
  <2> QED BY <1>1, <2>1, Zenon DEF BufInv, ChainInv, locals
<1>14. RingInv'
  <2>1. used \in Seq(Desc)  BY Zenon DEF TypeOK
  <2>2. /\ DOMAIN used' = 1 .. Len(used) + 1 /\ DOMAIN used = 1 .. Len(used) /\ Len(used) \in Nat
        /\ used'[Len(used) + 1] = h /\ \A i \in DOMAIN used : used'[i] = used[i]
    BY <1>7, <2>1
  <2>3. Done' = Done \cup {h}  BY <2>2 DEF Done
  <2>4. h \notin Done /\ \A i \in DOMAIN used : used[i] # h  BY <1>1 DEF BufInv, RingInv, Done
  <2>5. avail' \cup Done' = avail \cup Done /\ avail' \cap Done' = {}
    BY <1>1, <1>7, <2>3, <2>4 DEF BufInv, RingInv
  <2>6. \A i, j \in DOMAIN used' : used'[i] = used'[j] => i = j
    BY <2>2, <2>4 DEF BufInv, RingInv
  <2>7. \A q \in Procs : pc'[q] = "io" /\ idx'[q] \notin avail' => fresh'[buf'[q]] = 1
    <3>1. \A a \in Bufs : fresh[a] = 1 => fresh'[a] = 1  BY <1>6, Zenon
    <3>2. fresh'[b] = 1  BY <1>3, <1>6
    <3>3. \A q \in Procs : pc[q] = "io" => buf[q] \in Bufs  BY DEF BufInv, ProcInv
    <3>4. \A q \in Procs : pc[q] = "io" /\ idx[q] \notin avail => fresh[buf[q]] = 1
      BY Zenon DEF BufInv, RingInv
    <3> QED BY <1>1, <1>7, <1>8, <3>1, <3>2, <3>3, <3>4, Zenon DEF locals, b
  <2>8. \A g \in avail' \cup Done' :
          \E q \in Procs : pc'[q] = "io" /\ idx'[q] = g /\ bdisk'[buf'[q]] = 1
    BY <1>1, <2>5 DEF BufInv, RingInv, locals
  <2> QED BY <1>7, <2>5, <2>6, <2>7, <2>8, Zenon DEF RingInv
<1> QED BY <1>9, <1>10, <1>11, <1>12, <1>13, <1>14, Zenon DEF BufInv

\* virtio_disk_intr(): acknowledge, take one entry of the used ring after the other, return.
LEMMA IntrInv ==
  ASSUME TypeOK, Shape, BufInv, IntrAck \/ IntrUsed \/ IntrReturn, UNCHANGED cacheVars
  PROVE  BufInv'
<1> USE SMTT(30) DEF Shape
<1>1. UNCHANGED <<driver, avail, stored, blockno, fresh, locals, cacheVars>>
  BY Zenon DEF IntrAck, IntrUsed, IntrReturn, bufs
<1>2. ProcInv' /\ LockInv'  BY <1>1, Zenon DEF BufInv, ProcInv, LockInv, locals, cacheVars
<1>3. CacheInv' /\ DataInv'  BY <1>1 DEF BufInv, CacheInv, DataInv, locals, cacheVars
<1>4. ChainInv'
  <2>1. \A q \in Procs : (ReqOk(q)' <=> ReqOk(q)) /\ Own(q)' = Own(q)
    BY <1>1, Zenon DEF ReqOk, Own, Mid, Last, driver, locals
  <2> QED BY <1>1, <2>1, Zenon DEF BufInv, ChainInv, locals
<1>5. CASE IntrAck \/ IntrReturn
  <2>1. UNCHANGED <<bdisk, asleep, used>> /\ (used # <<>> => handler' = 1)
    BY <1>5, Zenon DEF IntrAck, IntrReturn, bufs
  <2>2. SleepInv'  BY <1>1, <2>1, Zenon DEF BufInv, SleepInv, driver, locals, cacheVars
  <2>3. RingInv'   BY <1>1, <2>1 DEF BufInv, RingInv, Done, locals
  <2> QED BY <1>2, <1>3, <1>4, <2>2, <2>3, Zenon DEF BufInv
<1>6. CASE IntrUsed
  <2> DEFINE h == Head(used)  b == info[h]
  <2>1. /\ handler' = 1 /\ used # <<>> /\ used' = Tail(used)
        /\ bdisk' = [bdisk EXCEPT ![b] = 0]
        /\ \A q \in Procs : asleep'[q] = IF asleep[q] = IoChan(b) THEN Awake ELSE asleep[q]
    BY <1>6, Zenon DEF IntrUsed, Woken
  <2>2. /\ DOMAIN used = 1 .. Len(used) /\ Len(used) \in Nat \ {0} /\ h = used[1]
        /\ DOMAIN used' = 1 .. Len(used) - 1
        /\ \A i \in 1 .. Len(used) - 1 : used'[i] = used[i + 1]
    BY <2>1 DEF TypeOK
  <2>3. h \in Done  BY <2>2 DEF Done
  <2>4. PICK p \in Procs : pc[p] = "io" /\ idx[p] = h  BY <2>3, Zenon DEF BufInv, RingInv
  <2>5. b = buf[p] /\ b \in Bufs
    <3>1. b = buf[p]  BY <2>4, Request, Zenon DEF BufInv
    <3> QED BY <2>4, <3>1 DEF BufInv, ProcInv
  <2> HIDE DEF b, h
  <2>6. SleepInv'
    <3>1. \A a \in Bufs : bdisk'[a] = IF a = b THEN 0 ELSE bdisk[a]  BY <2>1, Zenon
    <3> QED BY <1>1, <2>1, <3>1, ChanFacts DEF BufInv, SleepInv, driver, locals, cacheVars
  <2>7. Done' \subseteq Done \ {h}
    <3>1. \A i \in DOMAIN used' : used'[i] \in Done /\ used'[i] # h
      <4>1. \A i, j \in DOMAIN used : used[i] = used[j] => i = j  BY Zenon DEF BufInv, RingInv
      <4>2. \A i \in DOMAIN used' :
              /\ i + 1 \in DOMAIN used /\ i + 1 # 1 /\ 1 \in DOMAIN used /\ used'[i] = used[i + 1]
        BY <2>2
      <4> QED BY <2>2, <4>1, <4>2 DEF Done
    <3> QED BY <3>1 DEF Done
  <2>8. \A q \in Procs : pc[q] = "io" /\ idx[q] # h => buf[q] # b
    BY <2>4, <2>5 DEF BufInv, ProcInv, Holding
  <2>9. \A g \in avail \cup Done' :
          \E q \in Procs : pc[q] = "io" /\ idx[q] = g /\ bdisk'[buf[q]] = 1
    <3>1. h \notin avail  BY <2>3, Zenon DEF BufInv, RingInv
    <3>2. \A g \in avail \cup Done' :
            g # h /\ \E q \in Procs : pc[q] = "io" /\ idx[q] = g /\ bdisk[buf[q]] = 1
      BY <2>7, <3>1 DEF BufInv, RingInv
    <3>3. \A q \in Procs : pc[q] = "io" /\ idx[q] # h => bdisk'[buf[q]] = bdisk[buf[q]]
      BY <2>1, <2>8
    <3> QED BY <3>2, <3>3
  <2>10. \A i, j \in DOMAIN used' : used'[i] = used'[j] => i = j
    BY <2>2 DEF BufInv, RingInv
  <2>11. RingInv'
    <3>1. avail \cap Done' = {}  BY <2>7, Zenon DEF BufInv, RingInv
    <3> QED BY <1>1, <2>1, <2>9, <2>10, <3>1 DEF BufInv, RingInv, locals
  <2> QED BY <1>2, <1>3, <1>4, <2>6, <2>11, Zenon DEF BufInv
<1> QED BY <1>5, <1>6, Zenon

=============================================================================
