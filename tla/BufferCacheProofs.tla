------------------------- MODULE BufferCacheProofs -------------------------
(***************************************************************************)
(* The safety of the buffer cache and of the disk driver under it, for any *)
(* number of processes, buffers, blocks and descriptors: what the counters *)
(* count, what the variables hold, and what follows from BufInv.           *)
(***************************************************************************)
EXTENDS BufferCacheSteps, FiniteSetTheorems, WellFoundedInduction, TLAPS

---------------------------------------------------------------------------
(* Facts about the operators of the driver.                                 *)

\* The scan of alloc_desc() finds a free descriptor if there is one.
LEMMA MinIn ==
  ASSUME NEW S \in SUBSET Nat, S # {}
  PROVE  Min(S) \in S
<1> DEFINE R == OpToRel(<, Nat)
<1>1. IsWellFoundedOn(R, Nat)  BY NatLessThanWellFounded, Zenon
<1>2. \A x, y \in Nat : ~(<<y, x>> \in R) => x <= y  BY DEF OpToRel
<1> HIDE DEF R
<1>3. PICK x \in S : \A y \in S : ~(<<y, x>> \in R)  BY <1>1, WFMin, Zenon
<1>4. \A y \in S : x <= y  BY <1>2, <1>3, Zenon
<1> QED BY <1>4, Zenon DEF Min

\* alloc3_desc() takes three different descriptors that are free.
LEMMA Alloc3 ==
  ASSUME free \subseteq Desc, Cardinality(free) >= 3,
         NEW i, NEW j, NEW k, i = alloc3_desc[1], j = alloc3_desc[2], k = alloc3_desc[3]
  PROVE  i \in free /\ j \in free /\ k \in free /\ i # j /\ i # k /\ j # k
<1>1. IsFiniteSet(free) /\ Cardinality(free) \in Nat /\ free \subseteq Nat
  <2>1. IsFiniteSet(Desc)  BY DiskAssumption, FS_Interval DEF Desc
  <2>2. Desc \subseteq Nat  BY DiskAssumption DEF Desc
  <2> QED BY <2>1, <2>2, FS_Subset, FS_CardinalityType, Zenon
<1> DEFINE B == free \ {i}  C == B \ {j}
<1>2. i = Min(free) /\ j = Min(free \ {i}) /\ k = Min(free \ {i, j})  BY Zenon DEF alloc3_desc
<1>3. free # {}  BY <1>1, FS_EmptySet
<1>4. i \in free  BY <1>1, <1>2, <1>3, MinIn, Zenon
<1>5. IsFiniteSet(B) /\ Cardinality(B) = Cardinality(free) - 1
  BY <1>1, <1>4, FS_RemoveElement, Zenon
<1>6. B # {}  BY <1>1, <1>5, FS_EmptySet
<1>7. j \in B  BY <1>1, <1>2, <1>6, MinIn, Zenon
<1>8. IsFiniteSet(C) /\ Cardinality(C) = Cardinality(B) - 1
  BY <1>5, <1>7, FS_RemoveElement, Zenon
<1>9. C # {}  BY <1>1, <1>5, <1>8, FS_EmptySet
<1>10. C = free \ {i, j}  BY Zenon
<1>11. k \in C  BY <1>1, <1>2, <1>9, <1>10, MinIn, Zenon
<1> QED BY <1>4, <1>7, <1>11, Zenon

\* alloc3_desc() does what the step that publishes a request needs of it.
LEMMA AllocAlways == TypeOK => AllocOk
<1> SUFFICES ASSUME TypeOK PROVE AllocOk  BY Zenon
<1>1. free \subseteq Desc  BY Zenon DEF TypeOK
<1>2. Cardinality(free) \in Nat
  <2>1. IsFiniteSet(Desc)  BY DiskAssumption, FS_Interval DEF Desc
  <2> QED BY <1>1, <2>1, FS_Subset, FS_CardinalityType, Zenon
<1>3. ASSUME Cardinality(free) >= 3
      PROVE  /\ alloc3_desc[1] \in free /\ alloc3_desc[2] \in free /\ alloc3_desc[3] \in free
             /\ alloc3_desc[1] # alloc3_desc[2] /\ alloc3_desc[1] # alloc3_desc[3]
             /\ alloc3_desc[2] # alloc3_desc[3]
  BY <1>1, <1>3, Alloc3, Zenon
<1> QED BY <1>2, <1>3, Zenon DEF AllocOk

\* Three different descriptors are three.
LEMMA Three ==
  ASSUME NEW S, NEW a, NEW b, NEW c, S = {a, b, c}, a # b, a # c, b # c
  PROVE  Cardinality(S) = 3
<1>1. IsFiniteSet({a}) /\ Cardinality({a}) = 1  BY FS_Singleton, Zenon
<1>2. IsFiniteSet({a} \cup {b}) /\ Cardinality({a} \cup {b}) = 2  BY <1>1, FS_AddElement
<1>3. Cardinality(({a} \cup {b}) \cup {c}) = 3  BY <1>2, FS_AddElement
<1>4. ({a} \cup {b}) \cup {c} = {a, b, c}  BY Zenon
<1> QED BY <1>3, <1>4, Zenon

---------------------------------------------------------------------------
(* References.                                                              *)

Users(b) == {q \in Procs : buf[q] = b}

LEMMA UsersFinite ==
  ASSUME NEW b
  PROVE  IsFiniteSet(Users(b)) /\ Cardinality(Users(b)) \in Nat
BY CacheAssumption, FS_Subset, FS_CardinalityType, Zenon DEF Users

\* RefcntExact for one buffer.
CountOk(b) == refcnt[b] = Cardinality(Users(b)) + (IF blockno[b] \in pinned THEN 1 ELSE 0)

LEMMA Counts == /\ RefcntExact <=> \A b \in Bufs : CountOk(b)
                /\ RefcntExact' <=> \A b \in Bufs : CountOk(b)'
BY Zenon DEF RefcntExact, CountOk, Users

\* A buffer with refcnt = 0 is nobody's and not pinned.
LEMMA UnusedIsFree ==
  ASSUME RefcntExact, NEW b \in Bufs, refcnt[b] = 0
  PROVE  Users(b) = {} /\ blockno[b] \notin pinned /\ \A q \in Procs : buf[q] # b
<1>1. CountOk(b)  BY Counts, Zenon
<1>2. Cardinality(Users(b)) = 0 /\ blockno[b] \notin pinned
  BY <1>1, UsersFinite DEF CountOk
<1>3. Users(b) = {}  BY <1>2, UsersFinite, FS_EmptySet, Zenon
<1> QED BY <1>2, <1>3, Zenon DEF Users

\* A process gets a buffer.
LEMMA UserMore ==
  ASSUME buf \in [Procs -> Bufs \cup {NoBuf}], NEW p \in Procs, NEW b \in Bufs,
         buf[p] = NoBuf, NoBuf \notin Bufs, buf' = [buf EXCEPT ![p] = b]
  PROVE  /\ Cardinality(Users(b)') = Cardinality(Users(b)) + 1
         /\ \A a \in Bufs \ {b} : Users(a)' = Users(a)
<1>1. p \notin Users(b) /\ Users(b)' = Users(b) \cup {p}  BY Zenon DEF Users
<1>2. \A a \in Bufs \ {b} : Users(a)' = Users(a)  BY Zenon DEF Users
<1>3. Cardinality(Users(b) \cup {p}) = Cardinality(Users(b)) + 1
  BY <1>1, UsersFinite, FS_AddElement, Zenon
<1> QED BY <1>1, <1>2, <1>3, Zenon

\* A process gives its buffer up.
LEMMA UserLess ==
  ASSUME buf \in [Procs -> Bufs \cup {NoBuf}], NEW p \in Procs, NEW b \in Bufs,
         buf[p] = b, NoBuf \notin Bufs, buf' = [buf EXCEPT ![p] = NoBuf]
  PROVE  /\ Cardinality(Users(b)') = Cardinality(Users(b)) - 1
         /\ \A a \in Bufs \ {b} : Users(a)' = Users(a)
<1>1. p \in Users(b) /\ Users(b)' = Users(b) \ {p}  BY Zenon DEF Users
<1>2. \A a \in Bufs \ {b} : Users(a)' = Users(a)  BY Zenon DEF Users
<1>3. Cardinality(Users(b) \ {p}) = Cardinality(Users(b)) - 1
  BY <1>1, UsersFinite, FS_RemoveElement, Zenon
<1> QED BY <1>1, <1>2, <1>3, Zenon

\* Every step that changes b->refcnt gives or takes one reference.
LEMMA RefcntStep ==
  ASSUME TypeOK, Shape, BufInv, RefcntExact, [Next]_vars
  PROVE  RefcntExact'
<1> USE SMTT(30)
<1>1. /\ refcnt \in [Bufs -> Nat] /\ buf \in [Procs -> Bufs \cup {NoBuf}] /\ NoBuf \notin Bufs
      /\ blockno \in [Bufs -> Blocks \cup {NoBlock}]
  BY Zenon DEF TypeOK, Shape
<1>2. \A b \in Bufs : CountOk(b)  BY Counts, Zenon
<1>3. ASSUME UNCHANGED <<refcnt, buf, blockno, pinned>> PROVE RefcntExact'
  BY <1>3, Zenon DEF RefcntExact
<1>4. ASSUME NEW p \in Procs, NEW n \in Blocks, BgetHit(p, n) PROVE RefcntExact'
  <2>1. PICK b \in Bufs : /\ pc[p] = "user" /\ refcnt' = [refcnt EXCEPT ![b] = @ + 1]
                          /\ buf' = [buf EXCEPT ![p] = b]
    BY <1>4, Zenon DEF BgetHit, Cached, Running
  <2>2. buf[p] = NoBuf /\ UNCHANGED <<blockno, pinned>>
    BY <1>4, <2>1, Zenon DEF BgetHit, BufInv, ProcInv, bufs
  <2>3. \A a \in Bufs : refcnt'[a] = IF a = b THEN refcnt[a] + 1 ELSE refcnt[a]
    BY <1>1, <2>1, Zenon
  <2>4. /\ Cardinality(Users(b)') = Cardinality(Users(b)) + 1
        /\ \A a \in Bufs \ {b} : Users(a)' = Users(a)
    BY <1>1, <2>1, <2>2, UserMore, Zenon
  <2>5. CountOk(b)'  BY <1>1, <1>2, <2>2, <2>3, <2>4, UsersFinite DEF CountOk
  <2>6. \A a \in Bufs \ {b} : CountOk(a)'  BY <1>2, <2>2, <2>3, <2>4, Zenon DEF CountOk
  <2> QED BY <2>5, <2>6, Counts, Zenon
<1>5. ASSUME NEW p \in Procs, NEW n \in Blocks, BgetMiss(p, n) PROVE RefcntExact'
  <2>1. PICK b \in Bufs : /\ pc[p] = "user" /\ refcnt[b] = 0
                          /\ refcnt' = [refcnt EXCEPT ![b] = 1]
                          /\ buf' = [buf EXCEPT ![p] = b]
                          /\ blockno' = [blockno EXCEPT ![b] = n]
    BY <1>5, Zenon DEF BgetMiss, Unused, Running
  <2>2. buf[p] = NoBuf /\ UNCHANGED pinned /\ n \notin pinned
    BY <1>5, <2>1, Zenon DEF BgetMiss, Cached, BufInv, ProcInv, CacheInv
  <2>3. Cardinality(Users(b)) = 0  BY <2>1, UnusedIsFree, FS_EmptySet, Zenon
  <2>4. /\ Cardinality(Users(b)') = Cardinality(Users(b)) + 1
        /\ \A a \in Bufs \ {b} : Users(a)' = Users(a)
    BY <1>1, <2>1, <2>2, UserMore, Zenon
  <2>5. CountOk(b)'  BY <1>1, <2>1, <2>2, <2>3, <2>4 DEF CountOk
  <2>6. \A a \in Bufs \ {b} : CountOk(a)'  BY <1>1, <1>2, <2>1, <2>2, <2>4, Zenon DEF CountOk
  <2> QED BY <2>5, <2>6, Counts, Zenon
<1>6. ASSUME NEW p \in Procs, Brelse(p) PROVE RefcntExact'
  <2>1. buf[p] \in Bufs  BY <1>1, <1>6, Zenon DEF Brelse, Running, BufInv, ProcInv
  <2>2. PICK b \in Bufs : b = buf[p]  BY <2>1, Zenon
  <2>3. /\ UNCHANGED <<blockno, pinned>> /\ refcnt' = [refcnt EXCEPT ![b] = @ - 1]
        /\ buf' = [buf EXCEPT ![p] = NoBuf]
    BY <1>6, <2>2, Zenon DEF Brelse, bufs
  <2>4. \A a \in Bufs : refcnt'[a] = IF a = b THEN refcnt[a] - 1 ELSE refcnt[a]
    BY <1>1, <2>3, Zenon
  <2>5. /\ Cardinality(Users(b)') = Cardinality(Users(b)) - 1
        /\ \A a \in Bufs \ {b} : Users(a)' = Users(a)
    BY <1>1, <2>2, <2>3, UserLess, Zenon
  <2>6. CountOk(b)'  BY <1>1, <1>2, <2>3, <2>4, <2>5, UsersFinite DEF CountOk
  <2>7. \A a \in Bufs \ {b} : CountOk(a)'  BY <1>2, <2>3, <2>4, <2>5, Zenon DEF CountOk
  <2> QED BY <2>6, <2>7, Counts, Zenon
<1>7. ASSUME NEW p \in Procs, Bpin(p) \/ Bunpin(p) PROVE RefcntExact'
  <2>1. buf[p] \in Bufs /\ blockno[buf[p]] \in Blocks
    <3>1. pc[p] = "hold"  BY <1>7, Zenon DEF Bpin, Bunpin, Running
    <3> QED BY <1>1, <3>1, Zenon DEF BufInv, ProcInv
  <2>2. PICK b \in Bufs, n \in Blocks : b = buf[p] /\ n = blockno[b]  BY <2>1, Zenon
  <2>3. /\ UNCHANGED <<buf, blockno>>
        /\ \/ n \notin pinned /\ pinned' = pinned \cup {n} /\ refcnt' = [refcnt EXCEPT ![b] = @ + 1]
           \/ n \in pinned /\ pinned' = pinned \ {n} /\ refcnt' = [refcnt EXCEPT ![b] = @ - 1]
    BY <1>7, <2>2, Zenon DEF Bpin, Bunpin, diskVars, bufs, locals
  <2>4. \A a \in Bufs : a # b => blockno[a] # n
    BY <2>2, DiskAssumption, Zenon DEF BufInv, CacheInv
  <2>5. \A a \in Bufs : Users(a)' = Users(a)  BY <2>3, Zenon DEF Users
  <2>6. \A a \in Bufs : a # b =>
          refcnt'[a] = refcnt[a] /\ (blockno[a] \in pinned' <=> blockno[a] \in pinned)
    BY <1>1, <2>3, <2>4, Zenon
  <2>7. \/ n \notin pinned /\ n \in pinned' /\ refcnt'[b] = refcnt[b] + 1
        \/ n \in pinned /\ n \notin pinned' /\ refcnt'[b] = refcnt[b] - 1
    BY <1>1, <2>3, Zenon
  <2>8. \A a \in Bufs \ {b} : CountOk(a)'  BY <1>2, <2>3, <2>5, <2>6, Zenon DEF CountOk
  <2>9. CountOk(b)'  BY <1>1, <1>2, <2>2, <2>3, <2>5, <2>7, UsersFinite DEF CountOk
  <2> QED BY <2>8, <2>9, Counts, Zenon
<1>8. ASSUME NEW p \in Procs, Rw(p) PROVE UNCHANGED <<refcnt, buf, blockno, pinned>>
  BY <1>8, Zenon DEF Rw, rw_full, rw_submit, rw_again, cacheVars, bufs, locals
<1>9. ASSUME NEW p \in Procs, RwReturn(p) PROVE UNCHANGED <<refcnt, buf, blockno, pinned>>
  BY <1>9, Zenon DEF RwReturn, rw_done, rw_return, bufs
<1>10. ASSUME NEW p \in Procs, AcquireSleeps(p) \/ Acquiresleep(p) \/ Releasesleep(p) \/ Kill(p)
       PROVE  UNCHANGED <<refcnt, buf, blockno, pinned>>
  BY <1>10, Zenon DEF AcquireSleeps, Acquiresleep, Releasesleep, Kill, cacheVars, bufs, locals
<1>11. ASSUME NEW p \in Procs, Modify(p) \/ Bwrite(p)
       PROVE  UNCHANGED <<refcnt, buf, blockno, pinned>>
  BY <1>11, Zenon DEF Modify, Bwrite, cacheVars, bufs, locals
<1>12. ASSUME NEW h \in Desc, DevComplete(h), UNCHANGED cacheVars
       PROVE  UNCHANGED <<refcnt, buf, blockno, pinned>>
  BY <1>12, Zenon DEF DevComplete, cacheVars, locals
<1>13. Intr \/ UNCHANGED vars => UNCHANGED <<refcnt, buf, blockno, pinned>>
  BY Zenon DEF Intr, IntrAck, IntrUsed, IntrReturn, vars, diskVars, cacheVars, bufs, locals
<1> QED BY <1>3, <1>4, <1>5, <1>6, <1>7, <1>8, <1>9, <1>10, <1>11, <1>12, <1>13, Zenon
        DEF Next, Bio, Caller, Device

---------------------------------------------------------------------------
(* Types.                                                                   *)

\* A reference that is given up was counted.
LEMMA Counted ==
  ASSUME RefcntExact, refcnt \in [Bufs -> Nat], NEW p \in Procs, NEW b \in Bufs,
         buf[p] = b \/ blockno[b] \in pinned
  PROVE  refcnt[b] - 1 \in Nat
<1>1. refcnt[b] # 0  BY UnusedIsFree, Zenon
<1> QED BY <1>1

LEMMA ChanTypes ==
  /\ Awake \in Chans /\ DescChan \in Chans
  /\ \A b \in Bufs : IoChan(b) \in Chans /\ LockChan(b) \in Chans
BY Zenon DEF Chans

LEMMA WokenType ==
  ASSUME asleep \in [Procs -> Chans], NEW c
  PROVE  Woken(c) \in [Procs -> Chans]
BY ChanTypes, Zenon DEF Woken

\* The variables keep their types.
LEMMA TypeStep ==
  ASSUME TypeOK, Shape, BufInv, RefcntExact, [Next]_vars
  PROVE  TypeOK'
<1> USE SMTT(30)
<1>1. CASE UNCHANGED vars
  BY <1>1, Zenon DEF TypeOK, vars, diskVars, cacheVars, driver, rings, bufs, locals
<1>2. ASSUME NEW h \in Desc, DevComplete(h), UNCHANGED cacheVars PROVE TypeOK'
  <2>1. PICK p \in Procs : pc[p] = "io" /\ idx[p] = h
    BY <1>2, Zenon DEF DevComplete, BufInv, RingInv
  <2>2. desc[desc[h].next].addr \in Bufs
    <3>1. desc[desc[h].next].addr = buf[p]  BY <2>1, Request, Zenon DEF BufInv
    <3> QED BY <2>1, <3>1, Zenon DEF BufInv, ProcInv, TypeOK
  <2>3. /\ stored' \in [Blocks -> {0, 1}] /\ fresh' \in [Bufs -> {0, 1}]
    <3>1. ops[h].sector \in Blocks
      <4>1. ops[h].sector = blockno[buf[p]]  BY <2>1, Request, Zenon DEF BufInv
      <4> QED BY <2>1, <4>1 DEF BufInv, ProcInv, Shape
    <3> QED BY <1>2, <2>2, <3>1 DEF DevComplete, Shape
  <2>4. used' \in Seq(Desc) /\ avail' \subseteq Desc /\ irq' \in {0, 1}
    BY <1>2 DEF DevComplete, TypeOK
  <2>5. UNCHANGED <<free, desc, ops, info, handler, blockno, bdisk, asleep, pc, buf, write, idx,
                    valid, refcnt, locked, pinned>>
    BY <1>2, Zenon DEF DevComplete, driver, locals, cacheVars
  <2> QED BY <2>3, <2>4, <2>5, Zenon DEF TypeOK
<1>3. ASSUME Intr PROVE TypeOK'
  <2>1. UNCHANGED <<free, desc, ops, info, avail, stored, fresh, blockno, pc, buf, write, idx,
                    valid, refcnt, locked, pinned>>
    BY <1>3, Zenon DEF Intr, IntrAck, IntrUsed, IntrReturn, driver, locals, cacheVars, bufs
  <2>2. used' \in Seq(Desc) /\ irq' \in {0, 1} /\ handler' \in {0, 1}
    <3>1. used \in Seq(Desc) /\ irq \in {0, 1} /\ handler \in {0, 1}  BY Zenon DEF TypeOK
    <3>2. used # <<>> => Tail(used) \in Seq(Desc)  BY <3>1
    <3> QED BY <1>3, <3>1, <3>2, Zenon DEF Intr, IntrAck, IntrUsed, IntrReturn
  <2>3. bdisk' \in [Bufs -> {0, 1}]
    BY <1>3, Zenon DEF Intr, IntrAck, IntrUsed, IntrReturn, bufs, Shape
  <2>4. asleep' \in [Procs -> Chans]
    BY <1>3, ChanTypes DEF Intr, IntrAck, IntrUsed, IntrReturn, Woken, Shape
  <2> QED BY <2>1, <2>2, <2>3, <2>4, Zenon DEF TypeOK
<1>4. ASSUME NEW p \in Procs, Rw(p) PROVE TypeOK'
  <2>1. UNCHANGED <<used, irq, handler, stored, blockno, fresh, buf, write,
                    valid, refcnt, locked, pinned>>
    BY <1>4, Zenon DEF Rw, rw_full, rw_submit, rw_again, cacheVars, bufs, locals, rings
  <2>2. pc[p] \in {"rw", "io"} /\ buf[p] \in Bufs
    BY <1>4 DEF Rw, rw_full, rw_submit, rw_again, BufInv, ProcInv, Shape
  <2>3. asleep' \in [Procs -> Chans]
    <3>1. asleep \in [Procs -> Chans]  BY Zenon DEF Shape
    <3>2. PICK c \in Chans : asleep' = [asleep EXCEPT ![p] = c]
                             \/ asleep' = [Woken(DescChan) EXCEPT ![p] = c]
      BY <1>4, <2>2, ChanTypes, Zenon DEF Rw, rw_full, rw_submit, rw_again
    <3>3. Woken(DescChan) \in [Procs -> Chans]  BY <3>1, WokenType, Zenon
    <3> QED BY <3>1, <3>2, <3>3, Zenon
  <2>4. CASE rw_full(p) \/ rw_again(p)
    BY <2>1, <2>3, <2>4, Zenon DEF rw_full, rw_again, driver, rings, bufs, locals, TypeOK
  <2>5. CASE rw_submit(p)
    <3> DEFINE i == alloc3_desc[1]  j == alloc3_desc[2]  k == alloc3_desc[3]  b == buf[p]
    <3>1. i \in Desc /\ j \in Desc /\ k \in Desc
      BY <2>5, Alloc3, Zenon DEF rw_submit, TypeOK
    <3>2. /\ free' = free \ {i, j, k}
          /\ ops' = [ops EXCEPT ![i] = [write |-> write[p], sector |-> blockno[b]]]
          /\ desc' = [desc EXCEPT ![i] = [addr |-> NoBuf, next |-> j],
                                  ![j] = [addr |-> b, next |-> k],
                                  ![k] = [addr |-> NoBuf, next |-> -1]]
          /\ bdisk' = [bdisk EXCEPT ![b] = 1] /\ info' = [info EXCEPT ![i] = b]
          /\ avail' = avail \cup {i} /\ pc' = [pc EXCEPT ![p] = "io"]
          /\ idx' = [idx EXCEPT ![p] = i]
      BY <2>5, Zenon DEF rw_submit
    <3> HIDE DEF i, j, k
    <3>3. free' \subseteq Desc /\ avail' \subseteq Desc  BY <3>1, <3>2, Zenon DEF TypeOK
    <3>4. ops' \in [Desc -> [write : {0, 1}, sector : Blocks \cup {NoBlock}]]
      BY <2>2, <3>1, <3>2, Zenon DEF TypeOK
    <3>5. desc' \in [Desc -> [addr : Bufs \cup {NoBuf}, next : -1 .. NUM - 1]]
      <4>1. Desc \subseteq -1 .. NUM - 1 /\ -1 \in -1 .. NUM - 1  BY DiskAssumption DEF Desc
      <4> QED BY <2>2, <3>1, <3>2, <4>1, Zenon DEF TypeOK
    <3>6. bdisk' \in [Bufs -> {0, 1}] /\ info' \in [Desc -> Bufs \cup {NoBuf}]
      BY <2>2, <3>1, <3>2, Zenon DEF TypeOK
    <3>7. idx' \in [Procs -> Desc]
          /\ pc' \in [Procs -> {"user", "lock", "rw", "io", "hold", "brelse"}]
      BY <3>1, <3>2, Zenon DEF TypeOK
    <3> QED BY <2>1, <2>3, <3>3, <3>4, <3>5, <3>6, <3>7, Zenon DEF TypeOK
  <2> QED BY <1>4, <2>4, <2>5, Zenon DEF Rw
<1>5. ASSUME NEW p \in Procs, RwReturn(p) PROVE TypeOK'
  <2>1. pc[p] = "io" /\ free_chain(idx[p]) /\ rw_return(p, "hold")
    BY <1>5, Zenon DEF RwReturn, rw_done
  <2>2. UNCHANGED <<avail, used, irq, handler, stored, blockno, bdisk, fresh, buf,
                    refcnt, locked, pinned>>
    BY <1>5, Zenon DEF RwReturn, rw_done, rw_return, rings, bufs
  <2>3. free' \subseteq Desc
    <3>1. Chain(idx[p]) \subseteq Desc
      <4>1. idx[p] \in Desc /\ desc[idx[p]].next \in Desc /\ desc[desc[idx[p]].next].next \in Desc
        BY <2>1, Request, Zenon DEF BufInv, Mid, Last
      <4> QED BY <4>1, Zenon DEF Chain
    <3> QED BY <2>1, <3>1, Zenon DEF free_chain, TypeOK
  <2>4. /\ desc' \in [Desc -> [addr : Bufs \cup {NoBuf}, next : -1 .. NUM - 1]]
        /\ ops' \in [Desc -> [write : {0, 1}, sector : Blocks \cup {NoBlock}]]
        /\ info' \in [Desc -> Bufs \cup {NoBuf}]
    <3>1. NoDesc \in [addr : Bufs \cup {NoBuf}, next : -1 .. NUM - 1]
      BY DiskAssumption DEF NoDesc
    <3>2. NoOp \in [write : {0, 1}, sector : Blocks \cup {NoBlock}]  BY Zenon DEF NoOp
    <3> QED BY <2>1, <3>1, <3>2, Zenon DEF free_chain, TypeOK
  <2>5. /\ pc' \in [Procs -> {"user", "lock", "rw", "io", "hold", "brelse"}]
        /\ idx' \in [Procs -> Desc] /\ write' \in [Procs -> {0, 1}]
    <3>1. 0 \in Desc  BY DiskAssumption DEF Desc
    <3> QED BY <2>1, <3>1, Zenon DEF rw_return, Shape
  <2>6. asleep' \in [Procs -> Chans] /\ valid' \in [Bufs -> {0, 1}]
    <3>1. asleep' = Woken(DescChan) /\ valid' = [valid EXCEPT ![buf[p]] = 1]
      BY <1>5, Zenon DEF RwReturn, rw_done
    <3>2. asleep \in [Procs -> Chans] /\ valid \in [Bufs -> {0, 1}]  BY Zenon DEF Shape
    <3>3. Woken(DescChan) \in [Procs -> Chans]  BY <3>2, WokenType, Zenon
    <3> QED BY <3>1, <3>2, <3>3, Zenon
  <2> QED BY <2>2, <2>3, <2>4, <2>5, <2>6, Zenon DEF TypeOK
<1>6. ASSUME NEW p \in Procs, AcquireSleeps(p) \/ Acquiresleep(p) \/ Releasesleep(p) \/ Kill(p)
                \/ Modify(p) \/ Bwrite(p)
      PROVE  TypeOK'
  <2>1. UNCHANGED <<free, desc, ops, info, avail, used, irq, handler, blockno, bdisk, buf, idx,
                    valid, refcnt, pinned>>
    <3> USE DEF driver, rings, bufs, locals, cacheVars
    <3>1. CASE AcquireSleeps(p) \/ Kill(p) \/ Modify(p)  BY <3>1, Zenon DEF AcquireSleeps, Kill, Modify
    <3>2. CASE Acquiresleep(p) \/ Releasesleep(p) \/ Bwrite(p)
      BY <3>2, Zenon DEF Acquiresleep, Releasesleep, Bwrite
    <3> QED BY <1>6, <3>1, <3>2, Zenon
  <2>2. CASE Kill(p)
    <3>1. asleep' \in [Procs -> Chans]  BY <2>2, ChanTypes, Zenon DEF Kill, Shape
    <3> QED BY <2>1, <2>2, <3>1, Zenon DEF Kill, bufs, locals, cacheVars, TypeOK
  <2>3. CASE Modify(p)
    <3>1. stored' \in [Blocks -> {0, 1}] /\ fresh' \in [Bufs -> {0, 1}]
      <4> DEFINE n == blockno[buf[p]]
      <4>1. stored' \in [Blocks -> {0, 1}]
        <5>1. stored' = [stored EXCEPT ![n] = 0]  BY <2>3, Zenon DEF Modify
        <5>2. stored \in [Blocks -> {0, 1}]  BY Zenon DEF Shape
        <5> QED BY <5>1, <5>2, Zenon
      <4>2. \A b \in Bufs : fresh[b] \in {0, 1}  BY Zenon DEF Shape
      <4>3. fresh' = [b \in Bufs |-> IF b \in Cached(n) \ {buf[p]} THEN 0 ELSE fresh[b]]
        BY <2>3, Zenon DEF Modify
      <4> HIDE DEF n
      <4>4. fresh' \in [Bufs -> {0, 1}]  BY <4>2, <4>3, Zenon
      <4> QED BY <4>1, <4>4, Zenon
    <3> QED BY <2>1, <2>3, <3>1, Zenon DEF Modify, locals, cacheVars, TypeOK
  <2>4. CASE Bwrite(p)
    <3>1. /\ pc' \in [Procs -> {"user", "lock", "rw", "io", "hold", "brelse"}]
          /\ write' \in [Procs -> {0, 1}]
      BY <2>4, Zenon DEF Bwrite, Goto, Shape
    <3> QED BY <2>1, <2>4, <3>1, Zenon DEF Bwrite, bufs, cacheVars, TypeOK
  <2>5. CASE AcquireSleeps(p) \/ Acquiresleep(p) \/ Releasesleep(p)
    <3>1. buf[p] \in Bufs
      BY <2>5 DEF AcquireSleeps, Acquiresleep, Releasesleep, Running, BufInv, ProcInv, Shape
    <3>2. asleep' \in [Procs -> Chans]
      BY <2>5, <3>1, ChanTypes DEF AcquireSleeps, Acquiresleep, Releasesleep, Woken, Shape
    <3>3. pc' \in [Procs -> {"user", "lock", "rw", "io", "hold", "brelse"}]
      BY <2>5, Zenon DEF AcquireSleeps, Acquiresleep, Releasesleep, Goto, locals, Shape
    <3>4. locked' \in [Bufs -> Procs \cup {NoProc}]
      BY <2>5, Zenon DEF AcquireSleeps, Acquiresleep, Releasesleep, cacheVars, Shape
    <3>5. UNCHANGED <<stored, fresh, write>>
      BY <2>5, Zenon DEF AcquireSleeps, Acquiresleep, Releasesleep, bufs, locals
    <3> QED BY <2>1, <3>2, <3>3, <3>4, <3>5, Zenon DEF TypeOK
  <2> QED BY <1>6, <2>2, <2>3, <2>4, <2>5, Zenon
<1>7. ASSUME NEW p \in Procs, Brelse(p) PROVE TypeOK'
  <2>1. UNCHANGED <<driver, rings, bufs, asleep, write, idx, valid, locked, pinned>>
    BY <1>7, Zenon DEF Brelse
  <2>2. /\ buf' \in [Procs -> Bufs \cup {NoBuf}]
        /\ pc' \in [Procs -> {"user", "lock", "rw", "io", "hold", "brelse"}]
    BY <1>7, Zenon DEF Brelse, Goto, Shape
  <2>3. refcnt' \in [Bufs -> Nat]
    <3>1. buf[p] \in Bufs  BY <1>7 DEF Brelse, Running, BufInv, ProcInv, Shape
    <3>2. refcnt[buf[p]] - 1 \in Nat  BY <3>1, Counted, Zenon DEF TypeOK
    <3>3. refcnt \in [Bufs -> Nat]  BY Zenon DEF TypeOK
    <3> QED BY <1>7, <3>1, <3>2, <3>3, Zenon DEF Brelse
  <2> QED BY <2>1, <2>2, <2>3, Zenon DEF TypeOK, driver, rings, bufs
<1>8. ASSUME NEW p \in Procs, Bpin(p) \/ Bunpin(p) PROVE TypeOK'
  <2>1. UNCHANGED <<diskVars, valid, locked>>  BY <1>8, Zenon DEF Bpin, Bunpin
  <2>2. buf[p] \in Bufs /\ blockno[buf[p]] \in Blocks
    BY <1>8 DEF Bpin, Bunpin, Running, BufInv, ProcInv, Shape
  <2>3. pinned' \subseteq Blocks  BY <1>8, <2>2, Zenon DEF Bpin, Bunpin, Shape
  <2>4. refcnt' \in [Bufs -> Nat]
    <3>1. refcnt[buf[p]] - 1 \in Nat /\ refcnt[buf[p]] + 1 \in Nat
      BY <2>2, Counted DEF TypeOK
    <3> QED BY <1>8, <3>1, Zenon DEF Bpin, Bunpin, TypeOK
  <2> QED BY <2>1, <2>3, <2>4, Zenon DEF TypeOK, diskVars, driver, rings, bufs, locals
<1>9. ASSUME NEW p \in Procs, NEW n \in Blocks, BgetHit(p, n) \/ BgetMiss(p, n) PROVE TypeOK'
  <2>1. UNCHANGED <<driver, rings, stored, bdisk, asleep, write, idx, locked, pinned>>
    BY <1>9, Zenon DEF BgetHit, BgetMiss, bufs
  <2>2. /\ buf' \in [Procs -> Bufs \cup {NoBuf}]
        /\ pc' \in [Procs -> {"user", "lock", "rw", "io", "hold", "brelse"}]
    BY <1>9 DEF BgetHit, BgetMiss, Cached, Unused, Goto, Shape
  <2>3. /\ blockno' \in [Bufs -> Blocks \cup {NoBlock}] /\ fresh' \in [Bufs -> {0, 1}]
        /\ valid' \in [Bufs -> {0, 1}]
    BY <1>9 DEF BgetHit, BgetMiss, bufs, Shape
  <2>4. refcnt' \in [Bufs -> Nat]
    <3>1. refcnt \in [Bufs -> Nat]  BY Zenon DEF TypeOK
    <3>2. PICK b \in Bufs : refcnt' = [refcnt EXCEPT ![b] = @ + 1] \/ refcnt' = [refcnt EXCEPT ![b] = 1]
      BY <1>9, Zenon DEF BgetHit, BgetMiss, Cached, Unused
    <3> QED BY <3>1, <3>2
  <2> QED BY <2>1, <2>2, <2>3, <2>4, Zenon DEF TypeOK, driver, rings
<1> QED BY <1>1, <1>2, <1>3, <1>4, <1>5, <1>6, <1>7, <1>8, <1>9, Zenon DEF Next, Bio, Caller, Device

---------------------------------------------------------------------------
(* Results.                                                                 *)

LEMMA InitInv == Init => TypeOK /\ BufInv /\ RefcntExact
<1> SUFFICES ASSUME Init PROVE TypeOK /\ BufInv /\ RefcntExact  BY Zenon
<1> USE DiskAssumption, CacheAssumption DEF Init, DiskInit
<1>1. TypeOK
  <2>1. 0 \in Desc  BY DEF Desc
  <2>2. NoDesc \in [addr : Bufs \cup {NoBuf}, next : -1 .. NUM - 1]  BY DEF NoDesc
  <2>3. NoOp \in [write : {0, 1}, sector : Blocks \cup {NoBlock}]  BY Zenon DEF NoOp
  <2> QED BY <2>1, <2>2, <2>3, ChanTypes DEF TypeOK
<1>2. ProcInv /\ LockInv /\ SleepInv  BY DEF ProcInv, LockInv, SleepInv, Holding
<1>3. CacheInv /\ DataInv  BY DEF CacheInv, DataInv
<1>4. ChainInv  BY Zenon DEF ChainInv
<1>5. RingInv   BY DEF RingInv, Done
<1>6. RefcntExact
  <2>1. \A b \in Bufs : {p \in Procs : buf[p] = b} = {}  BY Zenon
  <2>2. Cardinality({}) = 0  BY FS_EmptySet, Zenon
  <2>3. \A b \in Bufs : refcnt[b] = 0 /\ blockno[b] \notin pinned  BY Zenon
  <2> HIDE DEF Init
  <2> QED BY <2>1, <2>2, <2>3 DEF RefcntExact
<1> QED BY <1>1, <1>2, <1>3, <1>4, <1>5, <1>6, Zenon DEF BufInv

LEMMA BufStep ==
  ASSUME TypeOK, BufInv, RefcntExact, [Next]_vars
  PROVE  BufInv'
<1>1. Shape  BY ShapeFacts, Zenon
<1>2. CASE UNCHANGED vars
  <2> USE SMTT(30) DEF vars, diskVars, cacheVars
  <2>1. ProcInv' /\ LockInv'  BY <1>2, Zenon DEF BufInv, ProcInv, LockInv, locals, bufs
  <2>2. SleepInv'  BY <1>2, Zenon DEF BufInv, SleepInv, driver, locals, bufs
  <2>3. CacheInv' /\ DataInv'  BY <1>2 DEF BufInv, CacheInv, DataInv, locals, bufs
  <2>4. IoFrame    BY <1>2, Zenon DEF IoFrame, locals, bufs
  <2> QED BY <2>1, <2>2, <2>3, <2>4, IoSame, Zenon DEF BufInv
<1>3. ASSUME NEW p \in Procs, Rw(p) PROVE BufInv'
  BY <1>1, <1>3, AllocAlways, SubmitInv, SleepStepInv, Zenon DEF Rw
<1>4. ASSUME NEW p \in Procs, Bio(p) PROVE BufInv'
  BY <1>1, <1>4, ReturnInv, AcquireInv, BrelseInv, Zenon DEF Bio
<1>5. ASSUME NEW p \in Procs, Caller(p) PROVE BufInv'
  BY <1>1, <1>5, BgetHitInv, BgetMissInv, UnusedIsFree, CallerInv, Zenon DEF Caller
<1>6. ASSUME NEW p \in Procs, Kill(p) PROVE BufInv'
  BY <1>1, <1>6, SleepStepInv, Zenon DEF Kill
<1>7. ASSUME Device \/ Intr PROVE BufInv'
  BY <1>1, <1>7, DeviceInv, IntrInv, Zenon DEF Device, Intr
<1> QED BY <1>2, <1>3, <1>4, <1>5, <1>6, <1>7, Zenon DEF Next

\* The invariant holds in every reachable state.
LEMMA BufAlways == Spec => [](TypeOK /\ BufInv /\ RefcntExact)
<1>1. TypeOK /\ BufInv /\ RefcntExact /\ [Next]_vars => (TypeOK /\ BufInv /\ RefcntExact)'
  BY ShapeFacts, TypeStep, BufStep, RefcntStep, Zenon
<1> QED BY <1>1, InitInv, PTL DEF Spec

\* Every field of the driver and of the cache keeps its type, for any number of processes,
\* buffers, blocks and descriptors; b->refcnt never falls below 0.
THEOREM CacheTypes == Spec => []TypeOK
BY BufAlways, PTL

\* b->refcnt is the number of processes that use the buffer or wait for it, plus the log's
\* pin: bget() never recycles a buffer that somebody relies on.
THEOREM RefcntsCount == Spec => []RefcntExact
BY BufAlways, PTL

\* No process sleeps on a lock that is free, on a buffer the disk is done with or for
\* descriptors that are there, and no completion waits without an interrupt.
THEOREM NobodyOversleeps == Spec => []NoLostWakeup
<1>1. BufInv => NoLostWakeup  BY Zenon DEF BufInv, SleepInv, RingInv, NoLostWakeup
<1> QED BY <1>1, BufAlways, PTL

\* Between bread() and brelse() a process has the only copy of the block, locked, with the
\* latest contents, in whatever order the disk works and buffers are recycled.
THEOREM HoldersSeeLatest == Spec => []BlockCurrent
<1>1. TypeOK /\ BufInv => BlockCurrent
  <2> SUFFICES ASSUME Shape, BufInv, NEW p \in Procs,
                      pc[p] = "hold" \/ (pc[p] \in {"rw", "io"} /\ write[p] = 1)
               PROVE  /\ locked[buf[p]] = p /\ fresh[buf[p]] = 1
                      /\ Cardinality(Cached(blockno[buf[p]])) = 1
    BY ShapeFacts, Zenon DEF BlockCurrent
  <2>1. buf[p] \in Bufs /\ blockno[buf[p]] # NoBlock /\ locked[buf[p]] = p
    BY DEF Shape, BufInv, ProcInv, Holding
  <2>2. fresh[buf[p]] = 1  BY <2>1, Zenon DEF Shape, BufInv, DataInv
  <2>3. Cached(blockno[buf[p]]) = {buf[p]}  BY <2>1, Zenon DEF BufInv, CacheInv, Cached
  <2> QED BY <2>1, <2>2, <2>3, FS_Singleton, Zenon
<1> QED BY <1>1, BufAlways, PTL

\* free_chain() frees three descriptors that are in use and belong to no other request, and
\* the interrupt handler knows the buffer of every request that ends: none of the panics of
\* free_desc() and virtio_disk_intr() fires.
THEOREM ChainsAreOwned == Spec => []ChainsOwned
<1>1. TypeOK /\ BufInv => ChainsOwned
  <2> SUFFICES ASSUME TypeOK, BufInv PROVE ChainsOwned  BY Zenon
  <2>1. ASSUME NEW p \in Procs, pc[p] = "io"
        PROVE  Chain(idx[p]) = Own(p) /\ Cardinality(Own(p)) = 3 /\ Own(p) \cap free = {}
               /\ info[idx[p]] = buf[p]
    <3>1. ReqOk(p)  BY <2>1, Request, Zenon DEF BufInv
    <3>2. -1 \notin Desc  BY DEF Desc
    <3>3. Chain(idx[p]) = Own(p)  BY <3>1, <3>2, Zenon DEF ReqOk, Chain, Own, Mid, Last
    <3>4. Cardinality(Own(p)) = 3
      <4>1. PICK a, b, c : a = idx[p] /\ b = Mid(idx[p]) /\ c = Last(idx[p])  BY Zenon
      <4>2. a # b /\ a # c /\ b # c  BY <3>1, <4>1, Zenon DEF ReqOk
      <4>3. Own(p) = {a, b, c}  BY <4>1, Zenon DEF Own
      <4> QED BY <4>2, <4>3, Three, Zenon
    <3> QED BY <3>1, <3>3, <3>4, Zenon DEF ReqOk, Own
  <2>2. ASSUME NEW p \in Procs, NEW q \in Procs \ {p}, pc[p] = "io", pc[q] = "io"
        PROVE  Chain(idx[p]) \cap Chain(idx[q]) = {}
    <3>1. Own(p) \cap Own(q) = {}  BY <2>2, Zenon DEF BufInv, ChainInv
    <3> QED BY <2>1, <2>2, <3>1, Zenon
  <2>3. ASSUME NEW i \in DOMAIN used PROVE info[used[i]] # NoBuf
    <3>1. PICK p \in Procs : pc[p] = "io" /\ idx[p] = used[i]
      BY <2>3, Zenon DEF BufInv, RingInv, Done
    <3>2. info[used[i]] = buf[p]  BY <2>1, <3>1, Zenon
    <3> QED BY <3>1, <3>2, Zenon DEF BufInv, ProcInv
  <2> QED BY <2>1, <2>2, <2>3, Zenon DEF ChainsOwned
<1> QED BY <1>1, BufAlways, PTL
=============================================================================
