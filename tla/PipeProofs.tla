----------------------------- MODULE PipeProofs -----------------------------
(***************************************************************************)
(* Pipes, for any number of processes, any size of the buffer and of the   *)
(* counters: the page is not freed under anybody, no wakeup is lost, and   *)
(* read() reports the end of file only when there is no writer left.       *)
(***************************************************************************)
EXTENDS Pipe, FiniteSetTheorems, TLAPS

InWrite == {"write", "write_bed", "write_asleep", "write_woken"}
InRead  == {"read", "read_bed", "read_asleep", "read_woken", "copy"}
Locking == {"write", "write_bed", "read", "read_bed", "copy"}

\* A process in the pipe has the end it uses open; one that does not exist has none.
FdInv ==
  \A p \in Procs :
    /\ pc[p] \in InWrite => "w" \in fds[p]
    /\ pc[p] \in InRead => "r" \in fds[p]
    /\ pc[p] = "none" => fds[p] = {}

Holders(e) == {p \in Procs : e \in fds[p]}

\* f->ref counts the descriptors.
RefInv == \A e \in End : ref[e] = Cardinality(Holders(e))

\* A process on its way from fileclose() to pipeclose() had the last reference, nobody
\* else closes that end, and the end is still open.
CloseInv ==
  \A p \in Procs :
    /\ pc[p] = "close_w" => ref["w"] = 0 /\ writeopen = 1
    /\ pc[p] = "close_r" => ref["r"] = 0 /\ readopen = 1
    /\ \A q \in Procs : pc[p] \in {"close_r", "close_w"} /\ pc[q] = pc[p] => p = q

OpenInv ==
  /\ ref["r"] > 0 => readopen = 1
  /\ ref["w"] > 0 => writeopen = 1
  /\ freed = 0 <=> readopen = 1 \/ writeopen = 1

LockInv == \A p \in Procs : pc[p] \in Locking => lock = p

\* Why a sleeper may sleep.  If its condition has changed, the process that changed it
\* holds pi->lock and will call wakeup(), or is a killed writer (cut).
WakeInv ==
  \A p \in Procs :
    /\ pc[p] = "read_bed" => Empty /\ writeopen = 1
    /\ pc[p] = "read_asleep" /\ cut = 0 =>
         (Empty /\ writeopen = 1) \/ \E q \in Procs : pc[q] = "write" /\ cnt[q] > 0
    /\ pc[p] = "write_bed" => Full /\ readopen = 1
    /\ pc[p] = "write_asleep" => (Full /\ readopen = 1) \/ \E q \in Procs : pc[q] = "copy"
    /\ pc[p] = "copy" /\ cnt[p] = 0 => ~Empty \/ writeopen = 0

PipeInv == TypeOK /\ FdInv /\ RefInv /\ CloseInv /\ OpenInv /\ LockInv /\ WakeInv

---------------------------------------------------------------------------

LEMMA ModType ==
  ASSUME NEW x \in Nat, NEW m \in Nat, m > 0
  PROVE  x % m \in 0 .. m - 1
  BY SMT

LEMMA WantNat ==
  ASSUME want \in [Procs -> Counts \cup {0}], NEW p \in Procs
  PROVE  want[p] \in Nat
<1>1. want[p] \in Counts \cup {0}
  OBVIOUS
<1>2. Counts \subseteq Nat
  BY PipeAssumption, Zenon
<1>3. 0 \in Nat
  OBVIOUS
<1> QED
  BY <1>1, <1>2, <1>3, Zenon

LEMMA OneHolder == \A x : Cardinality({x}) = 1
  BY FS_Singleton

LEMMA OneMore ==
  ASSUME NEW S, IsFiniteSet(S), NEW x, x \notin S
  PROVE  Cardinality(S \cup {x}) = Cardinality(S) + 1
  BY FS_AddElement

LEMMA OneLess ==
  ASSUME NEW S, IsFiniteSet(S), NEW x, x \in S
  PROVE  Cardinality(S \ {x}) = Cardinality(S) - 1
  BY FS_RemoveElement

LEMMA HoldersFinite == \A e : IsFiniteSet(Holders(e))
  BY PipeAssumption, FS_Subset DEF Holders

\* An end without references is an end nobody has open.
LEMMA NoHolder ==
  ASSUME PipeInv, NEW e \in End, ref[e] = 0
  PROVE  \A p \in Procs : e \notin fds[p]
<1>1. Holders(e) = {}
  BY HoldersFinite, FS_EmptySet DEF PipeInv, RefInv
<1> QED
  BY <1>1 DEF Holders

\* An end somebody has open is open.
LEMMA Held ==
  ASSUME PipeInv, NEW p \in Procs, NEW e \in End, e \in fds[p]
  PROVE  ref[e] > 0 /\ freed = 0 /\ (e = "r" => readopen = 1) /\ (e = "w" => writeopen = 1)
<1>1. ref[e] # 0
  BY NoHolder
<1>2. ref[e] \in Nat
  BY DEF PipeInv, TypeOK
<1> QED
  BY <1>1, <1>2 DEF PipeInv, OpenInv, End

LEMMA InitInv == Init => PipeInv
<1> SUFFICES ASSUME Init PROVE PipeInv
  OBVIOUS
<1>1. TypeOK
  BY PipeAssumption DEF Init, TypeOK, Pc, End
<1>2. RefInv
  <2>1. \A e \in End : Holders(e) = {}
    BY DEF Init, Holders
  <2> QED
    BY <2>1, FS_EmptySet DEF Init, RefInv
<1>3. FdInv /\ CloseInv /\ LockInv /\ WakeInv
  BY DEF Init, FdInv, CloseInv, LockInv, WakeInv, InWrite, InRead, Locking
<1>4. OpenInv
  BY DEF Init, OpenInv, End
<1> QED
  BY <1>1, <1>2, <1>3, <1>4 DEF PipeInv

---------------------------------------------------------------------------
(* Every step keeps the invariant.                                          *)

LEMMA SpawnInv ==
  ASSUME PipeInv, NEW p \in Procs, Spawn(p)
  PROVE  PipeInv'
<1> USE PipeAssumption, SMTT(30) DEF PipeInv, Spawn, Goto, ring, ends, files, args
<1>1. TypeOK'
  BY ModType DEF TypeOK, Pc, End
<1>2. FdInv'
  BY DEF FdInv, TypeOK, InWrite, InRead, End
<1>3. RefInv'
  BY DEF RefInv, Holders
<1>4. CloseInv'
  BY DEF CloseInv, TypeOK, End
<1>5. OpenInv'
  BY DEF OpenInv, CloseInv, TypeOK, End
<1>6. LockInv'
  BY DEF LockInv, TypeOK, Locking
<1>7. WakeInv'
  BY DEF WakeInv, LockInv, TypeOK, Locking, Empty, Full
<1> QED
  BY <1>1, <1>2, <1>3, <1>4, <1>5, <1>6, <1>7, Zenon DEF PipeInv

LEMMA PipeallocInv ==
  ASSUME PipeInv, NEW p \in Procs, Pipealloc(p)
  PROVE  PipeInv'
<1>a. \A q \in Procs : fds[q] = {}
  <2>1. \A q \in Procs, e \in End : e \notin fds[q]
    BY NoHolder DEF Pipealloc
  <2> QED
    BY <2>1 DEF PipeInv, TypeOK
<1>b. \A q \in Procs : pc[q] \in {"none", "user"}
  BY <1>a DEF Pipealloc, PipeInv, TypeOK, Pc, FdInv, InWrite, InRead, CloseInv, OpenInv
<1> USE PipeAssumption, SMTT(30) DEF PipeInv, Pipealloc, InUser, ring, ends, files, args
<1>1. TypeOK'
  BY ModType DEF TypeOK, Pc, End
<1>2. FdInv'
  BY DEF FdInv, TypeOK, InWrite, InRead, End
<1>3. RefInv'
  <2>1. \A e \in End : Holders(e)' = {p}
    BY <1>a DEF Holders, TypeOK
  <2>2. Cardinality({p}) = 1
    BY OneHolder, Zenon
  <2>3. ref' = [e \in End |-> 1]
    BY Zenon
  <2> QED
    BY <2>1, <2>2, <2>3, Zenon DEF RefInv
<1>4. CloseInv'
  <2>1. pc' = pc
    BY Zenon
  <2> HIDE DEF PipeInv, Pipealloc, InUser
  <2> QED
    BY <1>b, <2>1 DEF CloseInv
<1>5. OpenInv'
  BY DEF OpenInv, CloseInv, TypeOK, End
<1>6. LockInv'
  BY DEF LockInv, TypeOK, Locking
<1>7. WakeInv'
  <2>1. pc' = pc
    BY Zenon
  <2> HIDE DEF PipeInv, Pipealloc, InUser
  <2> QED
    BY <1>b, <2>1 DEF WakeInv
<1> QED
  BY <1>1, <1>2, <1>3, <1>4, <1>5, <1>6, <1>7, Zenon DEF PipeInv

LEMMA ExitInv ==
  ASSUME PipeInv, NEW p \in Procs, Exit(p)
  PROVE  PipeInv'
<1> USE PipeAssumption, SMTT(30) DEF PipeInv, Exit, Goto, ring, ends, files, args
<1>1. TypeOK'
  BY ModType DEF TypeOK, Pc, End
<1>2. FdInv'
  BY DEF FdInv, TypeOK, InWrite, InRead, End
<1>3. RefInv'
  BY DEF RefInv, Holders
<1>4. CloseInv'
  BY DEF CloseInv, TypeOK, End
<1>5. OpenInv'
  BY DEF OpenInv, CloseInv, TypeOK, End
<1>6. LockInv'
  BY DEF LockInv, TypeOK, Locking
<1>7. WakeInv'
  BY DEF WakeInv, LockInv, TypeOK, Locking, Empty, Full
<1> QED
  BY <1>1, <1>2, <1>3, <1>4, <1>5, <1>6, <1>7, Zenon DEF PipeInv

LEMMA KillInv ==
  ASSUME PipeInv, NEW p \in Procs, Kill(p)
  PROVE  PipeInv'
<1> USE PipeAssumption, SMTT(30) DEF PipeInv, Kill, Goto, ring, ends, files, args
<1>1. TypeOK'
  BY ModType DEF TypeOK, Pc, End
<1>2. FdInv'
  BY DEF FdInv, TypeOK, InWrite, InRead, End
<1>3. RefInv'
  BY DEF RefInv, Holders
<1>4. CloseInv'
  BY DEF CloseInv, TypeOK, End
<1>5. OpenInv'
  BY DEF OpenInv, CloseInv, TypeOK, End
<1>6. LockInv'
  BY DEF LockInv, TypeOK, Locking
<1>7. WakeInv'
  BY DEF WakeInv, LockInv, TypeOK, Locking, Empty, Full
<1> QED
  BY <1>1, <1>2, <1>3, <1>4, <1>5, <1>6, <1>7, Zenon DEF PipeInv

LEMMA ForkInv ==
  ASSUME PipeInv, NEW p \in Procs, NEW q \in Procs, Fork(p, q)
  PROVE  PipeInv'
<1>a. fds[q] = {} /\ p # q
  BY DEF PipeInv, FdInv, Fork, InUser
<1>b. \A e \in fds[p] : e \in End /\ ref[e] > 0 /\ (e = "r" => readopen = 1) /\ (e = "w" => writeopen = 1)
  BY Held DEF PipeInv, TypeOK
<1>c. \A e \in End : ref'[e] = ref[e] + (IF e \in fds[p] THEN 1 ELSE 0)
  BY DEF Fork
<1> USE PipeAssumption, SMTT(30) DEF PipeInv, Fork, InUser, Goto, ring, ends, files, args
<1>1. TypeOK'
  BY ModType DEF TypeOK, Pc, End
<1>2. FdInv'
  BY DEF FdInv, TypeOK, InWrite, InRead, End
<1>3. RefInv'
  <2> SUFFICES ASSUME NEW e \in End PROVE ref'[e] = Cardinality(Holders(e)')
    BY Zenon DEF RefInv
  <2>1. ref[e] = Cardinality(Holders(e)) /\ ref[e] \in Nat
    BY DEF RefInv, TypeOK
  <2>2. q \notin Holders(e)
    BY <1>a DEF Holders
  <2>3. \A z \in Procs : fds'[z] = IF z = q THEN fds[p] ELSE fds[z]
    BY DEF TypeOK
  <2> HIDE DEF PipeInv, Fork, InUser
  <2>4. CASE e \in fds[p]
    <3>1. Holders(e)' = Holders(e) \cup {q}
      BY <2>3, <2>4, Zenon DEF Holders
    <3>2. Cardinality(Holders(e) \cup {q}) = Cardinality(Holders(e)) + 1
      BY <2>2, HoldersFinite, OneMore, Zenon
    <3> QED
      BY <1>c, <2>1, <2>4, <3>1, <3>2
  <2>5. CASE e \notin fds[p]
    <3>1. Holders(e)' = Holders(e)
      BY <1>a, <2>3, <2>5, Zenon DEF Holders
    <3> QED
      BY <1>c, <2>1, <2>5, <3>1
  <2> QED
    BY <2>4, <2>5
<1>4. CloseInv'
  <2>1. \A z \in Procs : pc'[z] \in {"close_r", "close_w"} => pc[z] = pc'[z]
    BY DEF TypeOK
  <2>2. CloseInv /\ readopen' = readopen /\ writeopen' = writeopen /\ ref \in [End -> Nat]
    BY DEF TypeOK
  <2> HIDE DEF PipeInv, Fork, InUser
  <2>3. \A e \in End : ref[e] = 0 => ref'[e] = 0
    BY <1>b, <1>c, <2>2
  <2> QED
    BY <2>1, <2>2, <2>3 DEF CloseInv, End
<1>5. OpenInv'
  <2>1. OpenInv /\ UNCHANGED <<readopen, writeopen, freed>> /\ ref \in [End -> Nat]
    BY DEF TypeOK
  <2> HIDE DEF PipeInv, Fork, InUser
  <2>2. "r" \in End /\ "w" \in End
    BY DEF End
  <2> QED
    BY <1>b, <1>c, <2>1, <2>2 DEF OpenInv
<1>6. LockInv'
  BY DEF LockInv, TypeOK, Locking
<1>7. WakeInv'
  BY DEF WakeInv, LockInv, TypeOK, Locking, Empty, Full
<1> QED
  BY <1>1, <1>2, <1>3, <1>4, <1>5, <1>6, <1>7, Zenon DEF PipeInv

LEMMA FilecloseInv ==
  ASSUME PipeInv, NEW p \in Procs, NEW e \in End, Fileclose(p, e)
  PROVE  PipeInv'
<1>a. ref[e] \in Nat /\ ref[e] > 0 /\ (e = "r" => readopen = 1) /\ (e = "w" => writeopen = 1)
  BY Held DEF PipeInv, TypeOK, Fileclose
<1>b. \A f \in End : ref'[f] = IF f = e THEN ref[e] - 1 ELSE ref[f]
  BY DEF Fileclose, PipeInv, TypeOK
<1> USE PipeAssumption, SMTT(30) DEF PipeInv, Fileclose, Goto, ring, ends, files, args
<1>1. TypeOK'
  <2>1. ref' \in [End -> Nat]
    BY <1>a DEF TypeOK
  <2>2. fds' \in [Procs -> SUBSET End]
    BY DEF TypeOK
  <2>3. pc' \in [Procs -> Pc]
    BY DEF TypeOK, Pc
  <2> QED
    BY <2>1, <2>2, <2>3, Zenon DEF TypeOK
<1>2. FdInv'
  BY DEF FdInv, TypeOK, InWrite, InRead, End
<1>3. RefInv'
  <2> SUFFICES ASSUME NEW f \in End PROVE ref'[f] = Cardinality(Holders(f)')
    BY Zenon DEF RefInv
  <2>1. ref[f] = Cardinality(Holders(f)) /\ ref[f] \in Nat
    BY DEF RefInv, TypeOK
  <2>2. \A z \in Procs : fds'[z] = IF z = p THEN fds[p] \ {e} ELSE fds[z]
    BY DEF TypeOK
  <2>3. e \in fds[p]
    BY Zenon
  <2> HIDE DEF PipeInv, Fileclose
  <2>4. CASE f = e
    <3>1. Holders(e)' = Holders(e) \ {p} /\ p \in Holders(e)
      BY <2>2, <2>3, Zenon DEF Holders
    <3>2. Cardinality(Holders(e) \ {p}) = Cardinality(Holders(e)) - 1
      BY <3>1, HoldersFinite, OneLess, Zenon
    <3> QED
      BY <1>b, <2>1, <2>4, <3>1, <3>2
  <2>5. CASE f # e
    <3>1. Holders(f)' = Holders(f)
      BY <2>2, <2>5, Zenon DEF Holders
    <3> QED
      BY <1>b, <2>1, <2>5, <3>1
  <2> QED
    BY <2>4, <2>5
<1>4. CloseInv'
  <2>1. \A z \in Procs : z # p => pc'[z] = pc[z]
    BY DEF TypeOK
  <2>2. pc'[p] = IF ref[e] > 1 THEN "user" ELSE IF e = "r" THEN "close_r" ELSE "close_w"
    BY DEF TypeOK
  <2>3. CloseInv /\ readopen' = readopen /\ writeopen' = writeopen
    BY Zenon
  <2>4. e \in {"r", "w"} /\ "r" \in End /\ "w" \in End
    BY DEF End
  <2> HIDE DEF PipeInv, Fileclose, Goto
  <2>5. \A z \in Procs : z # p =>
          (pc[z] = "close_r" => e # "r") /\ (pc[z] = "close_w" => e # "w")
    BY <1>a, <2>3 DEF CloseInv
  <2> QED
    BY <1>a, <1>b, <2>1, <2>2, <2>3, <2>4, <2>5 DEF CloseInv
<1>5. OpenInv'
  BY DEF OpenInv, CloseInv, TypeOK, End
<1>6. LockInv'
  BY DEF LockInv, TypeOK, Locking
<1>7. WakeInv'
  BY DEF WakeInv, LockInv, TypeOK, Locking, Empty, Full
<1> QED
  BY <1>1, <1>2, <1>3, <1>4, <1>5, <1>6, <1>7, Zenon DEF PipeInv

LEMMA PipecloseWriteInv ==
  ASSUME PipeInv, NEW p \in Procs, PipecloseWrite(p)
  PROVE  PipeInv'
<1> USE PipeAssumption, SMTT(30) DEF PipeInv, PipecloseWrite, WakeReaders, ring, ends, files, args
<1>1. TypeOK'
  BY ModType DEF TypeOK, Pc, End
<1>2. FdInv'
  BY DEF FdInv, TypeOK, InWrite, InRead, End
<1>3. RefInv'
  BY DEF RefInv, Holders
<1>4. CloseInv'
  BY DEF CloseInv, TypeOK, End
<1>5. OpenInv'
  BY DEF OpenInv, CloseInv, TypeOK, End
<1>6. LockInv'
  BY DEF LockInv, TypeOK, Locking
<1>7. WakeInv'
  BY DEF WakeInv, LockInv, TypeOK, Locking, Empty, Full
<1> QED
  BY <1>1, <1>2, <1>3, <1>4, <1>5, <1>6, <1>7, Zenon DEF PipeInv

LEMMA PipecloseReadInv ==
  ASSUME PipeInv, NEW p \in Procs, PipecloseRead(p)
  PROVE  PipeInv'
<1> USE PipeAssumption, SMTT(30) DEF PipeInv, PipecloseRead, WakeWriters, ring, ends, files, args
<1>1. TypeOK'
  BY ModType DEF TypeOK, Pc, End
<1>2. FdInv'
  BY DEF FdInv, TypeOK, InWrite, InRead, End
<1>3. RefInv'
  BY DEF RefInv, Holders
<1>4. CloseInv'
  BY DEF CloseInv, TypeOK, End
<1>5. OpenInv'
  BY DEF OpenInv, CloseInv, TypeOK, End
<1>6. LockInv'
  BY DEF LockInv, TypeOK, Locking
<1>7. WakeInv'
  BY DEF WakeInv, LockInv, TypeOK, Locking, Empty, Full
<1> QED
  BY <1>1, <1>2, <1>3, <1>4, <1>5, <1>6, <1>7, Zenon DEF PipeInv

LEMMA WriteInv ==
  ASSUME PipeInv, NEW p \in Procs, NEW k \in Counts, Write(p, k)
  PROVE  PipeInv'
<1> USE PipeAssumption, SMTT(30) DEF PipeInv, Write, InUser, Goto, ring, ends, files, args
<1>1. TypeOK'
  BY ModType DEF TypeOK, Pc, End
<1>2. FdInv'
  BY DEF FdInv, TypeOK, InWrite, InRead, End
<1>3. RefInv'
  BY DEF RefInv, Holders
<1>4. CloseInv'
  BY DEF CloseInv, TypeOK, End
<1>5. OpenInv'
  BY DEF OpenInv, CloseInv, TypeOK, End
<1>6. LockInv'
  BY DEF LockInv, TypeOK, Locking
<1>7. WakeInv'
  BY DEF WakeInv, LockInv, TypeOK, Locking, Empty, Full
<1> QED
  BY <1>1, <1>2, <1>3, <1>4, <1>5, <1>6, <1>7, Zenon DEF PipeInv

LEMMA WriteAbortInv ==
  ASSUME PipeInv, NEW p \in Procs, WriteAbort(p)
  PROVE  PipeInv'
<1> USE PipeAssumption, SMTT(30) DEF PipeInv, WriteAbort, Return, Goto, ring, ends, files, args
<1>1. TypeOK'
  BY ModType DEF TypeOK, Pc, End
<1>2. FdInv'
  BY DEF FdInv, TypeOK, InWrite, InRead, End
<1>3. RefInv'
  BY DEF RefInv, Holders
<1>4. CloseInv'
  BY DEF CloseInv, TypeOK, End
<1>5. OpenInv'
  BY DEF OpenInv, CloseInv, TypeOK, End
<1>6. LockInv'
  BY DEF LockInv, TypeOK, Locking
<1>7. WakeInv'
  BY DEF WakeInv, LockInv, TypeOK, Locking, Empty, Full
<1> QED
  BY <1>1, <1>2, <1>3, <1>4, <1>5, <1>6, <1>7, Zenon DEF PipeInv

LEMMA WriteFullInv ==
  ASSUME PipeInv, NEW p \in Procs, WriteFull(p)
  PROVE  PipeInv'
<1> USE PipeAssumption, SMTT(30) DEF PipeInv, WriteFull, WakeReaders, ring, ends, files, args
<1>1. TypeOK'
  BY ModType DEF TypeOK, Pc, End
<1>2. FdInv'
  BY DEF FdInv, TypeOK, InWrite, InRead, End
<1>3. RefInv'
  BY DEF RefInv, Holders
<1>4. CloseInv'
  BY DEF CloseInv, TypeOK, End
<1>5. OpenInv'
  BY DEF OpenInv, CloseInv, TypeOK, End
<1>6. LockInv'
  BY DEF LockInv, TypeOK, Locking
<1>7. WakeInv'
  BY DEF WakeInv, LockInv, TypeOK, Locking, Empty, Full
<1> QED
  BY <1>1, <1>2, <1>3, <1>4, <1>5, <1>6, <1>7, Zenon DEF PipeInv

LEMMA WriteSleepInv ==
  ASSUME PipeInv, NEW p \in Procs, WriteSleep(p)
  PROVE  PipeInv'
<1> USE PipeAssumption, SMTT(30) DEF PipeInv, WriteSleep, Goto, ring, ends, files, args
<1>1. TypeOK'
  BY ModType DEF TypeOK, Pc, End
<1>2. FdInv'
  BY DEF FdInv, TypeOK, InWrite, InRead, End
<1>3. RefInv'
  BY DEF RefInv, Holders
<1>4. CloseInv'
  BY DEF CloseInv, TypeOK, End
<1>5. OpenInv'
  BY DEF OpenInv, CloseInv, TypeOK, End
<1>6. LockInv'
  BY DEF LockInv, TypeOK, Locking
<1>7. WakeInv'
  BY DEF WakeInv, LockInv, TypeOK, Locking, Empty, Full
<1> QED
  BY <1>1, <1>2, <1>3, <1>4, <1>5, <1>6, <1>7, Zenon DEF PipeInv

LEMMA WriteByteInv ==
  ASSUME PipeInv, NEW p \in Procs, NEW b \in Byte, WriteByte(p, b)
  PROVE  PipeInv'
<1> USE PipeAssumption, SMTT(30) DEF PipeInv, WriteByte, ring, ends, files, args
<1>1. TypeOK'
  <2>1. nwrite' \in 0 .. UIntMod - 1
    <3>1. nwrite + 1 \in Nat /\ UIntMod > 0
      BY DEF TypeOK
    <3>2. (nwrite + 1) % UIntMod \in 0 .. UIntMod - 1
      BY <3>1, ModType
    <3> QED
      BY <3>2, Zenon
  <2>2. data' \in [0 .. PIPESIZE - 1 -> Byte]
    BY DEF TypeOK
  <2>3. cnt' \in [Procs -> Nat] /\ \A q \in Procs : cnt'[q] <= want[q]
    <3>1. cnt \in [Procs -> Nat] /\ cnt' = [cnt EXCEPT ![p] = cnt[p] + 1]
      BY DEF TypeOK
    <3>2. cnt[p] < want[p] /\ \A q \in Procs : cnt[q] <= want[q]
      BY Zenon DEF TypeOK
    <3>3. want \in [Procs -> Counts \cup {0}]
      BY Zenon DEF TypeOK
    <3> HIDE DEF PipeInv, WriteByte
    <3>4. want[p] \in Nat
      BY <3>3, WantNat, Zenon
    <3> QED
      BY <3>1, <3>2, <3>4
  <2> QED
    BY <2>1, <2>2, <2>3, Zenon DEF TypeOK
<1>2. FdInv'
  BY DEF FdInv, TypeOK, InWrite, InRead, End
<1>3. RefInv'
  BY DEF RefInv, Holders
<1>4. CloseInv'
  BY DEF CloseInv, TypeOK, End
<1>5. OpenInv'
  BY DEF OpenInv, CloseInv, TypeOK, End
<1>6. LockInv'
  BY DEF LockInv, TypeOK, Locking
<1>7. WakeInv'
  BY DEF WakeInv, LockInv, TypeOK, Locking, Empty, Full
<1> QED
  BY <1>1, <1>2, <1>3, <1>4, <1>5, <1>6, <1>7, Zenon DEF PipeInv

LEMMA WriteReturnInv ==
  ASSUME PipeInv, NEW p \in Procs, WriteReturn(p)
  PROVE  PipeInv'
<1> USE PipeAssumption, SMTT(30) DEF PipeInv, WriteReturn, Return, WakeReaders, ring, ends, files, args
<1>1. TypeOK'
  BY ModType DEF TypeOK, Pc, End
<1>2. FdInv'
  BY DEF FdInv, TypeOK, InWrite, InRead, End
<1>3. RefInv'
  BY DEF RefInv, Holders
<1>4. CloseInv'
  BY DEF CloseInv, TypeOK, End
<1>5. OpenInv'
  BY DEF OpenInv, CloseInv, TypeOK, End
<1>6. LockInv'
  BY DEF LockInv, TypeOK, Locking
<1>7. WakeInv'
  BY DEF WakeInv, LockInv, TypeOK, Locking, Empty, Full
<1> QED
  BY <1>1, <1>2, <1>3, <1>4, <1>5, <1>6, <1>7, Zenon DEF PipeInv

LEMMA ResumeInv ==
  ASSUME PipeInv, NEW p \in Procs, Resume(p)
  PROVE  PipeInv'
<1> USE PipeAssumption, SMTT(30) DEF PipeInv, Resume, Goto, ring, ends, files, args
<1>1. TypeOK'
  BY ModType DEF TypeOK, Pc, End
<1>2. FdInv'
  BY DEF FdInv, TypeOK, InWrite, InRead, End
<1>3. RefInv'
  BY DEF RefInv, Holders
<1>4. CloseInv'
  BY DEF CloseInv, TypeOK, End
<1>5. OpenInv'
  BY DEF OpenInv, CloseInv, TypeOK, End
<1>6. LockInv'
  BY DEF LockInv, TypeOK, Locking
<1>7. WakeInv'
  BY DEF WakeInv, LockInv, TypeOK, Locking, Empty, Full
<1> QED
  BY <1>1, <1>2, <1>3, <1>4, <1>5, <1>6, <1>7, Zenon DEF PipeInv

LEMMA ReadInv ==
  ASSUME PipeInv, NEW p \in Procs, NEW k \in Counts, Read(p, k)
  PROVE  PipeInv'
<1> USE PipeAssumption, SMTT(30) DEF PipeInv, Read, InUser, Goto, ring, ends, files, args
<1>1. TypeOK'
  BY ModType DEF TypeOK, Pc, End
<1>2. FdInv'
  BY DEF FdInv, TypeOK, InWrite, InRead, End
<1>3. RefInv'
  BY DEF RefInv, Holders
<1>4. CloseInv'
  BY DEF CloseInv, TypeOK, End
<1>5. OpenInv'
  BY DEF OpenInv, CloseInv, TypeOK, End
<1>6. LockInv'
  BY DEF LockInv, TypeOK, Locking
<1>7. WakeInv'
  BY DEF WakeInv, LockInv, TypeOK, Locking, Empty, Full
<1> QED
  BY <1>1, <1>2, <1>3, <1>4, <1>5, <1>6, <1>7, Zenon DEF PipeInv

LEMMA ReadAbortInv ==
  ASSUME PipeInv, NEW p \in Procs, ReadAbort(p)
  PROVE  PipeInv'
<1> USE PipeAssumption, SMTT(30) DEF PipeInv, ReadAbort, Return, Goto, ring, ends, files, args
<1>1. TypeOK'
  BY ModType DEF TypeOK, Pc, End
<1>2. FdInv'
  BY DEF FdInv, TypeOK, InWrite, InRead, End
<1>3. RefInv'
  BY DEF RefInv, Holders
<1>4. CloseInv'
  BY DEF CloseInv, TypeOK, End
<1>5. OpenInv'
  BY DEF OpenInv, CloseInv, TypeOK, End
<1>6. LockInv'
  BY DEF LockInv, TypeOK, Locking
<1>7. WakeInv'
  BY DEF WakeInv, LockInv, TypeOK, Locking, Empty, Full
<1> QED
  BY <1>1, <1>2, <1>3, <1>4, <1>5, <1>6, <1>7, Zenon DEF PipeInv

LEMMA ReadEmptyInv ==
  ASSUME PipeInv, NEW p \in Procs, ReadEmpty(p)
  PROVE  PipeInv'
<1> USE PipeAssumption, SMTT(30) DEF PipeInv, ReadEmpty, Goto, ring, ends, files, args
<1>1. TypeOK'
  BY ModType DEF TypeOK, Pc, End
<1>2. FdInv'
  BY DEF FdInv, TypeOK, InWrite, InRead, End
<1>3. RefInv'
  BY DEF RefInv, Holders
<1>4. CloseInv'
  BY DEF CloseInv, TypeOK, End
<1>5. OpenInv'
  BY DEF OpenInv, CloseInv, TypeOK, End
<1>6. LockInv'
  BY DEF LockInv, TypeOK, Locking
<1>7. WakeInv'
  BY DEF WakeInv, LockInv, TypeOK, Locking, Empty, Full
<1> QED
  BY <1>1, <1>2, <1>3, <1>4, <1>5, <1>6, <1>7, Zenon DEF PipeInv

LEMMA ReadSleepInv ==
  ASSUME PipeInv, NEW p \in Procs, ReadSleep(p)
  PROVE  PipeInv'
<1> USE PipeAssumption, SMTT(30) DEF PipeInv, ReadSleep, Goto, ring, ends, files, args
<1>1. TypeOK'
  BY ModType DEF TypeOK, Pc, End
<1>2. FdInv'
  BY DEF FdInv, TypeOK, InWrite, InRead, End
<1>3. RefInv'
  BY DEF RefInv, Holders
<1>4. CloseInv'
  BY DEF CloseInv, TypeOK, End
<1>5. OpenInv'
  BY DEF OpenInv, CloseInv, TypeOK, End
<1>6. LockInv'
  BY DEF LockInv, TypeOK, Locking
<1>7. WakeInv'
  BY DEF WakeInv, LockInv, TypeOK, Locking, Empty, Full
<1> QED
  BY <1>1, <1>2, <1>3, <1>4, <1>5, <1>6, <1>7, Zenon DEF PipeInv

LEMMA ReadGoInv ==
  ASSUME PipeInv, NEW p \in Procs, ReadGo(p)
  PROVE  PipeInv'
<1> USE PipeAssumption, SMTT(30) DEF PipeInv, ReadGo, Goto, ring, ends, files, args
<1>1. TypeOK'
  BY ModType DEF TypeOK, Pc, End
<1>2. FdInv'
  BY DEF FdInv, TypeOK, InWrite, InRead, End
<1>3. RefInv'
  BY DEF RefInv, Holders
<1>4. CloseInv'
  BY DEF CloseInv, TypeOK, End
<1>5. OpenInv'
  BY DEF OpenInv, CloseInv, TypeOK, End
<1>6. LockInv'
  BY DEF LockInv, TypeOK, Locking
<1>7. WakeInv'
  BY DEF WakeInv, LockInv, TypeOK, Locking, Empty, Full
<1> QED
  BY <1>1, <1>2, <1>3, <1>4, <1>5, <1>6, <1>7, Zenon DEF PipeInv

LEMMA ReadByteInv ==
  ASSUME PipeInv, NEW p \in Procs, ReadByte(p)
  PROVE  PipeInv'
<1> USE PipeAssumption, SMTT(30) DEF PipeInv, ReadByte, ring, ends, files, args
<1>1. TypeOK'
  <2>1. nread' \in 0 .. UIntMod - 1
    <3>1. nread + 1 \in Nat /\ UIntMod > 0
      BY DEF TypeOK
    <3>2. (nread + 1) % UIntMod \in 0 .. UIntMod - 1
      BY <3>1, ModType
    <3> QED
      BY <3>2, Zenon
  <2>2. got' \in Byte
    <3>1. nread % PIPESIZE \in 0 .. PIPESIZE - 1
      BY ModType DEF TypeOK
    <3> QED
      BY <3>1 DEF TypeOK
  <2>3. cnt' \in [Procs -> Nat] /\ \A q \in Procs : cnt'[q] <= want[q]
    <3>1. cnt \in [Procs -> Nat] /\ cnt' = [cnt EXCEPT ![p] = cnt[p] + 1]
      BY DEF TypeOK
    <3>2. cnt[p] < want[p] /\ \A q \in Procs : cnt[q] <= want[q]
      BY Zenon DEF TypeOK
    <3>3. want \in [Procs -> Counts \cup {0}]
      BY Zenon DEF TypeOK
    <3> HIDE DEF PipeInv, ReadByte
    <3>4. want[p] \in Nat
      BY <3>3, WantNat, Zenon
    <3> QED
      BY <3>1, <3>2, <3>4
  <2> QED
    BY <2>1, <2>2, <2>3, Zenon DEF TypeOK
<1>2. FdInv'
  BY DEF FdInv, TypeOK, InWrite, InRead, End
<1>3. RefInv'
  BY DEF RefInv, Holders
<1>4. CloseInv'
  BY DEF CloseInv, TypeOK, End
<1>5. OpenInv'
  BY DEF OpenInv, CloseInv, TypeOK, End
<1>6. LockInv'
  BY DEF LockInv, TypeOK, Locking
<1>7. WakeInv'
  BY DEF WakeInv, LockInv, TypeOK, Locking, Empty, Full
<1> QED
  BY <1>1, <1>2, <1>3, <1>4, <1>5, <1>6, <1>7, Zenon DEF PipeInv

LEMMA ReadReturnInv ==
  ASSUME PipeInv, NEW p \in Procs, ReadReturn(p)
  PROVE  PipeInv'
<1> USE PipeAssumption, SMTT(30) DEF PipeInv, ReadReturn, Return, WakeWriters, ring, ends, files, args
<1>1. TypeOK'
  BY ModType DEF TypeOK, Pc, End
<1>2. FdInv'
  BY DEF FdInv, TypeOK, InWrite, InRead, End
<1>3. RefInv'
  BY DEF RefInv, Holders
<1>4. CloseInv'
  BY DEF CloseInv, TypeOK, End
<1>5. OpenInv'
  BY DEF OpenInv, CloseInv, TypeOK, End
<1>6. LockInv'
  BY DEF LockInv, TypeOK, Locking
<1>7. WakeInv'
  BY DEF WakeInv, LockInv, TypeOK, Locking, Empty, Full
<1> QED
  BY <1>1, <1>2, <1>3, <1>4, <1>5, <1>6, <1>7, Zenon DEF PipeInv

LEMMA StutterInv == PipeInv /\ UNCHANGED vars => PipeInv'
<1> USE DEF vars, ring, ends, files, args
<1>1. TypeOK /\ UNCHANGED vars => TypeOK'
  BY Zenon DEF TypeOK
<1>2. FdInv /\ RefInv /\ UNCHANGED vars => FdInv' /\ RefInv'
  BY Zenon DEF FdInv, RefInv, Holders
<1>3. CloseInv /\ OpenInv /\ LockInv /\ UNCHANGED vars => CloseInv' /\ OpenInv' /\ LockInv'
  BY Zenon DEF CloseInv, OpenInv, LockInv
<1>4. WakeInv /\ UNCHANGED vars => WakeInv'
  BY Zenon DEF WakeInv, Empty, Full
<1> QED
  BY <1>1, <1>2, <1>3, <1>4, Zenon DEF PipeInv

LEMMA NextInv == PipeInv /\ [Next]_vars => PipeInv'
<1> SUFFICES ASSUME PipeInv, Next PROVE PipeInv'
  BY StutterInv
<1>1. ASSUME NEW p \in Procs, Lifecycle(p) PROVE PipeInv'
  BY <1>1, SpawnInv, PipeallocInv, ExitInv, KillInv, ForkInv, FilecloseInv,
     PipecloseWriteInv, PipecloseReadInv DEF Lifecycle
<1>2. ASSUME NEW p \in Procs, Writing(p) PROVE PipeInv'
  BY <1>2, WriteInv, WriteAbortInv, WriteFullInv, WriteSleepInv, WriteReturnInv,
     WriteByteInv DEF Writing
<1>3. ASSUME NEW p \in Procs, Reading(p) PROVE PipeInv'
  BY <1>3, ReadInv, ReadAbortInv, ReadEmptyInv, ReadSleepInv, ReadGoInv, ReadByteInv,
     ReadReturnInv DEF Reading
<1>4. ASSUME NEW p \in Procs, Resume(p) PROVE PipeInv'
  BY <1>4, ResumeInv
<1> QED
  BY <1>1, <1>2, <1>3, <1>4 DEF Next

LEMMA AlwaysPipeInv == Spec => []PipeInv
  BY InitInv, NextInv, PTL DEF Spec

---------------------------------------------------------------------------

\* For any number of processes f->ref never falls below zero, no call moves more bytes than
\* it was asked to, and the counters stay below 2^32.
THEOREM PipeTypes == Spec => []TypeOK
<1>1. PipeInv => TypeOK
  BY DEF PipeInv
<1> QED
  BY <1>1, AlwaysPipeInv, PTL

\* For any number of processes pipeclose() does not free the page under a process that is
\* in the pipe, and an end that a process has open is open.
THEOREM NotFreedInUse == Spec => []NoUseAfterFree
<1>1. PipeInv => NoUseAfterFree
  <2> SUFFICES ASSUME PipeInv PROVE NoUseAfterFree
    OBVIOUS
  <2>1. ASSUME NEW p \in Procs, InPipe(p) PROVE freed = 0
    <3>1. pc[p] \in InWrite \cup InRead \cup {"close_r", "close_w"}
      BY <2>1 DEF PipeInv, TypeOK, Pc, InPipe, InWrite, InRead
    <3>2. CASE pc[p] \in InWrite
      BY <3>2, Held DEF PipeInv, FdInv, End
    <3>3. CASE pc[p] \in InRead
      BY <3>3, Held DEF PipeInv, FdInv, End
    <3>4. CASE pc[p] \in {"close_r", "close_w"}
      BY <3>4 DEF PipeInv, CloseInv, OpenInv
    <3> QED
      BY <3>1, <3>2, <3>3, <3>4
  <2>2. ASSUME NEW p \in Procs
        PROVE  ("r" \in fds[p] => readopen = 1) /\ ("w" \in fds[p] => writeopen = 1)
    BY Held DEF End
  <2> QED
    BY <2>1, <2>2 DEF NoUseAfterFree
<1> QED
  BY <1>1, AlwaysPipeInv, PTL

\* For any number of processes and any buffer size the two channels of pipewrite() and
\* piperead() lose no wakeup, but for the killed writer.
THEOREM WakeupsKept == Spec => []NoLostWakeup
<1>1. PipeInv => NoLostWakeup
  <2> SUFFICES ASSUME PipeInv, lock = NoProc, NEW p \in Procs
               PROVE  /\ pc[p] = "read_asleep" /\ cut = 0 => Empty /\ writeopen = 1
                      /\ pc[p] = "write_asleep" => Full /\ readopen = 1
    BY DEF NoLostWakeup
  <2>1. \A q \in Procs : pc[q] \notin Locking
    BY PipeAssumption DEF PipeInv, LockInv
  <2> QED
    BY <2>1 DEF PipeInv, WakeInv, Locking
<1> QED
  BY <1>1, AlwaysPipeInv, PTL

\* For any number of readers that compete, piperead() returns 0 only when the pipe is empty
\* and nobody can write to it any more.
THEOREM EofIsTrue == Spec => EofOnlyAtEnd
<1>1. PipeInv /\ [Next]_vars =>
        [\A p \in Procs :
           pc[p] = "copy" /\ pc'[p] = "user" /\ cnt[p] = 0 /\ want[p] > 0 /\ Empty =>
             writeopen = 0 /\ \A q \in Procs : "w" \notin fds[q]]_vars
  <2> SUFFICES ASSUME PipeInv, NEW p \in Procs, pc[p] = "copy", cnt[p] = 0, Empty
               PROVE  writeopen = 0 /\ \A q \in Procs : "w" \notin fds[q]
    BY Zenon
  <2>1. writeopen = 0
    BY DEF PipeInv, WakeInv
  <2>2. \A q \in Procs : "w" \notin fds[q]
    BY <2>1, Held DEF End
  <2> QED
    BY <2>1, <2>2
<1> QED
  BY <1>1, AlwaysPipeInv, PTL DEF Spec, EofOnlyAtEnd
=============================================================================
