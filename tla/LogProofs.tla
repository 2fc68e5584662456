----------------------------- MODULE LogProofs ------------------------------
(***************************************************************************)
(* The log, for any number of processes and blocks, any block contents and *)
(* any log size: its invariant, that it implements the atomic store, and   *)
(* that it never runs out of room.                                         *)
(***************************************************************************)
EXTENDS Log, FiniteSetTheorems, TLAPS

---------------------------------------------------------------------------
(* The invariant.                                                           *)

Committing == {"write_log", "install", "finish"}

\* Headers name distinct home blocks.
HeadInv ==
  /\ \A i \in 0 .. n - 1 : block[i] \in Blocks
  /\ \A i, j \in 0 .. n - 1 : block[i] = block[j] => i = j
  /\ \A i \in 0 .. dn - 1 : dblock[i] \in Blocks
  /\ \A i, j \in 0 .. dn - 1 : dblock[i] = dblock[j] => i = j

SameHead == dn = n /\ \A i \in 0 .. n - 1 : dblock[i] = block[i]

\* Who may do what when: no commit while an operation is outstanding, one committer.
TurnInv ==
  /\ outstanding = Cardinality(Active)
  /\ mode # "run" => committing = 0 /\ \A p \in Procs : opc[p] = "idle"
  /\ \A p \in Procs :
       opc[p] \in Committing =>
         /\ committing = 1 /\ outstanding = 0
         /\ \A q \in Procs : opc[q] \in Committing => q = p
  /\ committing = 1 => \E p \in Procs : opc[p] \in Committing

\* Buffers differ from the disk only if they are pinned, and the pinned ones are
\* those of the log that are not yet installed.
Installing == \E p \in Procs : opc[p] = "install"

Dirty(b) == \E i \in 0 .. n - 1 : block[i] = b /\ (Installing => i >= tail)

CacheInv ==
  /\ mode = "boot" => n = 0
  /\ mode # "run" => \A b \in Blocks : pin[b] = 0 /\ cache[b] \in {NoBuf, disk[b]}
  /\ mode = "run" =>
       \A b \in Blocks :
         /\ Dirty(b) => pin[b] = 1 /\ cache[b] # NoBuf
         /\ ~Dirty(b) => pin[b] = 0 /\ cache[b] \in {NoBuf, disk[b]}

\* What is on disk in each phase.
PhaseInv ==
  /\ mode = "recover" =>
       SameHead /\ tail <= n /\ \A i \in 0 .. tail - 1 : disk[block[i]] = logdata[i]
  /\ mode = "run" /\ ~Installing => dn = 0
  /\ \A p \in Procs :
       /\ opc[p] = "write_log" =>
            tail <= n /\ \A i \in 0 .. tail - 1 : logdata[i] = cache[block[i]]
       /\ opc[p] = "install" =>
            /\ SameHead /\ tail <= n
            /\ \A i \in 0 .. n - 1 :
                 IF i < tail THEN disk[block[i]] = logdata[i]
                             ELSE cache[block[i]] = logdata[i]
       /\ opc[p] = "finish" => n = 0

LogInv == HeadInv /\ TurnInv /\ CacheInv /\ PhaseInv

---------------------------------------------------------------------------
(* Turns.                                                                   *)

\* There are finitely many operations under way.
LEMMA ActiveFinite == IsFiniteSet(Active) /\ Cardinality(Active) \in Nat
<1>1. Active \subseteq Procs  BY Zenon DEF Active
<1> QED BY <1>1, LogAssumption, FS_Subset, FS_CardinalityType, Zenon

\* begin_op() and end_op() change the number of active operations by one.
LEMMA ActiveCount ==
  ASSUME NEW p \in Procs
  PROVE  /\ p \notin Active => Cardinality(Active \cup {p}) = Cardinality(Active) + 1
         /\ p \in Active => Cardinality(Active \ {p}) = Cardinality(Active) - 1
BY ActiveFinite, FS_AddElement, FS_RemoveElement, Zenon

\* The last outstanding operation is the only one, and with none nobody is in one.
LEMMA ActiveLast ==
  ASSUME TurnInv
  PROVE  /\ outstanding = 0 => Active = {}
         /\ \A p \in Active : outstanding = 1 => Active = {p}
<1>1. outstanding = 0 => Active = {}
  BY ActiveFinite, FS_EmptySet, Zenon DEF TurnInv
<1>2. ASSUME NEW p \in Active, outstanding = 1 PROVE Active = {p}
  <2>3. p \in Procs /\ Cardinality(Active) = 1  BY <1>2, Zenon DEF Active, TurnInv
  <2>1. IsFiniteSet(Active \ {p}) /\ Cardinality(Active \ {p}) = 0
    BY <1>2, <2>3, ActiveCount, ActiveFinite, FS_RemoveElement
  <2>2. Active \ {p} = {}  BY <2>1, FS_EmptySet, Zenon
  <2> QED BY <2>2, <1>2, Zenon
<1> QED BY <1>1, <1>2, Zenon

\* Steps that leave the processes where they are.
LEMMA TurnSame == TurnInv /\ UNCHANGED <<outstanding, committing, mode, opc>> => TurnInv'
BY Zenon DEF TurnInv, Active

\* Every action keeps the turns of the processes (TurnInv).
LEMMA TurnStep ==
  ASSUME TypeOK, TurnInv, NEW p \in Procs,
         BeginSleep(p) \/ BeginOp(p) \/ EndOp(p) \/ EndLastOp(p) \/ Commit(p)
  PROVE  TurnInv'
<1> USE SMTT(30) DEF TypeOK, OpPc
<1>1. CASE BeginSleep(p)
  <2>1. Active' = Active  BY <1>1, Zenon DEF BeginSleep, Active
  <2> QED BY <1>1, <2>1, Zenon DEF BeginSleep, TurnInv, Committing
<1>2. CASE BeginOp(p)
  <2>1. p \notin Active /\ Active' = Active \cup {p}  BY <1>2, Zenon DEF BeginOp, Active
  <2>2. committing = 0  BY <1>2, Zenon DEF BeginOp, MustWait
  <2>3. (outstanding = Cardinality(Active))'
    BY <1>2, <2>1, ActiveCount, Zenon DEF BeginOp, TurnInv
  <2> QED BY <1>2, <2>2, <2>3 DEF BeginOp, TurnInv, Committing
<1>3. CASE EndOp(p)
  <2>1. p \in Active /\ Active' = Active \ {p}  BY <1>3, Zenon DEF EndOp, WakeAll, Active
  <2>2. (outstanding = Cardinality(Active))'
    BY <1>3, <2>1, ActiveCount, Zenon DEF EndOp, TurnInv
  <2>3. \A q \in Procs : opc'[q] \in Committing <=> opc[q] \in Committing
    BY <1>3, Zenon DEF EndOp, WakeAll, Committing
  <2>4. \A q \in Procs : opc[q] \notin Committing
    BY <1>3 DEF EndOp, TurnInv
  <2> QED BY <1>3, <2>2, <2>3, <2>4, Zenon DEF EndOp, TurnInv
<1>4. CASE EndLastOp(p)
  <2>1. p \in Active /\ Active' = Active \ {p}  BY <1>4, Zenon DEF EndLastOp, Active
  <2>2. (outstanding = Cardinality(Active))'
    <3>1. Cardinality(Active) = 1 /\ outstanding' = 0  BY <1>4, Zenon DEF EndLastOp, TurnInv
    <3>2. Cardinality(Active \ {p}) = 0  BY <2>1, <3>1, ActiveCount
    <3> QED BY <2>1, <3>1, <3>2, Zenon
  <2>3. \A q \in Procs : opc[q] \notin Committing
    BY <1>4 DEF EndLastOp, TurnInv
  <2> QED BY <1>4, <2>2, <2>3, Zenon DEF EndLastOp, TurnInv, Committing
<1>5. CASE WriteLog(p)  BY <1>5, TurnSame, Zenon DEF WriteLog
<1>6. CASE CommitHead(p) \/ Erase(p)
  <2>1. Active' = Active  BY <1>6, Zenon DEF CommitHead, Erase, Active
  <2> QED BY <1>6, <2>1 DEF CommitHead, Erase, TurnInv, Committing
<1>7. CASE Install(p)   BY <1>7, TurnSame, Zenon DEF Install
<1>8. CASE Finish(p)
  <2>1. Active' = Active  BY <1>8, Zenon DEF Finish, WakeAll, Active
  <2>2. \A q \in Procs : opc'[q] \notin Committing
    BY <1>8, Zenon DEF Finish, WakeAll, TurnInv, Committing
  <2> QED BY <1>8, <2>1, <2>2 DEF Finish, TurnInv, Committing
<1> QED BY <1>1, <1>2, <1>3, <1>4, <1>5, <1>6, <1>7, <1>8, Zenon DEF Commit

---------------------------------------------------------------------------
(* The other parts of the invariant.                                        *)

\* Steps that only move processes, and none into or out of a phase of commit()
\* other than its end.
LEMMA MoveInv ==
  ASSUME LogInv, UNCHANGED <<ondisk, bufs, head, tail, mode>>,
         \A q \in Procs : opc'[q] \in Committing => opc'[q] = opc[q],
         \A q \in Procs : opc[q] = "install" => opc'[q] = "install"
  PROVE  HeadInv' /\ CacheInv' /\ PhaseInv'
<1> USE SMTT(30) DEF ondisk, bufs, head, LogInv
<1>1. Installing' <=> Installing  BY Zenon DEF Installing, Committing
<1>2. HeadInv'   BY Zenon DEF HeadInv
<1>3. CacheInv'  BY <1>1, Zenon DEF CacheInv, Dirty
<1>4. PhaseInv'  BY <1>1 DEF PhaseInv, SameHead, Committing
<1> QED BY <1>2, <1>3, <1>4, Zenon

\* Steps that move a process and touch no block keep what LogInv says of blocks.
LEMMA QuietInv ==
  ASSUME TypeOK, LogInv, NEW p \in Procs,
         BeginSleep(p) \/ BeginOp(p) \/ EndOp(p) \/ Finish(p)
  PROVE  HeadInv' /\ CacheInv' /\ PhaseInv'
<1>1. /\ UNCHANGED <<ondisk, bufs, head, tail, mode>>
      /\ \A q \in Procs : opc'[q] \in Committing => opc'[q] = opc[q]
      /\ \A q \in Procs : opc[q] = "install" => opc'[q] = "install"
  BY Zenon DEF BeginSleep, BeginOp, EndOp, Finish, WakeAll, TypeOK, OpPc, Committing
<1> QED BY <1>1, MoveInv, Zenon

\* The end_op() that starts a commit keeps what LogInv says of blocks.
LEMMA EndLastInv ==
  ASSUME TypeOK, LogInv, NEW p \in Procs, EndLastOp(p)
  PROVE  HeadInv' /\ CacheInv' /\ PhaseInv'
<1> USE SMTT(30) DEF EndLastOp, ondisk, bufs, head, LogInv, TypeOK
<1>1. /\ \A q \in Procs : opc[q] \notin Committing
      /\ mode = "run"
  BY DEF TurnInv
<1>2. ~Installing /\ ~Installing'  BY <1>1, Zenon DEF Installing, Committing
<1>3. HeadInv'   BY Zenon DEF HeadInv
<1>4. CacheInv'  BY <1>2, Zenon DEF CacheInv, Dirty
<1>5. PhaseInv'  BY <1>1, <1>2 DEF PhaseInv, Committing
<1> QED BY <1>3, <1>4, <1>5, Zenon

\* What holds when the committing process p takes a step.
LEMMA Committer ==
  ASSUME TurnInv, NEW p \in Procs, opc[p] \in Committing
  PROVE  /\ mode = "run" /\ Active = {}
         /\ \A q \in Procs \ {p} : opc[q] \notin Committing
         /\ Installing <=> opc[p] = "install"
<1>1. mode = "run" /\ \A q \in Procs \ {p} : opc[q] \notin Committing
  BY Zenon DEF TurnInv, Committing
<1>2. Installing <=> opc[p] = "install"  BY <1>1, Zenon DEF Installing, Committing
<1>3. Active = {}  BY ActiveLast, Zenon DEF TurnInv
<1> QED BY <1>1, <1>2, <1>3, Zenon

\* write_log() keeps what LogInv says of blocks.
LEMMA WriteLogInv ==
  ASSUME TypeOK, LogInv, NEW p \in Procs, WriteLog(p)
  PROVE  HeadInv' /\ CacheInv' /\ PhaseInv'
<1> USE LogAssumption, SMTT(30) DEF WriteLog, head, LogInv, TypeOK
<1>1. /\ mode = "run" /\ ~Installing /\ ~Installing'
      /\ \A q \in Procs \ {p} : opc[q] \notin Committing
  BY Committer, Zenon DEF Committing, Installing
<1>2. block[tail] \in Blocks /\ Dirty(block[tail])
  BY <1>1 DEF HeadInv, Dirty
<1>3. cache' = cache /\ logdata' = [logdata EXCEPT ![tail] = cache[block[tail]]]
  BY <1>1, <1>2, Zenon DEF CacheInv, Bread
<1>4. HeadInv'   BY Zenon DEF HeadInv
<1>5. CacheInv'  BY <1>1, <1>3, Zenon DEF CacheInv, Dirty
<1>6. PhaseInv'
  <2>1. tail \in Entries /\ dn = 0  BY <1>1 DEF PhaseInv, Entries
  <2>2. \A i \in 0 .. tail - 1 : logdata'[i] = cache[block[i]]
    BY <1>3, <2>1 DEF PhaseInv, Entries
  <2> QED BY <1>1, <1>3, <2>1, <2>2 DEF PhaseInv, Committing
<1> QED BY <1>4, <1>5, <1>6, Zenon

\* The header write that commits keeps what LogInv says of blocks.
LEMMA CommitHeadInv ==
  ASSUME TypeOK, LogInv, NEW p \in Procs, CommitHead(p)
  PROVE  HeadInv' /\ CacheInv' /\ PhaseInv'
<1> USE LogAssumption, SMTT(30) DEF CommitHead, WriteHead, bufs, head, LogInv, TypeOK
<1>1. /\ mode = "run" /\ ~Installing /\ Installing'
      /\ \A q \in Procs \ {p} : opc[q] \notin Committing
  BY Committer, Zenon DEF Committing, Installing
<1>2. SameHead'  BY DEF SameHead, Entries
<1>3. HeadInv'   BY DEF HeadInv, Entries
<1>4. CacheInv'  BY <1>1 DEF CacheInv, Dirty
<1>5. PhaseInv'  BY <1>1, <1>2 DEF PhaseInv, Committing
<1> QED BY <1>3, <1>4, <1>5, Zenon

\* install_trans() of a commit keeps what LogInv says of blocks.
LEMMA InstallInv ==
  ASSUME TypeOK, LogInv, NEW p \in Procs, Install(p)
  PROVE  HeadInv' /\ CacheInv' /\ PhaseInv'
<1> USE LogAssumption, SMTT(30) DEF Install, InstallOne, head, LogInv, TypeOK
<1>1. /\ mode = "run" /\ Installing /\ Installing'
      /\ \A q \in Procs \ {p} : opc[q] \notin Committing
  BY Committer, Zenon DEF Committing, Installing
<1>2. block[tail] \in Blocks /\ Dirty(block[tail]) /\ tail \in Entries
  BY <1>1 DEF HeadInv, Dirty, Entries
<1>3. /\ SameHead /\ cache[block[tail]] = logdata[tail]
      /\ \A i \in 0 .. n - 1 : i # tail => block[i] # block[tail]
  BY <1>2 DEF PhaseInv, HeadInv
<1>4. HeadInv'   BY Zenon DEF HeadInv
<1>5. CacheInv'
  <2>1. \A b \in Blocks : b = block[tail] => ~Dirty(b)'  BY <1>1, <1>2, <1>3 DEF Dirty
  <2>2. \A b \in Blocks : b # block[tail] => (Dirty(b)' <=> Dirty(b))
    BY <1>1, <1>2, <1>3 DEF Dirty
  <2> QED BY <1>1, <1>2, <1>3, <2>1, <2>2 DEF CacheInv
<1>6. PhaseInv'  BY <1>1, <1>2, <1>3 DEF PhaseInv, SameHead, Committing, HeadInv
<1> QED BY <1>4, <1>5, <1>6, Zenon

\* Erasing the log after a commit keeps what LogInv says of blocks.
LEMMA EraseInv ==
  ASSUME TypeOK, LogInv, NEW p \in Procs, Erase(p)
  PROVE  HeadInv' /\ CacheInv' /\ PhaseInv'
<1> USE LogAssumption, SMTT(30) DEF Erase, EraseLog, WriteHead, bufs, LogInv, TypeOK
<1>1. /\ mode = "run" /\ Installing /\ ~Installing'
      /\ \A q \in Procs \ {p} : opc[q] \notin Committing
  BY Committer, Zenon DEF Committing, Installing
<1>2. \A b \in Blocks : ~Dirty(b) /\ ~Dirty(b)'  BY <1>1 DEF Dirty
<1>3. HeadInv'   BY DEF HeadInv
<1>4. CacheInv'  BY <1>1, <1>2, Zenon DEF CacheInv
<1>5. PhaseInv'  BY <1>1, Zenon DEF PhaseInv, Committing
<1> QED BY <1>3, <1>4, <1>5, Zenon

\* log_write(): the block is in the log afterwards and its buffer pinned.
LEMMA LogWriteInv ==
  ASSUME TypeOK, LogInv, NEW p \in Procs, NEW b \in Blocks, NEW v \in Val, LogWrite(p, b, v)
  PROVE  HeadInv' /\ CacheInv' /\ PhaseInv'
<1> USE LogAssumption, SMTT(30) DEF LogWrite, ondisk, head, LogInv, TypeOK
<1>1. /\ mode = "run" /\ ~Installing /\ ~Installing'
      /\ \A q \in Procs : opc[q] \notin Committing
  BY DEF TurnInv, Committing, Installing
<1>2. \A c \in Blocks : Dirty(c) <=> Logged(c)  BY <1>1, Zenon DEF Dirty, Logged
<1>3. \A c \in Blocks : Dirty(c)' <=> (Logged(c) \/ c = b)
  <2>1. CASE Logged(b)
    BY <1>1, <2>1, Zenon DEF Dirty, Logged
  <2>2. CASE ~Logged(b)
    <3>1. /\ n' = n + 1 /\ n \in Entries /\ block'[n] = b
          /\ \A i \in 0 .. n - 1 : block'[i] = block[i]
      BY <2>2 DEF Entries
    <3>2. \A i : i \in 0 .. n' - 1 <=> i \in 0 .. n - 1 \/ i = n  BY <3>1
    <3>3. \A c : Dirty(c)' <=> \E i \in 0 .. n' - 1 : block'[i] = c  BY <1>1, Zenon DEF Dirty
    <3> QED BY <3>1, <3>2, <3>3, Zenon DEF Logged
  <2> QED BY <2>1, <2>2, Zenon
<1>4. HeadInv'   BY DEF HeadInv, Logged, Entries
<1>5. CacheInv'
  <2>1. \A c \in Blocks : c # b => pin'[c] = pin[c] /\ cache'[c] = cache[c]  BY Zenon
  <2>2. pin'[b] = 1 /\ cache'[b] # NoBuf  BY <1>1, <1>2 DEF CacheInv
  <2> QED BY <1>1, <1>2, <1>3, <2>1, <2>2, Zenon DEF CacheInv
<1>6. PhaseInv'  BY <1>1, Zenon DEF PhaseInv, Committing
<1> QED BY <1>4, <1>5, <1>6, Zenon

\* The buffer cache reads and recycles clean buffers only.
LEMMA CacheStepInv ==
  ASSUME TypeOK, LogInv, NEW b \in Blocks, Fetch(b) \/ Recycle(b)
  PROVE  HeadInv' /\ CacheInv' /\ PhaseInv'
<1> USE SMTT(30) DEF ondisk, head, LogInv, TypeOK
<1>1. /\ UNCHANGED <<disk, logdata, dn, dblock, pin, n, block, tail, mode, opc>>
      /\ \A c \in Blocks : c # b => cache'[c] = cache[c]
      /\ cache'[b] \in {NoBuf, disk[b]}
      /\ pin[b] = 0 \/ (mode = "run" /\ cache[b] = NoBuf)
  BY Zenon DEF Fetch, Recycle
<1>2. Installing' <=> Installing  BY <1>1, Zenon DEF Installing
<1>3. ~Dirty(b) \/ mode # "run"  BY <1>1 DEF CacheInv
<1>4. HeadInv'   BY <1>1, Zenon DEF HeadInv
<1>5. CacheInv'
  <2>1. \A c \in Blocks : Dirty(c)' <=> Dirty(c)  BY <1>1, <1>2, Zenon DEF Dirty
  <2> QED BY <1>1, <1>3, <2>1, Zenon DEF CacheInv
<1>6. PhaseInv'
  <2>1. ASSUME NEW q \in Procs, opc[q] \in Committing, NEW i \in 0 .. n - 1,
               opc[q] = "install" => i >= tail
        PROVE  cache'[block[i]] = cache[block[i]]
    <3>1. mode = "run" /\ (Installing <=> opc[q] = "install")  BY <2>1, Committer, Zenon
    <3>2. block[i] \in Blocks /\ Dirty(block[i])  BY <2>1, <3>1, Zenon DEF Dirty, HeadInv
    <3> QED BY <1>1, <1>3, <3>1, <3>2, Zenon
  <2> QED BY <1>1, <1>2, <2>1 DEF PhaseInv, SameHead, Committing
<1> QED BY <1>4, <1>5, <1>6, Zenon

\* A crash keeps what LogInv says of blocks.
LEMMA CrashInv ==
  ASSUME TypeOK, LogInv, Crash
  PROVE  LogInv'
<1> USE SMTT(30) DEF Crash, ondisk, LogInv
<1>1. Active' = {}  BY Zenon DEF Active
<1>2. TurnInv'   BY <1>1, FS_EmptySet DEF TurnInv, Committing
<1>3. HeadInv'   BY DEF HeadInv
<1>4. CacheInv'  BY Zenon DEF CacheInv
<1>5. PhaseInv'  BY Zenon DEF PhaseInv, Installing
<1> QED BY <1>2, <1>3, <1>4, <1>5, Zenon

\* initlog() after a crash keeps what LogInv says of blocks.
LEMMA RecoveryInv ==
  ASSUME TypeOK, LogInv, Recovery
  PROVE  LogInv'
<1> USE LogAssumption, SMTT(30) DEF ondisk, bufs, head, LogInv, TypeOK
<1>1. /\ mode # "run" /\ UNCHANGED <<outstanding, committing, opc>>
      /\ \A p \in Procs : opc[p] = "idle"
  BY Zenon DEF Recovery, ReadHead, RecoverInstall, RecoverErase, TurnInv
<1>2. TurnInv'
  <2>1. Active' = Active  BY <1>1, Zenon DEF Active
  <2>2. committing = 0 /\ outstanding = Cardinality(Active)  BY <1>1, Zenon DEF TurnInv
  <2> QED BY <1>1, <2>1, <2>2, Zenon DEF TurnInv, Committing
<1>3. ~Installing /\ ~Installing'  BY <1>1, Zenon DEF Installing
<1>4. CASE ReadHead
  <2> USE DEF ReadHead
  <2>1. SameHead'  BY <1>4 DEF SameHead, Entries
  <2>2. HeadInv'   BY <1>4 DEF HeadInv, Entries
  <2>3. CacheInv'  BY <1>4, Zenon DEF CacheInv
  <2>4. PhaseInv'  BY <1>1, <1>4, <2>1 DEF PhaseInv
  <2> QED BY <1>2, <2>2, <2>3, <2>4, Zenon
<1>5. CASE RecoverInstall
  <2> USE DEF RecoverInstall, InstallOne
  <2>1. block[tail] \in Blocks /\ tail \in Entries
    BY <1>5 DEF HeadInv, Entries
  <2>2. HeadInv'   BY <1>5, Zenon DEF HeadInv
  <2>3. CacheInv'  BY <1>5, <2>1, Zenon DEF CacheInv
  <2>4. PhaseInv'  BY <1>1, <1>5, <2>1 DEF PhaseInv, SameHead, HeadInv
  <2> QED BY <1>2, <2>2, <2>3, <2>4, Zenon
<1>6. CASE RecoverErase
  <2> USE DEF RecoverErase, EraseLog, WriteHead
  <2>1. HeadInv'   BY <1>6 DEF HeadInv
  <2>2. CacheInv'  BY <1>3, <1>6 DEF CacheInv, Dirty
  <2>3. PhaseInv'  BY <1>1, <1>6, Zenon DEF PhaseInv
  <2> QED BY <1>2, <2>1, <2>2, <2>3, Zenon
<1> QED BY <1>4, <1>5, <1>6, Zenon DEF Recovery

---------------------------------------------------------------------------
(* Types, and the invariant as a whole.                                     *)

\* Every action keeps the types.
LEMMA TypeStep ==
  ASSUME TypeOK, LogInv, [Next]_vars
  PROVE  TypeOK'
<1> USE LogAssumption, SMTT(30) DEF TypeOK, ondisk, bufs, head, OpPc, Entries
<1>1. CASE UNCHANGED vars  BY <1>1, Zenon DEF vars
<1>2. ASSUME NEW p \in Procs, BeginSleep(p) \/ BeginOp(p) PROVE TypeOK'
  <2>1. opc' \in [Procs -> OpPc]            BY <1>2, Zenon DEF BeginSleep, BeginOp
  <2>2. outstanding' \in Nat                BY <1>2 DEF BeginSleep, BeginOp
  <2> QED BY <1>2, <2>1, <2>2, Zenon DEF BeginSleep, BeginOp
<1>3. ASSUME NEW p \in Procs, EndOp(p) \/ EndLastOp(p) PROVE TypeOK'
  <2>1. opc' \in [Procs -> OpPc]            BY <1>3 DEF EndOp, EndLastOp, WakeAll
  <2>2. mine' \in [Procs -> SUBSET Blocks]  BY <1>3, Zenon DEF EndOp, EndLastOp
  <2> QED BY <1>3, <2>1, <2>2 DEF EndOp, EndLastOp
<1>4. ASSUME NEW p \in Procs, WriteLog(p) PROVE TypeOK'
  <2>1. Bread(block[tail]) \in Val
    BY <1>4 DEF WriteLog, LogInv, HeadInv, Bread
  <2>2. logdata' \in [Entries -> Val]           BY <1>4, <2>1, Zenon DEF WriteLog
  <2>3. cache' \in [Blocks -> Val \cup {NoBuf}]  BY <1>4, <2>1, Zenon DEF WriteLog
  <2>4. tail' \in 0 .. LOGBLOCKS                BY <1>4 DEF WriteLog
  <2> QED BY <1>4, <2>2, <2>3, <2>4, Zenon DEF WriteLog
<1>5. ASSUME NEW p \in Procs, CommitHead(p) PROVE TypeOK'
  BY <1>5 DEF CommitHead, WriteHead
<1>6. ASSUME NEW p \in Procs, Install(p) PROVE TypeOK'
  <2>1. block[tail] \in Blocks /\ pin[block[tail]] = 1
    <3>1. mode = "run" /\ Installing /\ tail \in 0 .. n - 1
      BY <1>6, Committer DEF Install, InstallOne, LogInv, Committing
    <3>2. block[tail] \in Blocks  BY <3>1, Zenon DEF LogInv, HeadInv
    <3>3. Dirty(block[tail])  BY <3>1 DEF Dirty
    <3> QED BY <3>1, <3>2, <3>3, Zenon DEF LogInv, CacheInv
  <2> QED BY <1>6, <2>1 DEF Install, InstallOne
<1>7. ASSUME NEW p \in Procs, Erase(p) \/ Finish(p) PROVE TypeOK'
  BY <1>7 DEF Erase, EraseLog, WriteHead, Finish, WakeAll
<1>8. ASSUME NEW p \in Procs, NEW b \in Blocks, NEW v \in Val, LogWrite(p, b, v)
      PROVE  TypeOK'
  <2>1. ~Logged(b) => pin[b] = 0
    <3>1. mode = "run"  BY <1>8, Zenon DEF LogWrite, LogInv, TurnInv
    <3>2. ~Logged(b) => ~Dirty(b)  BY Zenon DEF Logged, Dirty
    <3> QED BY <3>1, <3>2, Zenon DEF LogInv, CacheInv
  <2> QED BY <1>8, <2>1 DEF LogWrite
<1>9. ASSUME NEW b \in Blocks, Fetch(b) \/ Recycle(b) PROVE TypeOK'
  <2>1. cache' \in [Blocks -> Val \cup {NoBuf}]  BY <1>9, Zenon DEF Fetch, Recycle
  <2> QED BY <1>9, <2>1, Zenon DEF Fetch, Recycle
<1>10. CASE ReadHead     BY <1>10 DEF ReadHead
<1>11. CASE RecoverInstall
  <2>1. block[tail] \in Blocks  BY <1>11 DEF RecoverInstall, InstallOne, LogInv, HeadInv
  <2> QED BY <1>11, <2>1 DEF RecoverInstall, InstallOne
<1>12. CASE RecoverErase  BY <1>12 DEF RecoverErase, EraseLog, WriteHead
<1>13. CASE Crash         BY <1>13 DEF Crash
<1> QED BY Zenon, <1>1, <1>2, <1>3, <1>4, <1>5, <1>6, <1>7, <1>8, <1>9, <1>10, <1>11, <1>12, <1>13
        DEF Next, Commit, Recovery

\* Every action keeps what LogInv says of blocks.
LEMMA InvStep ==
  ASSUME TypeOK, LogInv, [Next]_vars
  PROVE  LogInv'
<1>1. CASE UNCHANGED vars
  <2>1. UNCHANGED <<outstanding, committing, mode, opc, ondisk, bufs, head, tail>>
    BY <1>1, Zenon DEF vars
  <2> QED BY <2>1, TurnSame, MoveInv, Zenon DEF LogInv
<1>2. ASSUME NEW p \in Procs, BeginSleep(p) \/ BeginOp(p) \/ EndOp(p) PROVE LogInv'
  BY <1>2, TurnStep, QuietInv, Zenon DEF LogInv
<1>3. ASSUME NEW p \in Procs, EndLastOp(p) PROVE LogInv'
  BY <1>3, TurnStep, EndLastInv, Zenon DEF LogInv
<1>4. ASSUME NEW p \in Procs, Commit(p) PROVE LogInv'
  BY <1>4, TurnStep, WriteLogInv, CommitHeadInv, InstallInv, EraseInv, QuietInv, Zenon
     DEF Commit, LogInv
<1>5. ASSUME NEW p \in Procs, NEW b \in Blocks, NEW v \in Val, LogWrite(p, b, v)
      PROVE  LogInv'
  BY <1>5, TurnSame, LogWriteInv, Zenon DEF LogInv, LogWrite
<1>6. ASSUME NEW b \in Blocks, Fetch(b) \/ Recycle(b) PROVE LogInv'
  BY <1>6, TurnSame, CacheStepInv, Zenon DEF LogInv, Fetch, Recycle
<1> QED BY <1>1, <1>2, <1>3, <1>4, <1>5, <1>6, RecoveryInv, CrashInv, Zenon DEF Next

\* A new file system satisfies the invariant.
LEMMA InitInv == Init => TypeOK /\ LogInv
<1> SUFFICES ASSUME Init PROVE TypeOK /\ LogInv  BY Zenon
<1> USE LogAssumption, SMTT(30) DEF Init
<1>1. TypeOK    BY DEF TypeOK, OpPc, Entries
<1>2. Active = {}  BY Zenon DEF Active
<1>3. TurnInv   BY <1>2, FS_EmptySet DEF TurnInv, Committing
<1>4. HeadInv   BY DEF HeadInv
<1>5. CacheInv  BY Zenon DEF CacheInv
<1>6. PhaseInv  BY Zenon DEF PhaseInv, Installing
<1> QED BY <1>1, <1>3, <1>4, <1>5, <1>6, Zenon DEF LogInv

\* The invariant holds in every reachable state.
LEMMA InvAlways == Spec => [](TypeOK /\ LogInv)
<1>1. TypeOK /\ LogInv /\ [Next]_vars => (TypeOK /\ LogInv)'
  BY TypeStep, InvStep, Zenon
<1> QED BY InitInv, <1>1, PTL DEF Spec

\* Every variable keeps its type; in particular lh.n and the indices used by
\* write_log() and install_trans() stay within lh.block[] and no buffer is pinned
\* twice or unpinned without a pin.
THEOREM LogTypes == Spec => []TypeOK
BY InvAlways, PTL

---------------------------------------------------------------------------
(* Every step of the log is a step of AtomicStore or leaves it unchanged.   *)

InHead(b) == \E i \in 0 .. dn - 1 : dblock[i] = b

DurableIs ==
  /\ \A i \in 0 .. dn - 1 : Durable[dblock[i]] = logdata[i]
  /\ \A b \in Blocks : ~InHead(b) => Durable[b] = disk[b]

\* What Durable is, in terms of the entries of the header on disk.
LEMMA DurableValue ==
  ASSUME TypeOK, HeadInv
  PROVE  DurableIs
<1> USE SMTT(30) DEF DurableIs
<1>1. ASSUME NEW i \in 0 .. dn - 1 PROVE Durable[dblock[i]] = logdata[i]
  <2> DEFINE j == CHOOSE k \in 0 .. dn - 1 : dblock[k] = dblock[i]
  <2>1. j \in 0 .. dn - 1 /\ dblock[j] = dblock[i]  BY Zenon
  <2>2. j = i  BY <2>1, Zenon DEF HeadInv
  <2>3. dblock[i] \in Blocks  BY Zenon DEF HeadInv
  <2> HIDE DEF j
  <2> QED BY <2>2, <2>3, Zenon DEF Durable, j
<1>2. ASSUME NEW b \in Blocks, ~InHead(b) PROVE Durable[b] = disk[b]
  BY <1>2, Zenon DEF Durable, InHead
<1> QED BY <1>1, <1>2, Zenon

\* With an empty log recovery yields the home blocks.
LEMMA DurableEmpty == TypeOK /\ dn = 0 => Durable = disk
BY DEF TypeOK, Durable

\* Two functions on Blocks are equal if they agree on every block.
LEMMA Extensional ==
  ASSUME NEW f, NEW g, NEW S, NEW T, f \in [S -> T], g \in [S -> T],
         \A x \in S : f[x] = g[x]
  PROVE  f = g
OBVIOUS

\* Recovery yields a value for every block.
LEMMA DurableType == TypeOK /\ HeadInv => Durable \in [Blocks -> Val]
<1> SUFFICES ASSUME TypeOK, HeadInv, NEW b \in Blocks PROVE Durable[b] \in Val
  BY Zenon DEF Durable
<1>1. CASE InHead(b)
  <2>1. PICK i \in 0 .. dn - 1 : dblock[i] = b  BY <1>1, Zenon DEF InHead
  <2> QED BY <2>1, DurableValue, LogAssumption DEF DurableIs, TypeOK, Entries
<1>2. CASE ~InHead(b)  BY <1>2, DurableValue, Zenon DEF DurableIs, TypeOK
<1> QED BY <1>1, <1>2, Zenon

\* bread() yields a value for every block.
LEMMA CurrentType == TypeOK /\ HeadInv => Current \in [Blocks -> Val]
BY DurableType, Zenon DEF Current, Bread, TypeOK

\* The same facts about the state after a step.
LEMMA DurableNext ==
  /\ TypeOK' /\ HeadInv' => DurableIs' /\ Durable' \in [Blocks -> Val]
  /\ TypeOK' /\ dn' = 0 => Durable' = disk'
<1> DEFINE T == Durable \in [Blocks -> Val]
           E == dn = 0
           S == Durable = disk
<1>1. TypeOK /\ HeadInv => DurableIs /\ T  BY DurableValue, DurableType, Zenon
<1>2. TypeOK /\ E => S  BY DurableEmpty, Zenon
<1>3. (T' <=> Durable' \in [Blocks -> Val]) /\ (E' <=> dn' = 0) /\ (S' <=> Durable' = disk')
  BY Zenon DEF T, E, S
<1> HIDE DEF T, E, S
<1>4. TypeOK' /\ HeadInv' => DurableIs' /\ T'  BY <1>1, PTL
<1>5. TypeOK' /\ E' => S'  BY <1>2, PTL
<1> QED BY <1>3, <1>4, <1>5, Zenon

---------------------------------------------------------------------------
(* What a step does to Durable, Current and Active.                         *)

mapped == <<Durable, Current, Active>>

\* Steps that leave the disk alone leave Durable alone.
LEMMA DurableSame == UNCHANGED ondisk => Durable' = Durable
BY Zenon DEF ondisk, Durable

\* While nothing is committed, Durable is the disk; Current is what bread() returns.
LEMMA Running ==
  ASSUME TypeOK, LogInv, mode = "run"
  PROVE  /\ \A b \in Blocks : Current[b] = Bread(b)
         /\ ~Installing => Durable = disk
BY DurableEmpty, Zenon DEF LogInv, PhaseInv, Current

\* Steps that only move a process implement Begin, End or a stutter.
LEMMA MoveStep ==
  ASSUME TypeOK, LogInv, NEW p \in Procs,
         BeginSleep(p) \/ BeginOp(p) \/ EndOp(p) \/ EndLastOp(p) \/ Finish(p)
  PROVE  [Store!Next]_mapped
<1> USE SMTT(30) DEF mapped, TypeOK, OpPc
<1>1. Durable' = Durable
  BY DurableSame, Zenon DEF BeginSleep, BeginOp, EndOp, EndLastOp, Finish
<1>2. Current' = Current
  BY <1>1, Zenon DEF Current, Bread, BeginSleep, BeginOp, EndOp, EndLastOp, Finish, ondisk, bufs
<1>3. CASE BeginSleep(p) \/ Finish(p)
  <2>1. Active' = Active  BY <1>3, Zenon DEF Active, BeginSleep, Finish, WakeAll
  <2> QED BY <1>1, <1>2, <2>1, Zenon
<1>4. CASE BeginOp(p)
  <2>1. p \notin Active /\ Active' = Active \cup {p}  BY <1>4, Zenon DEF BeginOp, Active
  <2> QED BY <1>1, <1>2, <2>1, Zenon DEF Store!Next, Store!Begin
<1>5. CASE EndOp(p) \/ EndLastOp(p)
  <2>1. p \in Active /\ Active' = Active \ {p}
    BY <1>5, Zenon DEF EndOp, EndLastOp, WakeAll, Active
  <2> QED BY <1>1, <1>2, <2>1, Zenon DEF Store!Next, Store!End
<1> QED BY <1>3, <1>4, <1>5, Zenon

\* log_write() implements Update.
LEMMA LogWriteStep ==
  ASSUME TypeOK, LogInv, NEW p \in Procs, NEW b \in Blocks, NEW v \in Val, LogWrite(p, b, v)
  PROVE  [Store!Next]_mapped
<1> USE SMTT(30) DEF LogWrite, TypeOK
<1>1. mode = "run" /\ v # NoBuf  BY LogAssumption, Zenon DEF LogInv, TurnInv
<1>2. Durable' = Durable  BY DurableSame, Zenon
<1>3. Active' = Active /\ p \in Active  BY Zenon DEF Active
<1>4. Current' = [Current EXCEPT ![b] = v]  BY <1>1, Zenon DEF Current, Bread, ondisk
<1> QED BY <1>2, <1>3, <1>4, Zenon DEF Store!Next, Store!Update

\* Fetching and recycling buffers is invisible.
LEMMA CacheStep ==
  ASSUME TypeOK, LogInv, NEW b \in Blocks, Fetch(b) \/ Recycle(b)
  PROVE  UNCHANGED mapped
<1> USE SMTT(30) DEF mapped, TypeOK
<1>1. Durable' = Durable /\ Active' = Active
  BY DurableSame, Zenon DEF Fetch, Recycle, Active
<1>2. mode = "run" => \A c \in Blocks : Bread(c)' = Bread(c)
  BY LogAssumption DEF Fetch, Recycle, ondisk, Bread, LogInv, CacheInv
<1>3. Current' = Current
  BY <1>1, <1>2, Zenon DEF Current, Fetch, Recycle
<1> QED BY <1>1, <1>3, Zenon

\* write_log() is invisible: the header does not count its blocks.
LEMMA WriteLogStep ==
  ASSUME TypeOK, LogInv, NEW p \in Procs, WriteLog(p)
  PROVE  UNCHANGED mapped
<1> USE SMTT(30) DEF mapped, TypeOK, WriteLog
<1>1. mode = "run" /\ ~Installing /\ dn = 0
  BY Committer, Zenon DEF LogInv, Committing, PhaseInv
<1>2. Active' = Active  BY Zenon DEF Active
<1>3. Durable' = Durable  BY <1>1 DEF Durable
<1>4. Current' = Current
  BY <1>1, Zenon DEF Current, Bread
<1> QED BY <1>2, <1>3, <1>4, Zenon

\* The one step that makes anything durable: all of it at once.
LEMMA CommitHeadStep ==
  ASSUME TypeOK, LogInv, TypeOK', LogInv', NEW p \in Procs, CommitHead(p)
  PROVE  [Store!Next]_mapped
<1> USE SMTT(30) DEF LogInv, CommitHead, bufs, head
<1>1. /\ mode = "run" /\ mode' = "run" /\ ~Installing /\ Active = {} /\ Active' = {}
      /\ tail = n /\ \A i \in 0 .. n - 1 : logdata[i] = cache[block[i]]
  BY Committer, Zenon DEF Committing, PhaseInv, Active, TypeOK
<1>2. /\ n \in 0 .. LOGBLOCKS /\ dn' = n
      /\ \A i \in 0 .. n - 1 : dblock'[i] = block[i]
  BY LogAssumption DEF WriteHead, TypeOK, Entries
<1>3. Current' = Current  BY <1>1, Zenon DEF Current, Bread
<1>4. ASSUME NEW b \in Blocks PROVE Durable'[b] = Current[b]
  <2>1. Current[b] = Bread(b)  BY <1>1, Running, Zenon
  <2>2. CASE Dirty(b)
    <3>1. PICK i \in 0 .. n - 1 : block[i] = b  BY <2>2, Zenon DEF Dirty
    <3>2. Durable'[dblock'[i]] = logdata'[i]  BY <1>2, DurableNext, Zenon DEF DurableIs
    <3>3. cache[b] # NoBuf  BY <1>1, <2>2, Zenon DEF CacheInv
    <3> QED BY <1>1, <1>2, <2>1, <3>1, <3>2, <3>3, Zenon DEF Bread
  <2>3. CASE ~Dirty(b)
    <3>1. ~InHead(b)'  BY <1>1, <1>2, <2>3, Zenon DEF InHead, Dirty
    <3>2. Durable'[b] = disk'[b]  BY <3>1, DurableNext, Zenon DEF DurableIs
    <3>3. cache[b] \in {NoBuf, disk[b]}  BY <1>1, <2>3, Zenon DEF CacheInv
    <3> QED BY <2>1, <3>2, <3>3, Zenon DEF Bread
  <2> QED BY <2>2, <2>3, Zenon
<1>5. Durable' = Current
  <2>1. Durable' \in [Blocks -> Val]  BY DurableNext, Zenon
  <2>2. Current \in [Blocks -> Val]   BY CurrentType, Zenon
  <2> QED BY <1>4, <2>1, <2>2
<1> QED BY <1>1, <1>3, <1>5, Zenon DEF Store!Next, Store!Commit

\* Installing a block again and again, before or after a crash, changes nothing.
LEMMA InstallOneSame ==
  ASSUME TypeOK, LogInv, InstallOne, SameHead
  PROVE  Durable' = Durable
<1> USE SMTT(30) DEF InstallOne, head
<1>1. tail \in 0 .. dn - 1 /\ dblock[tail] = block[tail]  BY DEF SameHead, TypeOK
<1>2. ASSUME NEW b \in Blocks, ~InHead(b) PROVE disk'[b] = disk[b]
  BY <1>1, <1>2, Zenon DEF InHead, TypeOK
<1> QED BY <1>2, Zenon DEF Durable, InHead

\* Installing a block in a commit is invisible.
LEMMA InstallStep ==
  ASSUME TypeOK, LogInv, NEW p \in Procs, Install(p)
  PROVE  UNCHANGED mapped
<1> USE SMTT(30) DEF LogInv, Install, mapped
<1>1. mode = "run" /\ Installing /\ SameHead /\ tail \in 0 .. n - 1
  BY Committer DEF Committing, PhaseInv, InstallOne, TypeOK
<1>2. Durable' = Durable  BY <1>1, InstallOneSame, Zenon
<1>3. Active' = Active  BY Zenon DEF Active
<1>4. Dirty(block[tail]) /\ block[tail] \in Blocks  BY <1>1 DEF Dirty, HeadInv, TypeOK
<1>5. cache[block[tail]] = logdata[tail] /\ cache[block[tail]] # NoBuf
  BY <1>1, <1>4 DEF PhaseInv, CacheInv
<1>6. \A b \in Blocks : Bread(b)' = Bread(b)
  BY <1>4, <1>5, Zenon DEF Bread, InstallOne, TypeOK
<1>7. Current' = Current  BY <1>1, <1>6, Zenon DEF Current
<1> QED BY <1>2, <1>3, <1>7, Zenon

\* Once every entry is installed the header is no longer needed.
LEMMA Installed ==
  ASSUME TypeOK, HeadInv, SameHead, \A i \in 0 .. n - 1 : disk[block[i]] = logdata[i]
  PROVE  Durable = disk
<1>1. ASSUME NEW b \in Blocks PROVE Durable[b] = disk[b]
  <2>1. CASE InHead(b)
    <3>1. PICK i \in 0 .. dn - 1 : dblock[i] = b  BY <2>1, Zenon DEF InHead
    <3> QED BY <3>1, DurableValue, Zenon DEF DurableIs, SameHead
  <2> QED BY <2>1, DurableValue, Zenon DEF DurableIs
<1>2. Durable \in [Blocks -> Val] /\ disk \in [Blocks -> Val]  BY DurableType, Zenon DEF TypeOK
<1> QED BY <1>1, <1>2

\* Erasing an installed log is invisible.
LEMMA EraseStep ==
  ASSUME TypeOK, LogInv, TypeOK', NEW p \in Procs, Erase(p)
  PROVE  UNCHANGED mapped
<1> USE SMTT(30) DEF LogInv, Erase, EraseLog, mapped, bufs
<1>1. mode = "run" /\ SameHead /\ \A i \in 0 .. n - 1 : disk[block[i]] = logdata[i]
  BY Committer DEF Committing, PhaseInv, TypeOK
<1>2. Durable = disk  BY <1>1, Installed, Zenon
<1>3. Durable' = disk'  BY DurableNext, Zenon DEF WriteHead
<1>4. Active' = Active  BY Zenon DEF Active, TypeOK
<1>5. Current' = Current  BY <1>1, Zenon DEF Current, Bread
<1> QED BY <1>2, <1>3, <1>4, <1>5, Zenon

\* Recovery is invisible.
LEMMA RecoveryStep ==
  ASSUME TypeOK, LogInv, TypeOK', Recovery
  PROVE  UNCHANGED mapped
<1> USE SMTT(30)
<1>1. Active' = Active
  BY Zenon DEF Recovery, ReadHead, RecoverInstall, RecoverErase, Active
<1>2. CASE ReadHead
  <2>1. Durable' = Durable  BY <1>2, DurableSame, Zenon DEF ReadHead
  <2>2. mode # "run" /\ mode' # "run"  BY <1>2, Zenon DEF ReadHead
  <2> QED BY <1>1, <2>1, <2>2, Zenon DEF Current, mapped
<1>3. CASE RecoverInstall
  <2>1. Durable' = Durable
    BY <1>3, InstallOneSame, Zenon DEF RecoverInstall, LogInv, PhaseInv
  <2>2. mode # "run" /\ mode' # "run"  BY <1>3, Zenon DEF RecoverInstall
  <2> QED BY <1>1, <2>1, <2>2, Zenon DEF Current, mapped
<1>4. CASE RecoverErase
  <2>1. SameHead /\ \A i \in 0 .. n - 1 : disk[block[i]] = logdata[i]
    BY <1>4, Zenon DEF LogInv, PhaseInv, RecoverErase, EraseLog
  <2>2. Durable = disk  BY <2>1, Installed, Zenon DEF LogInv
  <2>3. dn' = 0 /\ disk' = disk /\ cache' = cache
    BY <1>4, Zenon DEF RecoverErase, EraseLog, WriteHead, bufs
  <2>4. Durable' = disk  BY <2>3, DurableNext, Zenon
  <2>5. mode # "run" /\ mode' = "run"  BY <1>4, Zenon DEF RecoverErase
  <2>6. \A b \in Blocks : Bread(b)' = disk[b]
    BY <2>3, <2>5, Zenon DEF LogInv, CacheInv, Bread
  <2>7. Current' = disk  BY <2>5, <2>6, Zenon DEF Current, TypeOK
  <2> QED BY <1>1, <2>2, <2>4, <2>5, <2>7, Zenon DEF Current, mapped
<1> QED BY <1>2, <1>3, <1>4, Zenon DEF Recovery

\* A crash implements Crash.
LEMMA CrashStep ==
  ASSUME Crash
  PROVE  [Store!Next]_mapped
<1>1. Durable' = Durable  BY DurableSame, Zenon DEF Crash
<1>2. Active' = {}  BY Zenon DEF Crash, Active
<1>3. Current' = Durable  BY <1>1, Zenon DEF Crash, Current
<1> QED BY <1>1, <1>2, <1>3, Zenon DEF Store!Next, Store!Crash

---------------------------------------------------------------------------

\* The initial states map to initial states of the store.
LEMMA InitStore == Init => Store!Init
<1> SUFFICES ASSUME Init PROVE Store!Init  BY Zenon
<1>1. TypeOK /\ LogInv  BY InitInv, Zenon
<1>2. Durable \in [Blocks -> Val]  BY <1>1, DurableType, Zenon DEF LogInv
<1>3. Current = Durable  BY Zenon DEF Init, Current
<1>4. Active = {}  BY Zenon DEF Init, Active
<1> QED BY <1>2, <1>3, <1>4, Zenon DEF Store!Init

\* Every step maps to a step of the store or a stutter.
LEMMA StoreStep ==
  ASSUME TypeOK, LogInv, [Next]_vars
  PROVE  [Store!Next]_mapped
<1>1. TypeOK' /\ LogInv'  BY TypeStep, InvStep, Zenon
<1>2. CASE UNCHANGED vars
  <2>1. UNCHANGED <<ondisk, cache, mode, opc>>  BY <1>2, Zenon DEF vars, bufs
  <2>2. Durable' = Durable /\ Active' = Active  BY <2>1, DurableSame, Zenon DEF Active
  <2>3. Current' = Current  BY <2>1, <2>2, Zenon DEF Current, Bread, ondisk
  <2> QED BY <2>2, <2>3, Zenon DEF mapped
<1>3. ASSUME NEW p \in Procs, Commit(p) PROVE [Store!Next]_mapped
  BY <1>1, <1>3, MoveStep, WriteLogStep, CommitHeadStep, InstallStep, EraseStep, Zenon DEF Commit
<1>4. ASSUME NEW p \in Procs, BeginSleep(p) \/ BeginOp(p) \/ EndOp(p) \/ EndLastOp(p)
      PROVE  [Store!Next]_mapped
  BY <1>4, MoveStep, Zenon
<1> QED BY <1>1, <1>2, <1>3, <1>4, LogWriteStep, CacheStep, RecoveryStep, CrashStep, Zenon DEF Next

\* log.c implements the atomic store, through any number of crashes at any point and for
\* any number of processes, blocks and log entries: after recovery the file system holds
\* all the updates of a set of finished operations or none, and bread() returns the
\* latest update of a block.
THEOREM LogIsAtomic == Spec => ImplementsStore
<1>1. Spec => Store!Init /\ [][Store!Next]_mapped
  BY InitStore, InvAlways, StoreStep, PTL DEF Spec
<1> QED BY <1>1, Zenon DEF ImplementsStore, Store!Spec, mapped

---------------------------------------------------------------------------
(* Log space.                                                               *)

\* What an operation has logged is in the header until the operation ends.
MineInv ==
  \A p \in Procs :
    /\ IsFiniteSet(mine[p]) /\ Cardinality(mine[p]) <= MAXOPBLOCKS
    /\ mine[p] # {} => opc[p] = "op"
    /\ \A b \in mine[p] : Logged(b)

RoomInv == n + Cardinality(Promised) <= LOGBLOCKS

\* The entries promised to operations are finitely many, at most MAXOPBLOCKS to each.
LEMMA PromisedFinite ==
  /\ IsFiniteSet(Promised) /\ Cardinality(Promised) \in Nat
  /\ Cardinality(Promised) <= Cardinality(Active) * MAXOPBLOCKS
<1>1. IsFiniteSet(1 .. MAXOPBLOCKS) /\ Cardinality(1 .. MAXOPBLOCKS) = MAXOPBLOCKS
  BY LogAssumption, FS_Interval
<1>2. /\ IsFiniteSet(Active \X (1 .. MAXOPBLOCKS))
      /\ Cardinality(Active \X (1 .. MAXOPBLOCKS)) = Cardinality(Active) * MAXOPBLOCKS
  BY <1>1, ActiveFinite, FS_Product, Zenon
<1>3. Promised \in SUBSET (Active \X (1 .. MAXOPBLOCKS))  BY Zenon DEF Promised, Active
<1>4. IsFiniteSet(Promised) /\ Cardinality(Promised) <= Cardinality(Active \X (1 .. MAXOPBLOCKS))
  BY <1>2, <1>3, FS_Subset, Zenon
<1> QED BY <1>2, <1>4, FS_CardinalityType, Zenon

\* Fewer entries are promised, and none is used.
LEMMA RoomShrinks ==
  ASSUME RoomInv, n \in Nat, n' \in Nat, n' <= n, Promised' \subseteq Promised
  PROVE  RoomInv'
<1>1. Cardinality(Promised') <= Cardinality(Promised) /\ Cardinality(Promised') \in Nat
  BY PromisedFinite, FS_Subset, FS_CardinalityType, Zenon
<1> QED BY <1>1, PromisedFinite, LogAssumption DEF RoomInv

\* begin_op() promises MAXOPBLOCKS entries, which its test has found.
LEMMA BeginRoom ==
  ASSUME TypeOK, TurnInv, MineInv, RoomInv, NEW p \in Procs, BeginOp(p)
  PROVE  MineInv' /\ RoomInv'
<1> USE LogAssumption DEF TypeOK
<1>1. MineInv'
  <2>1. UNCHANGED <<mine, n, block>> /\ \A q \in Procs : opc[q] = "op" => opc'[q] = "op"
    BY Zenon DEF BeginOp, head
  <2> QED BY <2>1, Zenon DEF MineInv, Logged
<1>2. TurnInv'  BY TurnStep, Zenon
<1>3. /\ n' = n /\ outstanding' = outstanding + 1
      /\ n + (outstanding + 1) * MAXOPBLOCKS <= LOGBLOCKS
  BY DEF BeginOp, MustWait, head
<1>4. outstanding' = Cardinality(Active')  BY <1>2, Zenon DEF TurnInv
<1>5. Cardinality(Promised') \in Nat /\ Cardinality(Promised') <= Cardinality(Active') * MAXOPBLOCKS
  <2>1. (Cardinality(Promised) \in Nat /\ Cardinality(Promised) <= Cardinality(Active) * MAXOPBLOCKS)'
    BY PromisedFinite, PTL
  <2> QED BY <2>1, Zenon
<1> QED BY <1>1, <1>3, <1>4, <1>5 DEF RoomInv

\* log_write(): an entry that is used is one that was promised to the operation.
LEMMA WriteRoom ==
  ASSUME TypeOK, LogInv, MineInv, RoomInv,
         NEW p \in Procs, NEW b \in Blocks, NEW v \in Val, LogWrite(p, b, v)
  PROVE  MineInv' /\ RoomInv'
<1> DEFINE k == Cardinality(mine[p])  m == mine[p] \cup {b}
<1>1. /\ opc[p] = "op" /\ opc' = opc /\ n < LOGBLOCKS /\ n \in Nat
      /\ mine' = [mine EXCEPT ![p] = m] /\ mine \in [Procs -> SUBSET Blocks]
      /\ Cardinality(m) <= OpBlocks
  BY DEF LogWrite, TypeOK
<1>2. IsFiniteSet(mine[p]) /\ k \in Nat /\ IsFiniteSet(m)
      /\ Cardinality(m) = IF b \in mine[p] THEN k ELSE k + 1
  BY FS_AddElement, FS_CardinalityType, Zenon DEF MineInv
<1>3. Cardinality(m) <= MAXOPBLOCKS  BY <1>1, <1>2, LogAssumption
<1>4. Logged(b)' /\ \A c \in Blocks : Logged(c) => Logged(c)'
  <2>1. CASE Logged(b)
    BY <2>1, Zenon DEF LogWrite, Logged, head
  <2>2. CASE ~Logged(b)
    <3>1. /\ n' = n + 1 /\ n \in Entries /\ block'[n] = b
          /\ \A i \in 0 .. n - 1 : block'[i] = block[i]
      BY <1>1, <2>2, LogAssumption DEF LogWrite, TypeOK, Entries
    <3> QED BY <1>1, <3>1 DEF Logged
  <2> QED BY <2>1, <2>2, Zenon
<1>5. MineInv'
  <2>1. \A q \in Procs : mine'[q] = IF q = p THEN m ELSE mine[q]
    BY <1>1, Zenon
  <2>2. \A q \in Procs : \A c \in mine'[q] : Logged(c)'
    BY <1>1, <1>4, <2>1, Zenon DEF MineInv
  <2> QED BY <1>1, <1>2, <1>3, <2>1, <2>2, Zenon DEF MineInv
<1>6. CASE b \in mine[p]
  <2>1. n' = n  BY <1>6, Zenon DEF MineInv, LogWrite, head
  <2>2. mine' = mine  BY <1>1, <1>6, Zenon
  <2>3. Promised' = Promised  BY <1>1, <2>2, Zenon DEF Promised
  <2> QED BY <1>5, <2>1, <2>3, Zenon DEF RoomInv
<1>7. CASE b \notin mine[p]
  <2> DEFINE e == <<p, k + 1>>
  <2>1. n' <= n + 1 /\ n' \in Nat  BY <1>1 DEF LogWrite, head
  <2>2. e \in Promised
    BY <1>1, <1>2, <1>7, LogAssumption DEF Promised
  <2>3. Promised' \subseteq Promised \ {e}
    <3>1. ASSUME NEW f \in Promised' PROVE f \in Promised /\ f # e
      <4>1. /\ f \in Procs \X (1 .. MAXOPBLOCKS) /\ opc[f[1]] = "op"
            /\ f[2] > Cardinality(mine'[f[1]])
        BY <1>1, <3>1, Zenon DEF Promised
      <4>2. CASE f[1] = p
        BY <1>1, <1>2, <1>7, <4>1, <4>2 DEF Promised
      <4>3. CASE f[1] # p
        BY <1>1, <4>1, <4>3 DEF Promised
      <4> QED BY <4>2, <4>3, Zenon
    <3> QED BY <3>1, Zenon
  <2>4. IsFiniteSet(Promised \ {e}) /\ Cardinality(Promised \ {e}) = Cardinality(Promised) - 1
    BY <2>2, PromisedFinite, FS_RemoveElement, Zenon
  <2>5. Cardinality(Promised') \in Nat /\ Cardinality(Promised') <= Cardinality(Promised) - 1
    BY <2>3, <2>4, FS_Subset, FS_CardinalityType
  <2> QED BY <1>1, <1>5, <2>1, <2>5, PromisedFinite, LogAssumption DEF RoomInv
<1> QED BY <1>6, <1>7, Zenon

\* Operations keep to the log, and so do commits, recovery and crashes.
LEMMA SpaceStep ==
  ASSUME TypeOK, LogInv, MineInv, RoomInv, [Next]_vars
  PROVE  MineInv' /\ RoomInv'
<1> USE LogAssumption DEF TypeOK
\* Steps that leave the header and the operations alone.
<1>0. ASSUME UNCHANGED <<n, block, mine>>, \A q \in Procs : opc'[q] = "op" <=> opc[q] = "op"
      PROVE  MineInv' /\ RoomInv'
  <2>1. MineInv'  BY <1>0, Zenon DEF MineInv, Logged
  <2>2. Promised' = Promised  BY <1>0, Zenon DEF Promised
  <2> QED BY <1>0, <2>1, <2>2, Zenon DEF RoomInv
\* Steps after which no operation is active.
<1>1. ASSUME n' \in 0 .. LOGBLOCKS, \A q \in Procs : opc'[q] # "op" /\ mine'[q] = {}
      PROVE  MineInv' /\ RoomInv'
  <2>1. IsFiniteSet({}) /\ Cardinality({}) <= MAXOPBLOCKS  BY FS_EmptySet
  <2>3. MineInv'  BY <1>1, <2>1, Zenon DEF MineInv
  <2>2. Promised' = {}  BY <1>1, Zenon DEF Promised
  <2> QED BY <1>1, <2>2, <2>3, FS_EmptySet DEF RoomInv
\* No operation is active during a commit and before the recovery is over.
<1>2. ASSUME \A q \in Procs : opc[q] # "op" PROVE \A q \in Procs : mine[q] = {}
  BY <1>2, Zenon DEF MineInv
<1>3. CASE UNCHANGED vars  BY <1>0, <1>3, Zenon DEF vars, head
<1>4. ASSUME NEW p \in Procs, BeginSleep(p) PROVE MineInv' /\ RoomInv'
  BY <1>0, <1>4, Zenon DEF BeginSleep, head
<1>5. ASSUME NEW p \in Procs, BeginOp(p) PROVE MineInv' /\ RoomInv'
  BY <1>5, BeginRoom, Zenon DEF LogInv
<1>6. ASSUME NEW p \in Procs, EndOp(p) \/ EndLastOp(p) PROVE MineInv' /\ RoomInv'
  <2>1. /\ UNCHANGED <<n, block>> /\ opc'[p] # "op"
        /\ \A q \in Procs : mine'[q] = IF q = p THEN {} ELSE mine[q]
        /\ \A q \in Procs : q # p => (opc'[q] = "op" <=> opc[q] = "op")
    BY <1>6, Zenon DEF EndOp, EndLastOp, WakeAll, head
  <2>2. MineInv'
    BY <2>1, FS_EmptySet DEF MineInv, Logged
  <2>3. Promised' \subseteq Promised
    BY <2>1, Zenon DEF Promised
  <2> QED BY <2>1, <2>2, <2>3, RoomShrinks
<1>7. ASSUME NEW p \in Procs, WriteLog(p) \/ CommitHead(p) \/ Install(p) \/ Finish(p)
      PROVE  MineInv' /\ RoomInv'
  BY <1>0, <1>7, Zenon DEF WriteLog, CommitHead, Install, InstallOne, Finish, WakeAll, head
<1>8. ASSUME NEW p \in Procs, Erase(p) PROVE MineInv' /\ RoomInv'
  <2>1. \A q \in Procs : opc[q] # "op"
    BY <1>8, Committer, Zenon DEF Erase, Committing, LogInv, Active
  <2> QED BY <1>1, <1>2, <1>8, <2>1 DEF Erase, EraseLog
<1>9. ASSUME NEW p \in Procs, NEW b \in Blocks, NEW v \in Val, LogWrite(p, b, v)
      PROVE  MineInv' /\ RoomInv'
  BY <1>9, WriteRoom, Zenon
<1>10. ASSUME NEW b \in Blocks, Fetch(b) \/ Recycle(b) PROVE MineInv' /\ RoomInv'
  BY <1>0, <1>10, Zenon DEF Fetch, Recycle, head
<1>11. ASSUME Recovery PROVE MineInv' /\ RoomInv'
  <2>1. \A q \in Procs : opc[q] # "op"
    BY <1>11, Zenon DEF Recovery, ReadHead, RecoverInstall, RecoverErase, LogInv, TurnInv
  <2>2. n' \in 0 .. LOGBLOCKS /\ UNCHANGED <<opc, mine>>
    BY <1>11 DEF Recovery, ReadHead, RecoverInstall, RecoverErase, InstallOne, EraseLog, head
  <2> QED BY <1>1, <1>2, <2>1, <2>2, Zenon
<1>12. ASSUME Crash PROVE MineInv' /\ RoomInv'
  BY <1>1, <1>12 DEF Crash
<1> QED BY Zenon, <1>3, <1>4, <1>5, <1>6, <1>7, <1>8, <1>9, <1>10, <1>11, <1>12 DEF Next, Commit

LEMMA InitSpace == Init => MineInv /\ RoomInv
<1> SUFFICES ASSUME Init PROVE MineInv /\ RoomInv  BY Zenon
<1> USE LogAssumption DEF Init
<1>1. MineInv  BY FS_EmptySet DEF MineInv
<1>2. Promised = {}  BY Zenon DEF Promised
<1> QED BY <1>1, <1>2, FS_EmptySet DEF RoomInv

LEMMA SpaceAlways == Spec => [](TypeOK /\ LogInv /\ MineInv /\ RoomInv)
<1>1. /\ TypeOK /\ LogInv /\ MineInv /\ RoomInv /\ [Next]_vars
      => (TypeOK /\ LogInv /\ MineInv /\ RoomInv)'
  BY TypeStep, InvStep, SpaceStep, Zenon
<1> QED BY InitInv, InitSpace, <1>1, PTL DEF Spec

\* For any number of operations and any sizes: what the test in begin_op() promises to the
\* operations under way and what the log holds never exceed the log.
THEOREM SpaceSuffices == Spec => []LogSpace
<1>1. LogInv /\ RoomInv => LogSpace  BY Zenon DEF LogInv, TurnInv, RoomInv, LogSpace
<1> QED BY <1>1, SpaceAlways, PTL

\* For any number of operations: if every system call logs fewer blocks than begin_op()
\* reserves for it, log_write() never panics on a full log.
THEOREM LogNeverFull == Spec => []NoPanic
<1>1. TypeOK /\ MineInv /\ RoomInv => NoPanic
  <2> SUFFICES ASSUME TypeOK, MineInv, RoomInv, OpBlocks < MAXOPBLOCKS,
                      NEW p \in Procs, NEW b \in Blocks,
                      opc[p] = "op", Cardinality(mine[p] \cup {b}) <= OpBlocks
               PROVE  n < LOGBLOCKS
    BY Zenon DEF NoPanic
  <2>1. Cardinality(mine[p]) \in Nat /\ Cardinality(mine[p]) < MAXOPBLOCKS
    <3> DEFINE k == Cardinality(mine[p])  m == mine[p] \cup {b}
    <3>1. k \in Nat /\ k <= MAXOPBLOCKS /\ Cardinality(m) = IF b \in mine[p] THEN k ELSE k + 1
      BY FS_AddElement, FS_CardinalityType, Zenon DEF MineInv
    <3>2. Cardinality(m) <= OpBlocks  BY Zenon
    <3> QED BY <3>1, <3>2, LogAssumption
  <2>2. <<p, Cardinality(mine[p]) + 1>> \in Promised
    BY <2>1, LogAssumption DEF Promised
  <2>3. Cardinality(Promised) # 0  BY <2>2, PromisedFinite, FS_EmptySet, Zenon
  <2> QED BY <2>3, PromisedFinite, LogAssumption DEF RoomInv, TypeOK
<1> QED BY <1>1, SpaceAlways, PTL
=============================================================================
