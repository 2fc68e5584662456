-------------------------------- MODULE Log --------------------------------
(***************************************************************************)
(* The write-ahead log of xv6/kernel/log.c over the buffer cache, with     *)
(* crashes and recovery.                                                   *)
(*                                                                         *)
(* The disk survives a crash: home blocks, log blocks and the log header.  *)
(* The buffer cache, struct log and the processes do not.  A disk write of *)
(* one block is atomic.  A buffer is recycled by bget() only when nobody   *)
(* references it; here that may happen to any block that is not pinned,    *)
(* between any two steps.  A step from bread() to brelse() is one step:    *)
(* the buffer is locked and no commit can run while an operation is        *)
(* outstanding.  The blocks of the log itself are write-through and are    *)
(* only used by the committing process.                                    *)
(***************************************************************************)
EXTENDS Integers, FiniteSets

CONSTANTS Procs,        \* processes that make file system calls
          Blocks,       \* home blocks
          NoBlock,      \* an unused entry of logheader.block[]
          Val,          \* contents of a block
          NoBuf,        \* not in the buffer cache
          MAXOPBLOCKS,
          LOGBLOCKS,
          OpBlocks      \* how many different blocks a system call really logs

ASSUME LogAssumption ==
  /\ IsFiniteSet(Procs)
  /\ NoBlock \notin Blocks /\ NoBuf \notin Val
  /\ MAXOPBLOCKS \in Nat \ {0} /\ LOGBLOCKS \in Nat
  /\ MAXOPBLOCKS <= LOGBLOCKS
  /\ OpBlocks \in 0 .. MAXOPBLOCKS

VARIABLES
  disk,         \* home blocks on disk
  logdata,      \* log blocks on disk: log.start + 1 + i
  dn, dblock,   \* the header on disk
  cache,        \* contents of buffers
  pin,          \* references held by bpin()
  n, block,     \* log.lh
  outstanding,  \* log.outstanding
  committing,   \* log.committing
  tail,         \* local tail of write_log() and install_trans()
  mode,         \* "boot", "recover", "run"
  opc,          \* where a process stands
  mine          \* the blocks its current operation has logged

ondisk == <<disk, logdata, dn, dblock>>
bufs   == <<cache, pin>>
head   == <<n, block>>
vars   == <<ondisk, bufs, head, outstanding, committing, tail, mode, opc, mine>>

\* "asleep" on &log in begin_op(), "woken" and about to test again, in an operation
\* ("op"), and the phases of commit().
OpPc == {"idle", "asleep", "woken", "op", "write_log", "install", "finish"}

Entries == 0 .. LOGBLOCKS - 1

\* mkfs has filled the blocks of the log with one value, zero.
Init ==
  /\ disk \in [Blocks -> Val]
  /\ \E v \in Val : logdata = [i \in Entries |-> v]
  /\ dn = 0 /\ dblock = [i \in Entries |-> NoBlock]
  /\ cache = [b \in Blocks |-> NoBuf] /\ pin = [b \in Blocks |-> 0]
  /\ n = 0 /\ block = [i \in Entries |-> NoBlock]
  /\ outstanding = 0 /\ committing = 0 /\ tail = 0
  /\ mode = "boot"
  /\ opc = [p \in Procs |-> "idle"] /\ mine = [p \in Procs |-> {}]

---------------------------------------------------------------------------

\* bread(): the cached contents, or else what is on disk.
Bread(b) == IF cache[b] = NoBuf THEN disk[b] ELSE cache[b]

\* wakeup(&log), after the caller's own move to pc.
WakeAll(p, pc) ==
  opc' = [q \in Procs |-> IF q = p THEN pc
                          ELSE IF opc[q] = "asleep" THEN "woken" ELSE opc[q]]

\* begin_op() would risk running out of log space, or a commit is under way.
MustWait == committing = 1 \/ n + (outstanding + 1) * MAXOPBLOCKS > LOGBLOCKS

BeginSleep(p) ==
  /\ mode = "run" /\ opc[p] \in {"idle", "woken"}
  /\ MustWait
  /\ opc' = [opc EXCEPT ![p] = "asleep"]
  /\ UNCHANGED <<ondisk, bufs, head, outstanding, committing, tail, mode, mine>>

\* Mutant: the operation that is about to start is not counted.
BeginOpShort(p) ==
  /\ mode = "run" /\ opc[p] \in {"idle", "woken"}
  /\ ~(committing = 1 \/ n + outstanding * MAXOPBLOCKS > LOGBLOCKS)
  /\ outstanding' = outstanding + 1
  /\ opc' = [opc EXCEPT ![p] = "op"]
  /\ UNCHANGED <<ondisk, bufs, head, committing, tail, mode, mine>>

BeginOp(p) ==
  /\ mode = "run" /\ opc[p] \in {"idle", "woken"}
  /\ ~MustWait
  /\ outstanding' = outstanding + 1
  /\ opc' = [opc EXCEPT ![p] = "op"]
  /\ UNCHANGED <<ondisk, bufs, head, committing, tail, mode, mine>>

Logged(b) == \E i \in 0 .. n - 1 : block[i] = b

\* Mutant: log_write() does not pin the buffer.
LogWriteUnpinned(p, b, v) ==
  /\ opc[p] = "op"
  /\ Cardinality(mine[p] \cup {b}) <= OpBlocks
  /\ n < LOGBLOCKS /\ outstanding >= 1
  /\ cache' = [cache EXCEPT ![b] = v]
  /\ mine' = [mine EXCEPT ![p] = @ \cup {b}]
  /\ \/ Logged(b) /\ UNCHANGED head
     \/ ~Logged(b) /\ block' = [block EXCEPT ![n] = b] /\ n' = n + 1
  /\ UNCHANGED <<pin, ondisk, outstanding, committing, tail, mode, opc>>

\* Mutant: log_write() does not look for the block in the log.
LogWriteAppends(p, b, v) ==
  /\ opc[p] = "op"
  /\ Cardinality(mine[p] \cup {b}) <= OpBlocks
  /\ n < LOGBLOCKS /\ outstanding >= 1
  /\ cache' = [cache EXCEPT ![b] = v]
  /\ mine' = [mine EXCEPT ![p] = @ \cup {b}]
  /\ block' = [block EXCEPT ![n] = b] /\ n' = n + 1
  /\ pin' = [pin EXCEPT ![b] = @ + 1]
  /\ UNCHANGED <<ondisk, outstanding, committing, tail, mode, opc>>

\* bread(), a change of the data, log_write() and brelse().  log_write() panics when
\* the log is full or no operation is outstanding; a block that is already in the
\* header is absorbed, another is appended and its buffer pinned.
LogWrite(p, b, v) ==
  /\ opc[p] = "op"
  /\ Cardinality(mine[p] \cup {b}) <= OpBlocks
  /\ n < LOGBLOCKS /\ outstanding >= 1
  /\ cache' = [cache EXCEPT ![b] = v]
  /\ mine' = [mine EXCEPT ![p] = @ \cup {b}]
  /\ \/ Logged(b) /\ UNCHANGED <<head, pin>>
     \/ /\ ~Logged(b)
        /\ block' = [block EXCEPT ![n] = b] /\ n' = n + 1
        /\ pin' = [pin EXCEPT ![b] = @ + 1]
  /\ UNCHANGED <<ondisk, outstanding, committing, tail, mode, opc>>

\* end_op() with other operations outstanding: wake those waiting for space.
EndOp(p) ==
  /\ opc[p] = "op" /\ outstanding > 1
  /\ outstanding' = outstanding - 1
  /\ WakeAll(p, "idle")
  /\ mine' = [mine EXCEPT ![p] = {}]
  /\ UNCHANGED <<ondisk, bufs, head, committing, tail, mode>>

\* end_op() of the last operation: it commits, if anything was logged.
EndLastOp(p) ==
  /\ opc[p] = "op" /\ outstanding = 1
  /\ outstanding' = 0
  /\ committing' = 1
  /\ opc' = [opc EXCEPT ![p] = IF n > 0 THEN "write_log" ELSE "finish"]
  /\ tail' = 0
  /\ mine' = [mine EXCEPT ![p] = {}]
  /\ UNCHANGED <<ondisk, bufs, head, mode>>

\* write_log(): one cached block to its log block.
WriteLog(p) ==
  LET b == block[tail] IN
  /\ opc[p] = "write_log" /\ tail < n
  /\ logdata' = [logdata EXCEPT ![tail] = Bread(b)]
  /\ cache' = [cache EXCEPT ![b] = Bread(b)]
  /\ tail' = tail + 1
  /\ UNCHANGED <<disk, dn, dblock, pin, head, outstanding, committing, mode, opc, mine>>

\* write_head(): only the first lh.n entries are copied.
WriteHead(count) ==
  /\ dn' = count
  /\ dblock' = [i \in Entries |-> IF i < count THEN block[i] ELSE dblock[i]]

\* Mutant: the header is written before the last log block.
CommitHeadEarly(p) ==
  /\ opc[p] = "write_log" /\ tail = n - 1
  /\ WriteHead(n)
  /\ opc' = [opc EXCEPT ![p] = "install"]
  /\ tail' = 0
  /\ UNCHANGED <<disk, logdata, bufs, head, outstanding, committing, mode, mine>>

\* The real commit.
CommitHead(p) ==
  /\ opc[p] = "write_log" /\ tail = n
  /\ WriteHead(n)
  /\ opc' = [opc EXCEPT ![p] = "install"]
  /\ tail' = 0
  /\ UNCHANGED <<disk, logdata, bufs, head, outstanding, committing, mode, mine>>

\* One round of install_trans(): log block to its home, on disk and in the cache.
InstallOne ==
  /\ tail < n
  /\ disk' = [disk EXCEPT ![block[tail]] = logdata[tail]]
  /\ cache' = [cache EXCEPT ![block[tail]] = logdata[tail]]
  /\ tail' = tail + 1
  /\ UNCHANGED <<logdata, dn, dblock, head>>

Install(p) ==
  /\ opc[p] = "install"
  /\ InstallOne
  /\ pin' = [pin EXCEPT ![block[tail]] = @ - 1]
  /\ UNCHANGED <<outstanding, committing, mode, opc, mine>>

\* log.lh.n = 0; write_head().
EraseLog ==
  /\ tail = n
  /\ n' = 0
  /\ WriteHead(0)
  /\ UNCHANGED <<disk, logdata, bufs, block>>

Erase(p) ==
  /\ opc[p] = "install"
  /\ EraseLog
  /\ opc' = [opc EXCEPT ![p] = "finish"]
  /\ UNCHANGED <<outstanding, committing, tail, mode, mine>>

\* Mutant: nobody is woken after a commit.
FinishSilently(p) ==
  /\ opc[p] = "finish"
  /\ committing' = 0
  /\ opc' = [opc EXCEPT ![p] = "idle"]
  /\ UNCHANGED <<ondisk, bufs, head, outstanding, tail, mode, mine>>

\* End of end_op() after commit().
Finish(p) ==
  /\ opc[p] = "finish"
  /\ committing' = 0
  /\ WakeAll(p, "idle")
  /\ UNCHANGED <<ondisk, bufs, head, outstanding, tail, mode, mine>>

\* bread() by a reader, and bget() recycling an unreferenced buffer.
Fetch(b) ==
  /\ mode = "run" /\ cache[b] = NoBuf
  /\ cache' = [cache EXCEPT ![b] = disk[b]]
  /\ UNCHANGED <<ondisk, pin, head, outstanding, committing, tail, mode, opc, mine>>

Recycle(b) ==
  /\ cache[b] # NoBuf /\ pin[b] = 0
  /\ cache' = [cache EXCEPT ![b] = NoBuf]
  /\ UNCHANGED <<ondisk, pin, head, outstanding, committing, tail, mode, opc, mine>>

---------------------------------------------------------------------------
(* Crash, and initlog() after the restart.                                  *)

Crash ==
  /\ cache' = [b \in Blocks |-> NoBuf] /\ pin' = [b \in Blocks |-> 0]
  /\ n' = 0 /\ block' = [i \in Entries |-> NoBlock]
  /\ outstanding' = 0 /\ committing' = 0 /\ tail' = 0
  /\ mode' = "boot"
  /\ opc' = [p \in Procs |-> "idle"] /\ mine' = [p \in Procs |-> {}]
  /\ UNCHANGED ondisk

\* read_head().
ReadHead ==
  /\ mode = "boot"
  /\ n' = dn
  /\ block' = [i \in Entries |-> IF i < dn THEN dblock[i] ELSE block[i]]
  /\ tail' = 0
  /\ mode' = "recover"
  /\ UNCHANGED <<ondisk, bufs, outstanding, committing, opc, mine>>

RecoverInstall ==
  /\ mode = "recover"
  /\ InstallOne
  /\ UNCHANGED <<pin, outstanding, committing, mode, opc, mine>>

RecoverErase ==
  /\ mode = "recover"
  /\ EraseLog
  /\ mode' = "run"
  /\ UNCHANGED <<outstanding, committing, tail, opc, mine>>

---------------------------------------------------------------------------

Commit(p) == WriteLog(p) \/ CommitHead(p) \/ Install(p) \/ Erase(p) \/ Finish(p)

Recovery == ReadHead \/ RecoverInstall \/ RecoverErase

Next ==
  \/ \E p \in Procs :
       \/ BeginSleep(p) \/ BeginOp(p) \/ EndOp(p) \/ EndLastOp(p) \/ Commit(p)
       \/ \E b \in Blocks, v \in Val : LogWrite(p, b, v)
  \/ \E b \in Blocks : Fetch(b) \/ Recycle(b)
  \/ Recovery
  \/ Crash

Spec == Init /\ [][Next]_vars

\* A process that has begun an operation ends it, a commit goes on and a booting
\* system recovers.  Nothing is assumed about who calls begin_op().
FairSpec ==
  /\ Spec
  /\ \A p \in Procs : WF_vars(EndOp(p) \/ EndLastOp(p)) /\ WF_vars(Commit(p))
  /\ WF_vars(Recovery)

---------------------------------------------------------------------------
(* Properties.                                                              *)

\* Type invariant; log_write() and install_trans() keep one pin on a logged buffer.
TypeOK ==
  /\ disk \in [Blocks -> Val] /\ logdata \in [Entries -> Val]
  /\ dn \in 0 .. LOGBLOCKS /\ dblock \in [Entries -> Blocks \cup {NoBlock}]
  /\ cache \in [Blocks -> Val \cup {NoBuf}] /\ pin \in [Blocks -> 0 .. 1]
  /\ n \in 0 .. LOGBLOCKS /\ block \in [Entries -> Blocks \cup {NoBlock}]
  /\ outstanding \in Nat /\ committing \in {0, 1}
  /\ tail \in 0 .. LOGBLOCKS
  /\ mode \in {"boot", "recover", "run"}
  /\ opc \in [Procs -> OpPc] /\ mine \in [Procs -> SUBSET Blocks]

Active == {p \in Procs : opc[p] = "op"}

\* The entries that begin_op() has promised to operations and they have not used.
Promised ==
  {e \in Procs \X (1 .. MAXOPBLOCKS) :
     opc[e[1]] = "op" /\ e[2] > Cardinality(mine[e[1]])}

\* However operations overlap, absorb each other's blocks, end and leave their blocks
\* in an uncommitted log: the entries in use and the promised ones fit in the log, so
\* no operation that keeps to MAXOPBLOCKS blocks runs out of log space.
LogSpace ==
  /\ n + Cardinality(Promised) <= LOGBLOCKS
  /\ outstanding = Cardinality(Active)

\* The contents of block b once recovery has run.
Durable ==
  [b \in Blocks |->
     IF \E i \in 0 .. dn - 1 : dblock[i] = b
     THEN logdata[CHOOSE i \in 0 .. dn - 1 : dblock[i] = b]
     ELSE disk[b]]

Current == IF mode = "run" THEN [b \in Blocks |-> Bread(b)] ELSE Durable

Store == INSTANCE AtomicStore WITH durable <- Durable, current <- Current, active <- Active

\* Through crashes at any point, also during recovery: what a restarted system reads
\* is all of the blocks of a set of finished operations or none of them, and bread()
\* never returns anything but the latest update, whatever the cache recycles.
ImplementsStore == Store!Spec

\* Nobody sleeps in begin_op() for ever: an end_op() wakes every process that waits,
\* for log space or for a commit.
SleepersWoken == \A p \in Procs : opc[p] = "asleep" ~> opc[p] # "asleep"

\* log_write() panics on a full log before it looks for the block to absorb.  As long as
\* no system call logs as many blocks as begin_op() reserves for it (OpBlocks is less
\* than MAXOPBLOCKS), none that may still log a block, old or new, meets a full log.
NoPanic ==
  OpBlocks < MAXOPBLOCKS =>
    \A p \in Procs, b \in Blocks :
      opc[p] = "op" /\ Cardinality(mine[p] \cup {b}) <= OpBlocks => n < LOGBLOCKS
=============================================================================
