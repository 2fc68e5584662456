------------------------------- MODULE Pipe -------------------------------
(***************************************************************************)
(* A pipe of xv6/kernel/pipe.c, shared by processes that fork, read,       *)
(* write, close their ends, are killed and exit.                           *)
(*                                                                         *)
(* pi->lock is a variable.  One step is one round of a loop of pipewrite() *)
(* or piperead(): between two of them another CPU may set p->killed.       *)
(* sleep() is one step, because it holds p->lock from before it releases   *)
(* pi->lock until the process is off its CPU, and both wakeup() and        *)
(* kkill() take p->lock.  fileclose() drops a reference under ftable.lock  *)
(* and calls pipeclose() in a later step.                                  *)
(***************************************************************************)
EXTENDS Naturals, Sequences, FiniteSets

CONSTANTS Procs,
          NoProc,     \* pi->lock is free
          Byte, Junk, \* Junk: what kfree() and kalloc() fill a page with
          PIPESIZE,
          UIntMod,    \* 2^32 in the code: nread and nwrite wrap around
          Counts      \* the counts of read() and write()

ASSUME PipeAssumption ==
  /\ IsFiniteSet(Procs) /\ NoProc \notin Procs /\ Junk \in Byte
  /\ PIPESIZE \in Nat \ {0} /\ Counts \subseteq Nat
  /\ UIntMod \in Nat /\ UIntMod > PIPESIZE /\ UIntMod % PIPESIZE = 0

VARIABLES
  data, nread, nwrite, readopen, writeopen,   \* struct pipe
  lock,      \* who holds pi->lock
  freed,     \* 1 when the page of the pipe is not in use
  ref,       \* f->ref of the struct file of each end
  fds,       \* the ends a process has open
  pc, killed,
  cnt, want, \* i and n of pipewrite() and piperead()
  got,       \* the byte copied out last
  cut        \* history: a killed writer left without waking the readers

ring  == <<data, nread, nwrite>>
ends  == <<readopen, writeopen, freed>>
files == <<ref, fds>>
args  == <<cnt, want>>
vars  == <<ring, ends, files, lock, pc, killed, args, got, cut>>

End == {"r", "w"}

\* "none": the process does not exist.  "bed": about to call sleep().
Pc == {"none", "user", "close_r", "close_w",
       "write", "write_bed", "write_asleep", "write_woken",
       "read", "read_bed", "read_asleep", "read_woken", "copy"}

Init ==
  /\ data = [i \in 0 .. PIPESIZE - 1 |-> Junk]
  /\ nread = 0 /\ nwrite = 0 /\ readopen = 0 /\ writeopen = 0
  /\ lock = NoProc /\ freed = 1
  /\ ref = [e \in End |-> 0]
  /\ fds = [p \in Procs |-> {}]
  /\ pc = [p \in Procs |-> "none"]
  /\ killed = [p \in Procs |-> 0]
  /\ cnt = [p \in Procs |-> 0] /\ want = [p \in Procs |-> 0]
  /\ got = Junk /\ cut = 0

---------------------------------------------------------------------------

Goto(p, l) == pc' = [pc EXCEPT ![p] = l]

\* release(&pi->lock) and return: the locals are gone.
Return(p) ==
  /\ lock' = NoProc
  /\ cnt' = [cnt EXCEPT ![p] = 0] /\ want' = [want EXCEPT ![p] = 0]

\* wakeup() on &pi->nread or &pi->nwrite, after which the caller is at l.
WakeReaders(p, l) ==
  /\ pc' = [q \in Procs |-> IF q = p THEN l
                            ELSE IF pc[q] = "read_asleep" THEN "read_woken" ELSE pc[q]]
  /\ cut' = 0

WakeWriters(p, l) ==
  /\ pc' = [q \in Procs |-> IF q = p THEN l
                            ELSE IF pc[q] = "write_asleep" THEN "write_woken" ELSE pc[q]]
  /\ UNCHANGED cut

\* usertrap() lets a process that has been killed do nothing but exit.
InUser(p) == pc[p] = "user" /\ killed[p] = 0

\* sys_pipe() and pipealloc().  When anything fails both files are closed again.
Pipealloc(p) ==
  /\ InUser(p) /\ freed = 1 /\ \A e \in End : ref[e] = 0
  /\ nread' = 0 /\ nwrite' = 0
  /\ data' = [i \in 0 .. PIPESIZE - 1 |-> Junk]
  /\ readopen' = 1 /\ writeopen' = 1 /\ freed' = 0
  /\ ref' = [e \in End |-> 1]
  /\ fds' = [fds EXCEPT ![p] = End]
  /\ cut' = 0
  /\ UNCHANGED <<lock, pc, killed, args, got>>

\* kfork(): the child shares the open files.
Fork(p, q) ==
  /\ InUser(p) /\ pc[q] = "none"
  /\ Goto(q, "user")
  /\ fds' = [fds EXCEPT ![q] = fds[p]]
  /\ ref' = [e \in End |-> ref[e] + (IF e \in fds[p] THEN 1 ELSE 0)]
  /\ UNCHANGED <<ring, ends, lock, killed, args, got, cut>>

\* kfork() by a process that does not have the pipe open.
Spawn(q) ==
  /\ pc[q] = "none"
  /\ Goto(q, "user")
  /\ UNCHANGED <<ring, ends, files, lock, killed, args, got, cut>>

\* kexit(), once all files are closed.
Exit(p) ==
  /\ pc[p] = "user" /\ fds[p] = {}
  /\ Goto(p, "none")
  /\ killed' = [killed EXCEPT ![p] = 0]
  /\ UNCHANGED <<ring, ends, files, lock, args, got, cut>>

\* kkill() by some other process.
Kill(p) ==
  /\ pc[p] # "none"
  /\ killed' = [killed EXCEPT ![p] = 1]
  /\ Goto(p, IF pc[p] = "read_asleep" THEN "read_woken"
             ELSE IF pc[p] = "write_asleep" THEN "write_woken" ELSE pc[p])
  /\ UNCHANGED <<ring, ends, files, lock, args, got, cut>>

\* Mutant: the file is closed with the first descriptor.
FilecloseFirst(p, e) ==
  /\ pc[p] = "user" /\ e \in fds[p]
  /\ fds' = [fds EXCEPT ![p] = @ \ {e}]
  /\ ref' = [ref EXCEPT ![e] = @ - 1]
  /\ Goto(p, IF e = "r" THEN "close_r" ELSE "close_w")
  /\ UNCHANGED <<ring, ends, lock, killed, args, got, cut>>

\* sys_close() or kexit(), and fileclose(): the last reference closes the end.
Fileclose(p, e) ==
  /\ pc[p] = "user" /\ e \in fds[p]
  /\ fds' = [fds EXCEPT ![p] = @ \ {e}]
  /\ ref' = [ref EXCEPT ![e] = @ - 1]
  /\ Goto(p, IF ref[e] > 1 THEN "user" ELSE IF e = "r" THEN "close_r" ELSE "close_w")
  /\ UNCHANGED <<ring, ends, lock, killed, args, got, cut>>

\* pipeclose(pi, writable): the pipe is freed when both ends are closed.
PipecloseWrite(p) ==
  /\ pc[p] = "close_w" /\ lock = NoProc
  /\ writeopen' = 0
  /\ WakeReaders(p, "user")
  /\ freed' = IF readopen = 0 THEN 1 ELSE 0
  /\ UNCHANGED <<ring, readopen, files, lock, killed, args, got>>

PipecloseRead(p) ==
  /\ pc[p] = "close_r" /\ lock = NoProc
  /\ readopen' = 0
  /\ WakeWriters(p, "user")
  /\ freed' = IF writeopen = 0 THEN 1 ELSE 0
  /\ UNCHANGED <<ring, writeopen, files, lock, killed, args, got>>

---------------------------------------------------------------------------
(* pipewrite().                                                             *)

Empty == nread = nwrite
Full  == nwrite = (nread + PIPESIZE) % UIntMod

\* Entry: acquire(&pi->lock).
Write(p, k) ==
  /\ InUser(p) /\ "w" \in fds[p] /\ lock = NoProc
  /\ lock' = p /\ Goto(p, "write")
  /\ cnt' = [cnt EXCEPT ![p] = 0] /\ want' = [want EXCEPT ![p] = k]
  /\ UNCHANGED <<ring, ends, files, killed, got, cut>>

\* The reader is gone or the writer was killed: return -1, with no wakeup().
WriteAbort(p) ==
  /\ pc[p] = "write" /\ cnt[p] < want[p]
  /\ readopen = 0 \/ killed[p] = 1
  /\ Return(p) /\ Goto(p, "user")
  /\ cut' = IF cnt[p] > 0 THEN 1 ELSE cut
  /\ UNCHANGED <<ring, ends, files, killed, got>>

WriteFull(p) ==
  /\ pc[p] = "write" /\ cnt[p] < want[p]
  /\ readopen = 1 /\ killed[p] = 0 /\ Full
  /\ WakeReaders(p, "write_bed")
  /\ UNCHANGED <<ring, ends, files, lock, killed, args, got>>

\* sleep(&pi->nwrite, &pi->lock).
WriteSleep(p) ==
  /\ pc[p] = "write_bed"
  /\ lock' = NoProc /\ Goto(p, "write_asleep")
  /\ UNCHANGED <<ring, ends, files, killed, args, got, cut>>

\* Mutant: the buffer holds one byte too many.
WriteByteOver(p, b) ==
  /\ pc[p] = "write" /\ cnt[p] < want[p]
  /\ readopen = 1 /\ killed[p] = 0 /\ nwrite # (nread + PIPESIZE + 1) % UIntMod
  /\ data' = [data EXCEPT ![nwrite % PIPESIZE] = b]
  /\ nwrite' = (nwrite + 1) % UIntMod
  /\ cnt' = [cnt EXCEPT ![p] = @ + 1]
  /\ UNCHANGED <<nread, ends, files, lock, pc, killed, want, got, cut>>

WriteByte(p, b) ==
  /\ pc[p] = "write" /\ cnt[p] < want[p]
  /\ readopen = 1 /\ killed[p] = 0 /\ ~Full
  /\ data' = [data EXCEPT ![nwrite % PIPESIZE] = b]
  /\ nwrite' = (nwrite + 1) % UIntMod
  /\ cnt' = [cnt EXCEPT ![p] = @ + 1]
  /\ UNCHANGED <<nread, ends, files, lock, pc, killed, want, got, cut>>

\* Mutant: pipewrite() returns without wakeup().
WriteReturnSilently(p) ==
  /\ pc[p] = "write"
  /\ cnt[p] < want[p] => readopen = 1 /\ killed[p] = 0 /\ ~Full
  /\ Return(p) /\ Goto(p, "user")
  /\ UNCHANGED <<ring, ends, files, killed, got, cut>>

\* All is written, or copyin() fails: wake the readers and return i.
WriteReturn(p) ==
  /\ pc[p] = "write"
  /\ cnt[p] < want[p] => readopen = 1 /\ killed[p] = 0 /\ ~Full
  /\ Return(p)
  /\ WakeReaders(p, "user")
  /\ UNCHANGED <<ring, ends, files, killed, got>>

\* Mutant: a reader does not test for an empty pipe again after sleep().
ResumeCopies(p) ==
  /\ pc[p] \in {"write_woken", "read_woken"} /\ lock = NoProc
  /\ lock' = p
  /\ Goto(p, IF pc[p] = "write_woken" THEN "write" ELSE "copy")
  /\ UNCHANGED <<ring, ends, files, killed, args, got, cut>>

\* The end of sleep(): acquire(&pi->lock) again.
Resume(p) ==
  /\ pc[p] \in {"write_woken", "read_woken"} /\ lock = NoProc
  /\ lock' = p
  /\ Goto(p, IF pc[p] = "write_woken" THEN "write" ELSE "read")
  /\ UNCHANGED <<ring, ends, files, killed, args, got, cut>>

---------------------------------------------------------------------------
(* piperead().                                                              *)

Read(p, k) ==
  /\ InUser(p) /\ "r" \in fds[p] /\ lock = NoProc
  /\ lock' = p /\ Goto(p, "read")
  /\ cnt' = [cnt EXCEPT ![p] = 0] /\ want' = [want EXCEPT ![p] = k]
  /\ UNCHANGED <<ring, ends, files, killed, got, cut>>

ReadAbort(p) ==
  /\ pc[p] = "read" /\ Empty /\ writeopen = 1 /\ killed[p] = 1
  /\ Return(p) /\ Goto(p, "user")
  /\ UNCHANGED <<ring, ends, files, killed, got, cut>>

ReadEmpty(p) ==
  /\ pc[p] = "read" /\ Empty /\ writeopen = 1 /\ killed[p] = 0
  /\ Goto(p, "read_bed")
  /\ UNCHANGED <<ring, ends, files, lock, killed, args, got, cut>>

ReadSleep(p) ==
  /\ pc[p] = "read_bed"
  /\ lock' = NoProc /\ Goto(p, "read_asleep")
  /\ UNCHANGED <<ring, ends, files, killed, args, got, cut>>

ReadGo(p) ==
  /\ pc[p] = "read" /\ ~(Empty /\ writeopen = 1)
  /\ Goto(p, "copy")
  /\ UNCHANGED <<ring, ends, files, lock, killed, args, got, cut>>

ReadByte(p) ==
  /\ pc[p] = "copy" /\ cnt[p] < want[p] /\ ~Empty
  /\ got' = data[nread % PIPESIZE]
  /\ nread' = (nread + 1) % UIntMod
  /\ cnt' = [cnt EXCEPT ![p] = @ + 1]
  /\ UNCHANGED <<data, nwrite, ends, files, lock, pc, killed, want, cut>>

\* Enough is read, the pipe is empty, or copyout() fails.
ReadReturn(p) ==
  /\ pc[p] = "copy"
  /\ Return(p)
  /\ WakeWriters(p, "user")
  /\ UNCHANGED <<ring, ends, files, killed, got>>

---------------------------------------------------------------------------

Lifecycle(p) ==
  \/ Spawn(p) \/ Pipealloc(p) \/ Exit(p) \/ Kill(p)
  \/ \E q \in Procs : Fork(p, q)
  \/ \E e \in End : Fileclose(p, e)
  \/ PipecloseWrite(p) \/ PipecloseRead(p)

Writing(p) ==
  \/ \E k \in Counts : Write(p, k)
  \/ WriteAbort(p) \/ WriteFull(p) \/ WriteSleep(p) \/ WriteReturn(p)
  \/ \E b \in Byte : WriteByte(p, b)

Reading(p) ==
  \/ \E k \in Counts : Read(p, k)
  \/ ReadAbort(p) \/ ReadEmpty(p) \/ ReadSleep(p) \/ ReadGo(p) \/ ReadByte(p) \/ ReadReturn(p)

Next == \E p \in Procs : Lifecycle(p) \/ Writing(p) \/ Reading(p) \/ Resume(p)

Spec == Init /\ [][Next]_vars

---------------------------------------------------------------------------
(* Properties.                                                              *)

InPipe(p) == pc[p] \notin {"none", "user"}

\* Type invariant; f->ref never falls below zero, and no call moves more than n bytes.
TypeOK ==
  /\ data \in [0 .. PIPESIZE - 1 -> Byte]
  /\ nread \in 0 .. UIntMod - 1 /\ nwrite \in 0 .. UIntMod - 1
  /\ readopen \in 0 .. 1 /\ writeopen \in 0 .. 1 /\ freed \in 0 .. 1
  /\ lock \in Procs \cup {NoProc}
  /\ ref \in [End -> Nat] /\ fds \in [Procs -> SUBSET End]
  /\ pc \in [Procs -> Pc] /\ killed \in [Procs -> 0 .. 1]
  /\ want \in [Procs -> Counts \cup {0}] /\ cnt \in [Procs -> Nat]
  /\ \A p \in Procs : cnt[p] <= want[p]
  /\ got \in Byte /\ cut \in 0 .. 1

\* The page of a pipe is not freed under a process that reads, writes, sleeps in or is
\* about to close the pipe, however closes, forks and exits interleave; and an end that
\* a process has open is open.
NoUseAfterFree ==
  /\ \A p \in Procs : InPipe(p) => freed = 0
  /\ \A p \in Procs : ("r" \in fds[p] => readopen = 1) /\ ("w" \in fds[p] => writeopen = 1)

\* Whenever pi->lock is free, a reader asleep means an empty pipe that can still be
\* written, and a writer asleep a full pipe that can still be read: no wakeup is lost.
\* The exception is a writer that was killed after it wrote some bytes: pipewrite()
\* returns without wakeup(), and the readers sleep on with bytes in the pipe.
NoLostWakeup ==
  lock = NoProc =>
    \A p \in Procs :
      /\ pc[p] = "read_asleep" /\ cut = 0 => Empty /\ writeopen = 1
      /\ pc[p] = "write_asleep" => Full /\ readopen = 1

\* read() returns 0, the end of file, only if the pipe is empty and nobody can write to
\* it any more, however many readers compete for the bytes.
EofOnlyAtEnd ==
  [][\A p \in Procs :
       pc[p] = "copy" /\ pc'[p] = "user" /\ cnt[p] = 0 /\ want[p] > 0 /\ Empty =>
         writeopen = 0 /\ \A q \in Procs : "w" \notin fds[q]]_vars

\* Bytes in the ring, oldest first.
Queue ==
  [i \in 1 .. (nwrite + UIntMod - nread) % UIntMod |-> data[(nread + i - 1) % PIPESIZE]]

Fifo == INSTANCE ByteQueue WITH Size <- PIPESIZE, queue <- Queue

\* The ring buffer is a FIFO queue of at most PIPESIZE bytes: no byte is lost,
\* duplicated or reordered, also when nread and nwrite wrap around.
ImplementsQueue == Fifo!Spec
=============================================================================
