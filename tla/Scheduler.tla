----------------------------- MODULE Scheduler -----------------------------
(***************************************************************************)
(* The per-CPU scheduler of xv6/kernel/proc.c, the hand-over of p->lock    *)
(* across swtch(), and the LLM advice the scheduler consults.              *)
(*                                                                         *)
(* Each CPU executes on one kernel stack at a time: the scheduler's own    *)
(* (on[c] = NoProc) or that of a process.  p->lock records the CPU that    *)
(* holds it, as struct spinlock does, because the lock is acquired on one  *)
(* stack and released on another.  A critical section that is entered and  *)
(* left inside one function and touches only what its lock protects is one *)
(* step, enabled when the lock is free; llm_lock is only used this way.    *)
(*                                                                         *)
(* What processes do is abstracted to what changes p->state: be preempted, *)
(* sleep, exit, fork, reap, wake others and give advice.  Channels and     *)
(* parents are in module ProcTree.                                         *)
(***************************************************************************)
EXTENDS Integers, FiniteSets

CONSTANTS CPU,                   \* the harts
          CPU0,                  \* the hart whose clockintr() advances ticks
          NoCpu,                 \* lk->cpu = 0
          NPROC,                 \* slots of the process table
          MaxPid,                \* bound: pids handed out by allocpid()
          TickMod,               \* 2^32 in the code: ticks is a uint
          ADVICE_TIMEOUT_TICKS,
          AdvisorPids,           \* pids whose program calls set_llm_advice()
          AdvicePids             \* arguments they pass

ASSUME CpuAssumption == CPU0 \in CPU /\ NoCpu \notin CPU

ASSUME NumAssumption ==
  /\ NPROC \in Nat \ {0}
  /\ MaxPid \in Nat \ {0}
  /\ TickMod \in Nat \ {0}
  /\ ADVICE_TIMEOUT_TICKS \in Nat
  /\ AdvicePids \subseteq Int

Slots == 1 .. NPROC
NoProc == 0
initproc == 1

VARIABLES
  state,     \* p->state
  pid,       \* p->pid
  plock,     \* p->lock.cpu, NoCpu when the lock is free
  nextpid,
  cproc,     \* c->proc
  on,        \* the process whose kernel stack c executes on
  tpc,       \* where the kernel thread of p stands, or will resume
  np,        \* kfork()'s local np, while the child is not yet RUNNABLE
  spc,       \* where the scheduler thread of c stands
  idx,       \* scheduler()'s local p
  found,     \* scheduler()'s local found
  advised,   \* scheduler()'s local advised_pid
  ticks,
  llm_recommended_pid,
  llm_advice_valid,
  llm_advice_timestamp

table  == <<state, pid, plock, nextpid>>
cpus   == <<cproc, on>>
thread == <<tpc, np>>
loop   == <<spc, idx, found, advised>>
llm    == <<llm_recommended_pid, llm_advice_valid, llm_advice_timestamp>>
vars   == <<table, cpus, thread, loop, ticks, llm>>

ProcState == {"UNUSED", "USED", "SLEEPING", "RUNNABLE", "RUNNING", "ZOMBIE"}

\* Where a thread stands: executing with no spinlock held ("run"), on its way
\* into yield() after a timer interrupt ("preempt"), in kfork() with np->lock
\* held ("fork"), in sched() about to swtch(), or saved behind a swtch().
Saved    == {"forkret", "yielded", "slept"}
Swtching == {"yielding", "sleeping", "exiting"}
ThreadPc == Saved \cup Swtching \cup {"none", "run", "preempt", "fork", "dead"}

\* The scheduler thread: "honor" holds p->lock of the chosen process and is
\* about to swtch(); "advised" and "picked" are behind the swtch().
SchedPc == {"loop", "advise", "honor", "advised", "rr", "picked", "wfi"}

Init ==
  /\ state = [p \in Slots |-> IF p = initproc THEN "RUNNABLE" ELSE "UNUSED"]
  /\ pid = [p \in Slots |-> IF p = initproc THEN 1 ELSE 0]
  /\ plock = [p \in Slots |-> NoCpu]
  /\ nextpid = 2
  /\ cproc = [c \in CPU |-> NoProc]
  /\ on = [c \in CPU |-> NoProc]
  /\ tpc = [p \in Slots |-> IF p = initproc THEN "forkret" ELSE "none"]
  /\ np = [p \in Slots |-> NoProc]
  /\ spc = [c \in CPU |-> "loop"]
  /\ idx = [c \in CPU |-> 1]
  /\ found = [c \in CPU |-> 0]
  /\ advised = [c \in CPU |-> -1]
  /\ ticks = 0
  /\ llm_recommended_pid = -1
  /\ llm_advice_valid = 0
  /\ llm_advice_timestamp = 0

---------------------------------------------------------------------------
(* Spinlocks: acquire() spins until the lock is free, so it is a guard;     *)
(* release() makes it free.                                                 *)

Acquire(c, p) == plock[p] = NoCpu /\ plock' = [plock EXCEPT ![p] = c]
Release(p)    == plock' = [plock EXCEPT ![p] = NoCpu]

\* acquire() and release() in one step: nobody sees the lock taken.
Locked(p)     == plock[p] = NoCpu /\ UNCHANGED plock

---------------------------------------------------------------------------
(* scheduler().                                                             *)

InScheduler(c) == on[c] = NoProc

\* The test of the snapshot.  Subtraction of uints wraps.
AdviceFresh ==
  (ticks - llm_advice_timestamp) % TickMod < ADVICE_TIMEOUT_TICKS

\* Mutant: the age of the advice is not looked at.
SnapshotNoTimeout(c) ==
  /\ InScheduler(c) /\ spc[c] = "loop"
  /\ found' = [found EXCEPT ![c] = 0]
  /\ idx' = [idx EXCEPT ![c] = 1]
  /\ \/ /\ llm_advice_valid = 1
        /\ advised' = [advised EXCEPT ![c] = llm_recommended_pid]
        /\ spc' = [spc EXCEPT ![c] = "advise"]
     \/ /\ llm_advice_valid = 0
        /\ advised' = [advised EXCEPT ![c] = -1]
        /\ spc' = [spc EXCEPT ![c] = "rr"]
  /\ UNCHANGED <<table, cpus, thread, ticks, llm>>

\* Top of the loop: copy valid, unexpired advice under llm_lock.
Snapshot(c) ==
  /\ InScheduler(c) /\ spc[c] = "loop"
  /\ found' = [found EXCEPT ![c] = 0]
  /\ idx' = [idx EXCEPT ![c] = 1]
  /\ \/ /\ llm_advice_valid = 1 /\ AdviceFresh
        /\ advised' = [advised EXCEPT ![c] = llm_recommended_pid]
        /\ spc' = [spc EXCEPT ![c] = "advise"]
     \/ /\ ~(llm_advice_valid = 1 /\ AdviceFresh)
        /\ advised' = [advised EXCEPT ![c] = -1]
        /\ spc' = [spc EXCEPT ![c] = "rr"]
  /\ UNCHANGED <<table, cpus, thread, ticks, llm>>

\* p->state = RUNNING; c->proc = p, with p->lock held until after the swtch().
Choose(c, p) ==
  /\ Acquire(c, p)
  /\ state' = [state EXCEPT ![p] = "RUNNING"]
  /\ cproc' = [cproc EXCEPT ![c] = p]
  /\ UNCHANGED <<pid, nextpid>>

\* The advised scan finds its process in slot idx[c] ...
AdviseHit(c) ==
  /\ InScheduler(c) /\ spc[c] = "advise"
  /\ state[idx[c]] = "RUNNABLE" /\ pid[idx[c]] = advised[c]
  /\ Choose(c, idx[c])
  /\ spc' = [spc EXCEPT ![c] = "honor"]
  /\ UNCHANGED <<on, thread, idx, found, advised, ticks, llm>>

\* Mutant: the end test of the loop is off by one.
AdviseMissOverrun(c) ==
  /\ InScheduler(c) /\ spc[c] = "advise"
  /\ Locked(idx[c])
  /\ ~(state[idx[c]] = "RUNNABLE" /\ pid[idx[c]] = advised[c])
  /\ idx' = [idx EXCEPT ![c] = @ + 1]
  /\ UNCHANGED <<state, pid, nextpid, cpus, thread, spc, found, advised, ticks, llm>>

\* Mutant: the break is reached also when the slot does not match.
AdviseMissBreaks(c) ==
  /\ InScheduler(c) /\ spc[c] = "advise"
  /\ Locked(idx[c])
  /\ ~(state[idx[c]] = "RUNNABLE" /\ pid[idx[c]] = advised[c])
  /\ idx' = [idx EXCEPT ![c] = 1]
  /\ spc' = [spc EXCEPT ![c] = "rr"]
  /\ UNCHANGED <<state, pid, nextpid, cpus, thread, found, advised, ticks, llm>>

\* ... or goes on; after the last slot round-robin starts at the first.
AdviseMiss(c) ==
  /\ InScheduler(c) /\ spc[c] = "advise"
  /\ Locked(idx[c])
  /\ ~(state[idx[c]] = "RUNNABLE" /\ pid[idx[c]] = advised[c])
  /\ idx' = [idx EXCEPT ![c] = IF @ = NPROC THEN 1 ELSE @ + 1]
  /\ spc' = [spc EXCEPT ![c] = IF idx[c] = NPROC THEN "rr" ELSE "advise"]
  /\ UNCHANGED <<state, pid, nextpid, cpus, thread, found, advised, ticks, llm>>

\* Under llm_lock the advice is marked as used; then swtch() to the process.
Honor(c) ==
  /\ InScheduler(c) /\ spc[c] = "honor"
  /\ llm_advice_valid' = 0
  /\ on' = [on EXCEPT ![c] = idx[c]]
  /\ spc' = [spc EXCEPT ![c] = "advised"]
  /\ UNCHANGED <<table, cproc, thread, idx, found, advised, ticks,
                 llm_recommended_pid, llm_advice_timestamp>>

\* Behind the swtch(): c->proc = 0, found = 1, release p->lock and break.
AdvisedBack(c) ==
  /\ InScheduler(c) /\ spc[c] = "advised"
  /\ cproc' = [cproc EXCEPT ![c] = NoProc]
  /\ found' = [found EXCEPT ![c] = 1]
  /\ Release(idx[c])
  /\ spc' = [spc EXCEPT ![c] = "loop"]
  /\ UNCHANGED <<state, pid, nextpid, on, thread, idx, advised, ticks, llm>>

\* Step of the round-robin for loop; after the last slot wfi if none was found.
NextSlot(c, anyFound) ==
  /\ idx' = [idx EXCEPT ![c] = IF @ = NPROC THEN 1 ELSE @ + 1]
  /\ spc' = [spc EXCEPT ![c] = IF idx[c] # NPROC THEN "rr"
                               ELSE IF anyFound = 1 THEN "loop" ELSE "wfi"]

PickHit(c) ==
  /\ InScheduler(c) /\ spc[c] = "rr"
  /\ state[idx[c]] = "RUNNABLE"
  /\ Choose(c, idx[c])
  /\ on' = [on EXCEPT ![c] = idx[c]]
  /\ spc' = [spc EXCEPT ![c] = "picked"]
  /\ UNCHANGED <<thread, idx, found, advised, ticks, llm>>

PickMiss(c) ==
  /\ InScheduler(c) /\ spc[c] = "rr"
  /\ Locked(idx[c])
  /\ state[idx[c]] # "RUNNABLE"
  /\ NextSlot(c, found[c])
  /\ UNCHANGED <<state, pid, nextpid, cpus, thread, found, advised, ticks, llm>>

\* Mutant: round-robin leaves the pass after the first process it ran.
PickedBackBreaks(c) ==
  /\ InScheduler(c) /\ spc[c] = "picked"
  /\ cproc' = [cproc EXCEPT ![c] = NoProc]
  /\ found' = [found EXCEPT ![c] = 1]
  /\ Release(idx[c])
  /\ spc' = [spc EXCEPT ![c] = "loop"]
  /\ UNCHANGED <<state, pid, nextpid, on, thread, idx, advised, ticks, llm>>

\* Behind the swtch() of the round-robin pass, which goes on to the next slot.
PickedBack(c) ==
  /\ InScheduler(c) /\ spc[c] = "picked"
  /\ cproc' = [cproc EXCEPT ![c] = NoProc]
  /\ found' = [found EXCEPT ![c] = 1]
  /\ Release(idx[c])
  /\ NextSlot(c, 1)
  /\ UNCHANGED <<state, pid, nextpid, on, thread, advised, ticks, llm>>

\* wfi ends when an interrupt is pending; it is taken at the top of the loop.
Wfi(c) ==
  /\ InScheduler(c) /\ spc[c] = "wfi"
  /\ spc' = [spc EXCEPT ![c] = "loop"]
  /\ UNCHANGED <<table, cpus, thread, idx, found, advised, ticks, llm>>

---------------------------------------------------------------------------
(* Kernel threads of processes.  me(c) is myproc().                         *)

me(c) == cproc[c]
At(c, pc) == on[c] # NoProc /\ tpc[me(c)] = pc
Goto(p, pc) == tpc' = [tpc EXCEPT ![p] = pc]

\* In a system call, with no fork under way.
InSyscall(c) == At(c, "run") /\ np[me(c)] = NoProc

\* Interrupts are on: in user space, in kernel code that holds no spinlock, and
\* between intr_on() and intr_off() at the top of the scheduler loop.
Interruptible(c) == At(c, "run") \/ (InScheduler(c) /\ spc[c] = "loop")

\* First instructions behind a swtch() to this thread: forkret(), or the rest of
\* yield() or sleep() after sched().  All release the p->lock of scheduler().
Resume(c) ==
  /\ on[c] # NoProc /\ tpc[me(c)] \in Saved
  /\ Release(me(c))
  /\ Goto(me(c), "run")
  /\ UNCHANGED <<state, pid, nextpid, cpus, np, loop, ticks, llm>>

\* Timer interrupt: CPU 0 advances ticks; a process then calls yield().  Which sleepers
\* its wakeup(&ticks) finds depends on their channels, so they are woken by Wakeup; the
\* statistics it updates and prints are not read by the scheduler.
Clockintr(c) ==
  /\ Interruptible(c)
  /\ ticks' = IF c = CPU0 THEN (ticks + 1) % TickMod ELSE ticks
  /\ IF InScheduler(c) THEN UNCHANGED tpc ELSE Goto(me(c), "preempt")
  /\ UNCHANGED <<table, cpus, np, loop, llm>>

\* Mutant: yield() marks the process RUNNABLE without taking p->lock.
YieldUnlocked(c) ==
  /\ At(c, "preempt")
  /\ Locked(me(c))
  /\ state' = [state EXCEPT ![me(c)] = "RUNNABLE"]
  /\ Goto(me(c), "yielding")
  /\ UNCHANGED <<pid, nextpid, cpus, np, loop, ticks, llm>>

Yield(c) ==
  /\ At(c, "preempt")
  /\ Acquire(c, me(c))
  /\ state' = [state EXCEPT ![me(c)] = "RUNNABLE"]
  /\ Goto(me(c), "yielding")
  /\ UNCHANGED <<pid, nextpid, cpus, np, loop, ticks, llm>>

\* sleep(), up to sched().
Sleep(c) ==
  /\ InSyscall(c)
  /\ Acquire(c, me(c))
  /\ state' = [state EXCEPT ![me(c)] = "SLEEPING"]
  /\ Goto(me(c), "sleeping")
  /\ UNCHANGED <<pid, nextpid, cpus, np, loop, ticks, llm>>

\* kexit(), from acquire(&p->lock) up to sched(); a killed process also exits
\* from usertrap() on a timer interrupt.  init panics instead.
Exit(c) ==
  /\ InSyscall(c) \/ (At(c, "preempt") /\ np[me(c)] = NoProc)
  /\ me(c) # initproc
  /\ Acquire(c, me(c))
  /\ state' = [state EXCEPT ![me(c)] = "ZOMBIE"]
  /\ Goto(me(c), "exiting")
  /\ UNCHANGED <<pid, nextpid, cpus, np, loop, ticks, llm>>

\* Mutant: p->lock is released before the switch is complete.
SchedReleases(c) ==
  /\ on[c] # NoProc /\ tpc[me(c)] \in Swtching
  /\ Goto(me(c), CASE tpc[me(c)] = "yielding" -> "yielded"
                   [] tpc[me(c)] = "sleeping" -> "slept"
                   [] tpc[me(c)] = "exiting"  -> "dead")
  /\ Release(me(c))
  /\ on' = [on EXCEPT ![c] = NoProc]
  /\ UNCHANGED <<state, pid, nextpid, cproc, np, loop, ticks, llm>>

\* sched(): swtch() to the scheduler of this CPU, p->lock still held.
Sched(c) ==
  /\ on[c] # NoProc /\ tpc[me(c)] \in Swtching
  /\ Goto(me(c), CASE tpc[me(c)] = "yielding" -> "yielded"
                   [] tpc[me(c)] = "sleeping" -> "slept"
                   [] tpc[me(c)] = "exiting"  -> "dead")
  /\ on' = [on EXCEPT ![c] = NoProc]
  /\ UNCHANGED <<table, cproc, np, loop, ticks, llm>>

\* Mutant: p->state is not looked at before it is set to RUNNABLE.
WakeupAny(c, q) ==
  /\ Interruptible(c) /\ q # me(c)
  /\ Locked(q)
  /\ state' = [state EXCEPT ![q] = "RUNNABLE"]
  /\ UNCHANGED <<pid, nextpid, cpus, thread, loop, ticks, llm>>

\* Loop body of wakeup() and kkill() that finds q asleep.  Called by system calls
\* and by interrupt handlers, on a CPU whose process is not q.
Wakeup(c, q) ==
  /\ Interruptible(c) /\ q # me(c)
  /\ Locked(q)
  /\ state[q] = "SLEEPING"
  /\ state' = [state EXCEPT ![q] = "RUNNABLE"]
  /\ UNCHANGED <<pid, nextpid, cpus, thread, loop, ticks, llm>>

\* allocproc() in kfork(): q is an UNUSED slot and its lock stays held.
Allocproc(c, q) ==
  /\ InSyscall(c)
  /\ nextpid <= MaxPid
  /\ state[q] = "UNUSED"
  /\ Acquire(c, q)
  /\ state' = [state EXCEPT ![q] = "USED"]
  /\ pid' = [pid EXCEPT ![q] = nextpid]
  /\ nextpid' = nextpid + 1
  /\ np' = [np EXCEPT ![me(c)] = q]
  /\ tpc' = [tpc EXCEPT ![q] = "forkret", ![me(c)] = "fork"]
  /\ UNCHANGED <<cpus, loop, ticks, llm>>

\* Out of memory in allocproc() or uvmcopy(): freeproc(np), release, return -1.
ForkFail(c) ==
  LET q == np[me(c)] IN
  /\ At(c, "fork")
  /\ state' = [state EXCEPT ![q] = "UNUSED"]
  /\ pid' = [pid EXCEPT ![q] = 0]
  /\ Release(q)
  /\ np' = [np EXCEPT ![me(c)] = NoProc]
  /\ tpc' = [tpc EXCEPT ![q] = "none", ![me(c)] = "run"]
  /\ UNCHANGED <<nextpid, cpus, loop, ticks, llm>>

\* The child is set up: release(&np->lock).  It is not RUNNABLE yet.
ForkCopied(c) ==
  /\ At(c, "fork")
  /\ Release(np[me(c)])
  /\ Goto(me(c), "run")
  /\ UNCHANGED <<state, pid, nextpid, cpus, np, loop, ticks, llm>>

\* acquire(&np->lock); np->state = RUNNABLE; release(&np->lock).
ForkRunnable(c) ==
  /\ At(c, "run") /\ np[me(c)] # NoProc
  /\ Locked(np[me(c)])
  /\ state' = [state EXCEPT ![np[me(c)]] = "RUNNABLE"]
  /\ np' = [np EXCEPT ![me(c)] = NoProc]
  /\ UNCHANGED <<pid, nextpid, cpus, tpc, loop, ticks, llm>>

\* Mutant: kwait() frees the zombie without taking pp->lock.
ReapUnlocked(c, q) ==
  /\ InSyscall(c) /\ q # me(c)
  /\ state[q] = "ZOMBIE"
  /\ state' = [state EXCEPT ![q] = "UNUSED"]
  /\ pid' = [pid EXCEPT ![q] = 0]
  /\ Goto(q, "none")
  /\ UNCHANGED <<plock, nextpid, cpus, np, loop, ticks, llm>>

\* kwait() finds the zombie q and calls freeproc(q), under q's lock.
Reap(c, q) ==
  /\ InSyscall(c) /\ q # me(c)
  /\ Locked(q)
  /\ state[q] = "ZOMBIE"
  /\ state' = [state EXCEPT ![q] = "UNUSED"]
  /\ pid' = [pid EXCEPT ![q] = 0]
  /\ Goto(q, "none")
  /\ UNCHANGED <<nextpid, cpus, np, loop, ticks, llm>>

\* sys_set_llm_advice(): a pid <= 0 is refused.
SetLlmAdvice(c, a) ==
  /\ InSyscall(c) /\ pid[me(c)] \in AdvisorPids
  /\ a > 0
  /\ llm_recommended_pid' = a
  /\ llm_advice_valid' = 1
  /\ llm_advice_timestamp' = ticks
  /\ UNCHANGED <<table, cpus, thread, loop, ticks>>

---------------------------------------------------------------------------

SchedulerStep(c) ==
  \/ Snapshot(c) \/ AdviseHit(c) \/ AdviseMiss(c) \/ Honor(c) \/ AdvisedBack(c)
  \/ PickHit(c) \/ PickMiss(c) \/ PickedBack(c) \/ Wfi(c)

ThreadStep(c) ==
  \/ Resume(c) \/ Clockintr(c) \/ Yield(c) \/ Sleep(c) \/ Exit(c) \/ Sched(c)
  \/ ForkFail(c) \/ ForkCopied(c) \/ ForkRunnable(c)
  \/ \E q \in Slots : Wakeup(c, q) \/ Allocproc(c, q) \/ Reap(c, q)
  \/ \E a \in AdvicePids : SetLlmAdvice(c, a)

Next == \E c \in CPU : SchedulerStep(c) \/ ThreadStep(c)

Spec == Init /\ [][Next]_vars

\* An executing CPU goes on executing, and its timer keeps firing (clockintr()
\* rearms it): the scheduler loop advances, and a thread that has entered the
\* kernel's switching code or runs in user space for ever is driven on.  Nothing is
\* assumed about system calls.
Progress(c) ==
  Resume(c) \/ Clockintr(c) \/ Yield(c) \/ Sched(c) \/ ForkFail(c) \/ ForkCopied(c)

FairSpec == Spec /\ \A c \in CPU : WF_vars(SchedulerStep(c)) /\ WF_vars(Progress(c))

---------------------------------------------------------------------------
(* Properties.                                                              *)

\* Type invariant; the scans of scheduler() stay inside proc[].
TypeOK ==
  /\ state \in [Slots -> ProcState]
  /\ pid \in [Slots -> 0 .. MaxPid]
  /\ plock \in [Slots -> CPU \cup {NoCpu}]
  /\ nextpid \in 2 .. MaxPid + 1
  /\ cproc \in [CPU -> Slots \cup {NoProc}]
  /\ on \in [CPU -> Slots \cup {NoProc}]
  /\ tpc \in [Slots -> ThreadPc]
  /\ np \in [Slots -> Slots \cup {NoProc}]
  /\ spc \in [CPU -> SchedPc]
  /\ idx \in [CPU -> Slots]
  /\ found \in [CPU -> {0, 1}]
  /\ advised \in [CPU -> AdvicePids \cup {-1}]
  /\ ticks \in 0 .. TickMod - 1
  /\ llm_recommended_pid \in AdvicePids \cup {-1}
  /\ llm_advice_valid \in {0, 1}
  /\ llm_advice_timestamp \in 0 .. TickMod - 1

Held(c) == {p \in Slots : plock[p] = c}

\* None of the lock panics can fire, whatever the interleaving of CPUs: sched() is
\* entered with p->lock and no other process lock held and with p->state changed
\* ("sched p->lock", "sched locks", "sched RUNNING"), every release() is made by the
\* CPU that holds the lock ("release"), and no CPU acquires a process lock while it
\* already holds one, which would panic ("acquire") or spin with interrupts off.
NoLockPanic ==
  \A c \in CPU :
    /\ on[c] # NoProc /\ tpc[me(c)] \in Swtching =>
         Held(c) = {me(c)} /\ state[me(c)] # "RUNNING"
    /\ on[c] # NoProc /\ tpc[me(c)] \in Saved => plock[me(c)] = c
    /\ At(c, "fork") => plock[np[me(c)]] = c
    /\ InScheduler(c) /\ spc[c] \in {"advised", "picked"} => plock[idx[c]] = c
    /\ InScheduler(c) /\ spc[c] \in {"loop", "advise", "rr", "wfi"} => Held(c) = {}
    /\ At(c, "run") \/ At(c, "preempt") => Held(c) = {}

\* No kernel stack is in use by two CPUs, and no slot is freed or reused while a
\* CPU still executes on its stack: holding p->lock across swtch() keeps kwait(),
\* allocproc() and the other schedulers away until the context is saved.
StackExclusive ==
  /\ \A c, d \in CPU : on[c] = on[d] /\ on[c] # NoProc => c = d
  /\ \A c \in CPU : on[c] # NoProc => state[on[c]] \notin {"UNUSED", "USED"}

\* The scheduler's decision to run a process is always about a complete context: if
\* a process is RUNNABLE and its lock can be taken, then no CPU is on its stack, no
\* CPU has it as c->proc, and it will resume behind a swtch() or in forkret().
RunnableIsSaved ==
  \A p \in Slots :
    state[p] = "RUNNABLE" /\ plock[p] = NoCpu =>
      /\ tpc[p] \in Saved
      /\ \A c \in CPU : cproc[c] # p /\ on[c] # p

\* What a change of p->state needs: to end RUNNING, p on a CPU that takes its lock.
StateChange ==
  \A p \in Slots : state'[p] # state[p] =>
    /\ state[p] = "RUNNING" => \E c \in CPU : on[c] = p /\ plock'[p] = c
    /\ state[p] = "ZOMBIE" => state'[p] = "UNUSED"
    /\ state[p] = "UNUSED" => state'[p] = "USED"
    /\ state'[p] = "RUNNING" => state[p] = "RUNNABLE"

\* What a step may never do to p->state: only the thread of p itself, executing on
\* its CPU, ends RUNNING; only a reaping kwait() ends ZOMBIE; and an UNUSED slot
\* becomes schedulable only through USED.
StateSteps == [][StateChange]_vars

\* One CPU: as long as the scheduler acts on its snapshot, the snapshot is still the
\* current advice, unused and unexpired; and when the process it chose starts to
\* run, no valid advice is left, so that one piece of advice buys one turn.
AdviceOnce ==
  \A c \in CPU :
    /\ spc[c] \in {"advise", "honor"} =>
         llm_advice_valid = 1 /\ AdviceFresh /\ llm_recommended_pid = advised[c]
    /\ spc[c] = "advised" /\ on[c] # NoProc /\ tpc[on[c]] \in Saved => llm_advice_valid = 0

\* One CPU: advice that names a RUNNABLE process is never passed over.  The scan
\* for it does not leave the process behind, and the round-robin pass of the same
\* turn starts only if there is no such process.
AdvisedNotSkipped ==
  \A c \in CPU, p \in Slots :
    state[p] = "RUNNABLE" /\ pid[p] = advised[c] /\ InScheduler(c) =>
      /\ spc[c] = "advise" => p >= idx[c]
      /\ ~(spc[c] = "rr" /\ idx[c] = 1 /\ found[c] = 0)

\* One CPU, and an advisor that never recommends itself: a RUNNABLE process gets
\* the CPU whatever advice arrives, because advice is used up by one turn and the
\* pass that follows visits every slot.
NoStarvation ==
  \A p \in Slots : state[p] = "RUNNABLE" ~> state[p] = "RUNNING"

\* Several CPUs: the comment at the clearing of llm_advice_valid says that it marks
\* the advice being followed as used.  Advice that replaced it since the snapshot is
\* not the one being followed, and should survive.
ClearsOwnAdvice ==
  \A c \in CPU :
    spc[c] = "honor" /\ llm_advice_valid = 1 => llm_recommended_pid = advised[c]
=============================================================================
