------------------------------ MODULE ProcTree ------------------------------
(***************************************************************************)
(* Parents and children in xv6/kernel/proc.c: fork, exit, wait and kill on *)
(* any number of CPUs.                                                     *)
(*                                                                         *)
(* wait_lock is a variable where a process holds it over several steps.    *)
(* Steps under some p->lock are atomic, except that an exiting process     *)
(* holds its own from ZOMBIE until it is off its CPU.  Which of the live   *)
(* processes run is the matter of module Scheduler: RUNNABLE stands for    *)
(* RUNNING too.                                                            *)
(***************************************************************************)
EXTENDS Integers, FiniteSets

CONSTANTS NPROC,    \* slots of proc[]
          MaxPid    \* bound: the largest pid that allocpid() hands out

ASSUME TreeAssumption == NPROC \in Nat \ {0} /\ MaxPid \in Nat \ {0}

VARIABLES
  state, pid, parent, killed,   \* struct proc; parent 0: none
  nextpid,
  wait_lock,                    \* the slot that holds it, 0: free
  pc,                           \* where the thread of a slot stands
  child                         \* np in kfork()

table == <<state, pid, parent, killed>>
vars  == <<table, nextpid, wait_lock, pc, child>>

Slots    == 1 .. NPROC
initproc == 1

ProcState == {"UNUSED", "USED", "SLEEPING", "RUNNABLE", "ZOMBIE"}

\* "bed": in kwait(), about to sleep; "asleep" on some other channel; "zombie": on the
\* CPU with p->lock held; "off": no thread.
Pc == {"user", "fork_parent", "fork_run", "exit_zombie", "zombie", "off",
       "wait_bed", "wait_asleep", "wait_woken", "asleep"}

\* userinit().
Init ==
  /\ state = [s \in Slots |-> IF s = initproc THEN "RUNNABLE" ELSE "UNUSED"]
  /\ pid = [s \in Slots |-> IF s = initproc THEN 1 ELSE 0]
  /\ parent = [s \in Slots |-> 0] /\ killed = [s \in Slots |-> 0]
  /\ nextpid = 2 /\ wait_lock = 0
  /\ pc = [s \in Slots |-> IF s = initproc THEN "user" ELSE "off"]
  /\ child = [s \in Slots |-> 0]

---------------------------------------------------------------------------

SlotMin(S) == CHOOSE s \in S : \A t \in S : s <= t

Goto(p, l) == pc' = [pc EXCEPT ![p] = l]

\* usertrap() lets a killed process do nothing but exit.
InUser(p) == pc[p] = "user" /\ killed[p] = 0

Children(p) == {s \in Slots : parent[s] = p}

\* wakeup() of the processes in S that sleep in kwait(), while p moves on to l.
WakeWaiting(S, p, l) ==
  /\ pc' = [s \in Slots |-> IF s = p THEN l
                            ELSE IF s \in S /\ pc[s] = "wait_asleep" THEN "wait_woken"
                            ELSE pc[s]]
  /\ state' = [s \in Slots |-> IF s \in S \ {p} /\ pc[s] = "wait_asleep" THEN "RUNNABLE"
                               ELSE state[s]]

Unused == {s \in Slots : state[s] = "UNUSED"}

\* The slot that allocproc() finds.
FirstUnused == SlotMin(Unused)

\* kfork() up to release(&np->lock).  p->killed keeps its value in allocproc().
ForkAlloc(p) ==
  LET np == FirstUnused IN
  /\ InUser(p) /\ Unused # {} /\ nextpid <= MaxPid
  /\ state' = [state EXCEPT ![np] = "USED"]
  /\ pid' = [pid EXCEPT ![np] = nextpid]
  /\ nextpid' = nextpid + 1
  /\ child' = [child EXCEPT ![p] = np]
  /\ Goto(p, "fork_parent")
  /\ UNCHANGED <<parent, killed, wait_lock>>

\* No memory for the trapframe, the page table or the copy: freeproc(), a pid is lost.
ForkFail(p) ==
  /\ InUser(p) /\ Unused # {} /\ nextpid <= MaxPid
  /\ nextpid' = nextpid + 1
  /\ killed' = [killed EXCEPT ![FirstUnused] = 0]
  /\ UNCHANGED <<state, pid, parent, wait_lock, pc, child>>

ForkParent(p) ==
  /\ pc[p] = "fork_parent" /\ wait_lock = 0
  /\ parent' = [parent EXCEPT ![child[p]] = p]
  /\ Goto(p, "fork_run")
  /\ UNCHANGED <<state, pid, killed, nextpid, wait_lock, child>>

\* The child starts in forkret() and returns to user space.
ForkRunnable(p) ==
  /\ pc[p] = "fork_run"
  /\ state' = [state EXCEPT ![child[p]] = "RUNNABLE"]
  /\ pc' = [pc EXCEPT ![p] = "user", ![child[p]] = "user"]
  /\ child' = [child EXCEPT ![p] = 0]
  /\ UNCHANGED <<pid, parent, killed, nextpid, wait_lock>>

\* Mutant: children are not given to init.
ExitNoReparent(p) ==
  /\ pc[p] = "user" /\ p # initproc /\ wait_lock = 0
  /\ wait_lock' = p
  /\ WakeWaiting({parent[p]}, p, "exit_zombie")
  /\ UNCHANGED <<pid, parent, killed, nextpid, child>>

\* Mutant: reparent() does not wake init.
ExitSilently(p) ==
  /\ pc[p] = "user" /\ p # initproc /\ wait_lock = 0
  /\ wait_lock' = p
  /\ parent' = [s \in Slots |-> IF parent[s] = p THEN initproc ELSE parent[s]]
  /\ WakeWaiting({parent[p]}, p, "exit_zombie")
  /\ UNCHANGED <<pid, killed, nextpid, child>>

\* Mutant: kexit() does not wake the parent.
ExitNoWake(p) ==
  /\ pc[p] = "user" /\ p # initproc /\ wait_lock = 0
  /\ wait_lock' = p
  /\ parent' = [s \in Slots |-> IF parent[s] = p THEN initproc ELSE parent[s]]
  /\ WakeWaiting({s \in {initproc} : Children(p) # {}}, p, "exit_zombie")
  /\ UNCHANGED <<pid, killed, nextpid, child>>

\* kexit() under wait_lock: reparent(), then wake the parent.
Exit(p) ==
  /\ pc[p] = "user" /\ p # initproc /\ wait_lock = 0
  /\ wait_lock' = p
  /\ parent' = [s \in Slots |-> IF parent[s] = p THEN initproc ELSE parent[s]]
  /\ WakeWaiting({parent[p]} \cup {s \in {initproc} : Children(p) # {}}, p, "exit_zombie")
  /\ UNCHANGED <<pid, killed, nextpid, child>>

\* Only now, with its p->lock held, does it become a zombie.
ExitZombie(p) ==
  /\ pc[p] = "exit_zombie"
  /\ state' = [state EXCEPT ![p] = "ZOMBIE"]
  /\ wait_lock' = 0
  /\ Goto(p, "zombie")
  /\ UNCHANGED <<pid, parent, killed, nextpid, child>>

\* sched(): the scheduler releases p->lock.
ExitOff(p) ==
  /\ pc[p] = "zombie"
  /\ Goto(p, "off")
  /\ UNCHANGED <<table, nextpid, wait_lock, child>>

---------------------------------------------------------------------------
(* kwait().  Each round holds wait_lock; it starts on entry and after every *)
(* wakeup.                                                                  *)

Scans(p) == (InUser(p) \/ pc[p] = "wait_woken") /\ wait_lock = 0

Zombies(p) == {s \in Children(p) : state[s] = "ZOMBIE"}

Freeproc(s) ==
  /\ state' = [state EXCEPT ![s] = "UNUSED"]
  /\ pid' = [pid EXCEPT ![s] = 0]
  /\ parent' = [parent EXCEPT ![s] = 0]
  /\ killed' = [killed EXCEPT ![s] = 0]

\* The first zombie child, once its p->lock is free.
WaitReap(p) ==
  /\ Scans(p) /\ Zombies(p) # {}
  /\ LET pp == SlotMin(Zombies(p)) IN pc[pp] = "off" /\ Freeproc(pp)
  /\ Goto(p, "user")
  /\ UNCHANGED <<nextpid, wait_lock, child>>

\* copyout() of the status fails, and the zombie stays.  init passes no address.
WaitFault(p) ==
  /\ Scans(p) /\ Zombies(p) # {} /\ p # initproc
  /\ pc[SlotMin(Zombies(p))] = "off"
  /\ Goto(p, "user")
  /\ UNCHANGED <<table, nextpid, wait_lock, child>>

WaitNone(p) ==
  /\ Scans(p) /\ Zombies(p) = {}
  /\ Children(p) = {} \/ killed[p] = 1
  /\ Goto(p, "user")
  /\ UNCHANGED <<table, nextpid, wait_lock, child>>

WaitBed(p) ==
  /\ Scans(p) /\ Zombies(p) = {}
  /\ Children(p) # {} /\ killed[p] = 0
  /\ wait_lock' = p
  /\ Goto(p, "wait_bed")
  /\ UNCHANGED <<table, nextpid, child>>

\* sleep(p, &wait_lock).
WaitSleep(p) ==
  /\ pc[p] = "wait_bed"
  /\ state' = [state EXCEPT ![p] = "SLEEPING"]
  /\ wait_lock' = 0
  /\ Goto(p, "wait_asleep")
  /\ UNCHANGED <<pid, parent, killed, nextpid, child>>

\* Any other sleep() of a system call, and its end.
SleepOther(p) ==
  /\ InUser(p)
  /\ state' = [state EXCEPT ![p] = "SLEEPING"]
  /\ Goto(p, "asleep")
  /\ UNCHANGED <<pid, parent, killed, nextpid, wait_lock, child>>

WakeOther(p) ==
  /\ pc[p] = "asleep"
  /\ state' = [state EXCEPT ![p] = "RUNNABLE"]
  /\ Goto(p, "user")
  /\ UNCHANGED <<pid, parent, killed, nextpid, wait_lock, child>>

\* kkill(k): the first slot with that pid, whatever its state.  A slot in "zombie" has
\* its p->lock held.  Killing init ends in a panic and is left out.
Kill(k) ==
  LET S == {s \in Slots : pid[s] = k} IN
  /\ S # {} /\ k # 1
  /\ LET p == SlotMin(S) IN
       /\ pc[p] # "zombie"
       /\ killed' = [killed EXCEPT ![p] = 1]
       /\ state' = [state EXCEPT ![p] = IF @ = "SLEEPING" THEN "RUNNABLE" ELSE @]
       /\ Goto(p, CASE pc[p] = "wait_asleep" -> "wait_woken"
                    [] pc[p] = "asleep" -> "user"
                    [] OTHER -> pc[p])
  /\ UNCHANGED <<pid, parent, nextpid, wait_lock, child>>

---------------------------------------------------------------------------

Fork(p) == ForkAlloc(p) \/ ForkFail(p) \/ ForkParent(p) \/ ForkRunnable(p)

Wait(p) == WaitReap(p) \/ WaitFault(p) \/ WaitNone(p) \/ WaitBed(p) \/ WaitSleep(p)

Next ==
  \/ \E p \in Slots :
       \/ Fork(p) \/ Exit(p) \/ ExitZombie(p) \/ ExitOff(p) \/ Wait(p)
       \/ SleepOther(p) \/ WakeOther(p)
  \/ \E k \in 0 .. MaxPid : Kill(k)

Spec == Init /\ [][Next]_vars

\* A process goes on with a fork(), exit() or wait() it has begun.  init calls wait() in
\* every round of its loop, whatever else it does there, and gets wait_lock in the end.
FairSpec ==
  /\ Spec
  /\ \A p \in Slots :
       /\ WF_vars(ForkParent(p) \/ ForkRunnable(p) \/ ExitZombie(p) \/ ExitOff(p))
       /\ WF_vars(WaitSleep(p))
       /\ WF_vars(pc[p] = "wait_woken" /\ Wait(p))
  /\ SF_vars(Wait(initproc))
  /\ WF_vars(WakeOther(initproc))

---------------------------------------------------------------------------
(* Properties.                                                              *)

\* Type invariant; the scan of allocproc() stays inside proc[].
TypeOK ==
  /\ state \in [Slots -> ProcState] /\ pid \in [Slots -> 0 .. MaxPid]
  /\ parent \in [Slots -> 0 .. NPROC] /\ killed \in [Slots -> {0, 1}]
  /\ nextpid \in 2 .. MaxPid + 1 /\ wait_lock \in 0 .. NPROC
  /\ pc \in [Slots -> Pc] /\ child \in [Slots -> 0 .. NPROC]

\* Every process but init has a parent that can still wait for it, from the end of its
\* fork() until it is reaped: exits of parents and children in any order strand nobody.
ParentLives ==
  \A s \in Slots :
    /\ state[s] \in {"SLEEPING", "RUNNABLE", "ZOMBIE"} /\ s # initproc => parent[s] # 0
    /\ parent[s] # 0 => state[parent[s]] \in {"SLEEPING", "RUNNABLE"}
    /\ state[s] = "UNUSED" => parent[s] = 0

\* A process sleeps in kwait() only while it has children and none of them is a zombie:
\* kexit() wakes the parent before it becomes a zombie, and wait_lock makes the parent
\* look too late rather than too early.
NoLostExit ==
  \A p \in Slots :
    pc[p] = "wait_asleep" /\ wait_lock = 0 => Children(p) # {} /\ Zombies(p) = {}

\* Orphans do not stay zombies: init, which calls wait() in every round of its loop,
\* reaps each one.
OrphansReaped ==
  \A s \in Slots : state[s] = "ZOMBIE" /\ parent[s] = initproc ~> state[s] = "UNUSED"
=============================================================================
