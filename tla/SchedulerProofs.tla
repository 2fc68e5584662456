-------------------------- MODULE SchedulerProofs ---------------------------
(***************************************************************************)
(* The safety of the scheduler, for any number of CPUs, slots and pids: the*)
(* types, the hand-over of p->lock across swtch(), how p->state changes, and*)
(* what becomes of a piece of advice.                                      *)
(***************************************************************************)
EXTENDS Scheduler, TLAPS

---------------------------------------------------------------------------
(* Types.                                                                   *)

\* An update keeps a function in its set, wherever it is made.
LEMMA ExceptType ==
  ASSUME NEW S, NEW T, NEW f \in [S -> T], NEW x, NEW v \in T
  PROVE  [f EXCEPT ![x] = v] \in [S -> T]
BY Zenon

\* The initial state is well typed.
LEMMA TypeInit == Init => TypeOK
BY CpuAssumption, NumAssumption
   DEF Init, TypeOK, Slots, NoProc, initproc, ProcState, ThreadPc, Saved, Swtching, SchedPc

\* The steps of scheduler() keep the types.
LEMMA TypeScheduler ==
  ASSUME TypeOK, NEW c \in CPU, SchedulerStep(c)
  PROVE  TypeOK'
<1> USE CpuAssumption, NumAssumption
    DEF TypeOK, Slots, NoProc, ProcState, SchedPc, table, cpus, thread, loop, llm
<1>1. CASE Snapshot(c)
  <2>1. advised' \in [CPU -> AdvicePids \cup {-1}]  BY <1>1, Zenon DEF Snapshot
  <2>2. spc' \in [CPU -> SchedPc]                   BY <1>1, SMTT(30) DEF Snapshot
  <2>3. idx' \in [CPU -> Slots] /\ found' \in [CPU -> {0, 1}]
    BY <1>1 DEF Snapshot
  <2>4. UNCHANGED <<table, cpus, thread, ticks, llm>>  BY <1>1, Zenon DEF Snapshot
  <2> QED BY <2>1, <2>2, <2>3, <2>4, Zenon
<1>2. CASE AdviseHit(c)   BY <1>2, SMTT(30) DEF AdviseHit, Choose, Acquire
<1>3. CASE AdviseMiss(c)
  <2>1. idx' \in [CPU -> Slots]    BY <1>3 DEF AdviseMiss
  <2>2. spc' \in [CPU -> SchedPc]  BY <1>3, Zenon DEF AdviseMiss
  <2> QED BY <1>3, <2>1, <2>2, SMTT(30) DEF AdviseMiss, Locked
<1>4. CASE Honor(c)       BY <1>4, Zenon DEF Honor
<1>5. CASE AdvisedBack(c) BY <1>5, SMTT(30) DEF AdvisedBack, Release
<1>6. CASE PickHit(c)     BY <1>6, SMTT(30) DEF PickHit, Choose, Acquire
<1>7. CASE PickMiss(c)
  <2>1. idx' \in [CPU -> Slots]    BY <1>7, SMTT(30) DEF PickMiss, NextSlot
  <2>2. spc' \in [CPU -> SchedPc]  BY <1>7, Zenon DEF PickMiss, NextSlot
  <2> QED BY <1>7, <2>1, <2>2, Zenon DEF PickMiss, Locked
<1>8. CASE PickedBack(c)
  <2>1. idx' \in [CPU -> Slots]    BY <1>8 DEF PickedBack, NextSlot
  <2>2. spc' \in [CPU -> SchedPc]  BY <1>8, Zenon DEF PickedBack, NextSlot
  <2>3. plock' \in [Slots -> CPU \cup {NoCpu}]          BY <1>8, Zenon DEF PickedBack, Release
  <2>4. cproc' \in [CPU -> Slots \cup {NoProc}]  BY <1>8, Zenon DEF PickedBack
  <2>5. found' \in [CPU -> {0, 1}]               BY <1>8, SMTT(30) DEF PickedBack
  <2> QED BY <1>8, <2>1, <2>2, <2>3, <2>4, <2>5, Zenon DEF PickedBack
<1>9. CASE Wfi(c)         BY <1>9, SMTT(30) DEF Wfi
<1> QED BY <1>1, <1>2, <1>3, <1>4, <1>5, <1>6, <1>7, <1>8, <1>9, Zenon DEF SchedulerStep

\* The steps of the kernel threads keep the types.
LEMMA TypeThread ==
  ASSUME TypeOK, NEW c \in CPU, ThreadStep(c)
  PROVE  TypeOK'
<1> USE CpuAssumption, NumAssumption
    DEF TypeOK, Slots, NoProc, ProcState, ThreadPc, Saved, Swtching,
        table, cpus, thread, loop, llm, Goto
<1>1. CASE Resume(c)       BY <1>1, Zenon DEF Resume, Release
<1>2. CASE Clockintr(c)
  <2>1. ticks' \in 0 .. TickMod - 1    BY <1>2, SMTT(30) DEF Clockintr
  <2>2. tpc' \in [Slots -> ThreadPc]   BY <1>2, Zenon DEF Clockintr
  <2> QED BY <1>2, <2>1, <2>2, Zenon DEF Clockintr
<1>3. CASE Yield(c)        BY <1>3, Zenon DEF Yield, Acquire
<1>4. CASE Sleep(c)        BY <1>4, Zenon DEF Sleep, Acquire
<1>5. CASE Exit(c)         BY <1>5, Zenon DEF Exit, Acquire
<1>6. CASE Sched(c)        BY <1>6, Zenon DEF Sched
<1>7. CASE ForkFail(c)
  <2>1. tpc' \in [Slots -> ThreadPc]   BY <1>7, Zenon DEF ForkFail
  <2>2. state' \in [Slots -> ProcState]  BY <1>7, Zenon DEF ForkFail
  <2>3. pid' \in [Slots -> 0 .. MaxPid]
    <3>1. pid' = [pid EXCEPT ![np[me(c)]] = 0]  BY <1>7, Zenon DEF ForkFail
    <3>2. 0 \in 0 .. MaxPid /\ pid \in [Slots -> 0 .. MaxPid]  OBVIOUS
    <3> HIDE DEF TypeOK, Slots
    <3> QED BY <3>1, <3>2, ExceptType, Zenon
  <2> QED BY <1>7, <2>1, <2>2, <2>3, Zenon DEF ForkFail, Release
<1>8. CASE ForkCopied(c)   BY <1>8, Zenon DEF ForkCopied, Release
<1>9. CASE ForkRunnable(c) BY <1>9, Zenon DEF ForkRunnable, Locked
<1>10. ASSUME NEW q \in Slots, Wakeup(c, q) PROVE TypeOK'
  BY <1>10, Zenon DEF Wakeup, Locked
<1>11. ASSUME NEW q \in Slots, Allocproc(c, q) PROVE TypeOK'
  <2>1. tpc' \in [Slots -> ThreadPc]   BY <1>11, Zenon DEF Allocproc
  <2>2. state' \in [Slots -> ProcState]  BY <1>11, Zenon DEF Allocproc
  <2>3. pid' \in [Slots -> 0 .. MaxPid] /\ nextpid' \in 2 .. MaxPid + 1
    BY <1>11, SMTT(30) DEF Allocproc
  <2>4. plock' \in [Slots -> CPU \cup {NoCpu}]  BY <1>11, Zenon DEF Allocproc, Acquire
  <2>5. np' \in [Slots -> Slots \cup {NoProc}]  BY <1>11, Zenon DEF Allocproc
  <2> QED BY <1>11, <2>1, <2>2, <2>3, <2>4, <2>5, Zenon DEF Allocproc
<1>12. ASSUME NEW q \in Slots, Reap(c, q) PROVE TypeOK'
  BY <1>12, SMTT(30) DEF Reap, Locked
<1>13. ASSUME NEW a \in AdvicePids, SetLlmAdvice(c, a) PROVE TypeOK'
  BY <1>13, Zenon DEF SetLlmAdvice
<1> QED BY Zenon, <1>1, <1>2, <1>3, <1>4, <1>5, <1>6, <1>7, <1>8, <1>9, <1>10, <1>11,
           <1>12, <1>13 DEF ThreadStep

\* Every variable keeps its type, for any number of CPUs and slots.
THEOREM TypeCorrect == Spec => []TypeOK
<1>1. TypeOK /\ [Next]_vars => TypeOK'
  <2>1. TypeOK /\ UNCHANGED vars => TypeOK'
    BY Zenon DEF TypeOK, vars, table, cpus, thread, loop, llm
  <2> QED BY <2>1, TypeScheduler, TypeThread, Zenon DEF Next
<1> QED BY <1>1, TypeInit, PTL DEF Spec

---------------------------------------------------------------------------
(* The hand-over of p->lock, and that the steps of scheduler() keep it.      *)

\* The state p->state has while the thread of p is in sched() or behind it.
StateAt(pc) ==
  CASE pc \in {"yielding", "yielded"} -> "RUNNABLE"
    [] pc \in {"sleeping", "slept"}   -> "SLEEPING"
    [] pc \in {"exiting", "dead"}     -> "ZOMBIE"

\* CPU c is on its way to p: p->lock is taken and p is not yet resumed.
Loading(c, p) ==
  /\ spc[c] = "honor" \/ on[c] = p
  /\ tpc[p] \in Saved /\ state[p] = "RUNNING" /\ plock[p] = c

Executing(c, p) ==
  /\ on[c] = p
  /\ tpc[p] \in {"run", "preempt", "fork"} /\ state[p] = "RUNNING" /\ plock[p] = NoCpu

\* The thread of p is in sched(): p->lock is taken, p->state is no longer RUNNING.
Leaving(c, p) ==
  /\ on[c] = p
  /\ tpc[p] \in Swtching /\ state[p] = StateAt(tpc[p]) /\ plock[p] = c

\* CPU c is back in scheduler(), which has still to release p->lock.
Left(c, p) ==
  /\ on[c] = NoProc /\ spc[c] \in {"advised", "picked"}
  /\ tpc[p] \in {"yielded", "slept", "dead"} /\ state[p] = StateAt(tpc[p])
  /\ plock[p] = c

CpuOk(c) ==
  /\ on[c] # NoProc => on[c] = cproc[c]
  /\ cproc[c] = NoProc <=> spc[c] \in {"loop", "advise", "rr", "wfi"}
  /\ spc[c] = "honor" => on[c] = NoProc
  /\ cproc[c] # NoProc =>
       /\ idx[c] = cproc[c]
       /\ \/ Loading(c, cproc[c]) \/ Executing(c, cproc[c])
          \/ Leaving(c, cproc[c]) \/ Left(c, cproc[c])

CpuInv == \A c \in CPU : CpuOk(c)

OwnerInv ==
  \A c, d \in CPU : cproc[c] = cproc[d] /\ cproc[c] # NoProc => c = d

\* A process that no CPU has as c->proc.
OffCpuInv ==
  \A p \in Slots :
    (\A c \in CPU : cproc[c] # p) =>
      /\ state[p] # "RUNNING"
      /\ state[p] = "RUNNABLE" => tpc[p] \in Saved
      /\ state[p] = "SLEEPING" => tpc[p] = "slept"

\* Who may hold p->lock between two steps: the CPU that runs p or switches to or
\* from it, or the CPU that is creating p.
HolderInv ==
  \A p \in Slots, c \in CPU :
    plock[p] = c =>
      \/ cproc[c] = p
      \/ on[c] # NoProc /\ tpc[on[c]] = "fork" /\ np[on[c]] = p

ForkInv ==
  /\ \A p \in Slots :
       /\ np[p] # NoProc =>
            /\ state[np[p]] = "USED" /\ tpc[np[p]] = "forkret"
            /\ state[p] \in {"RUNNING", "RUNNABLE"}
       /\ tpc[p] = "fork" => np[p] # NoProc
  /\ \A p, q \in Slots : np[p] = np[q] /\ np[p] # NoProc => p = q
  /\ \A c \in CPU :
       on[c] # NoProc /\ tpc[on[c]] = "fork" => plock[np[on[c]]] = c

---------------------------------------------------------------------------
(* The hand-over of p->lock.                                                *)

\* The part of TypeOK that the inductive step needs, free of arithmetic.
Shape ==
  /\ state \in [Slots -> ProcState] /\ plock \in [Slots -> CPU \cup {NoCpu}]
  /\ cproc \in [CPU -> Slots \cup {NoProc}] /\ on \in [CPU -> Slots \cup {NoProc}]
  /\ tpc \in [Slots -> ThreadPc] /\ np \in [Slots -> Slots \cup {NoProc}]
  /\ spc \in [CPU -> SchedPc] /\ idx \in [CPU -> Slots]

HandOver == CpuInv /\ OwnerInv /\ OffCpuInv /\ HolderInv /\ ForkInv

\* Consequences of the assumptions on the constants.
LEMMA ShapeFacts ==
  /\ TypeOK => Shape
  /\ NoProc \notin Slots /\ NoCpu \notin CPU
  /\ initproc \in Slots
<1>1. TypeOK => Shape  BY Zenon DEF TypeOK, Shape
<1>2. NoProc \notin Slots /\ initproc \in Slots
  BY NumAssumption DEF NoProc, Slots, initproc
<1> QED BY <1>1, <1>2, CpuAssumption, Zenon

\* A step that leaves CPU d and its process alone.
Apart(d) ==
  /\ cproc'[d] = cproc[d] /\ on'[d] = on[d] /\ spc'[d] = spc[d] /\ idx'[d] = idx[d]
  /\ cproc[d] # NoProc =>
       /\ state'[cproc[d]] = state[cproc[d]] /\ plock'[cproc[d]] = plock[cproc[d]]
       /\ tpc'[cproc[d]] = tpc[cproc[d]]

\* A CPU is not disturbed by changes to slots it has nothing to do with.
LEMMA ApartOk ==
  ASSUME NEW d, CpuOk(d), Apart(d)
  PROVE  CpuOk(d)'
BY Zenon DEF CpuOk, Apart, Loading, Executing, Leaving, Left

\* A step of CPU c need only be looked at on c itself.
LEMMA CpuFrame ==
  ASSUME CpuInv, NEW c \in CPU, CpuOk(c)', \A d \in CPU \ {c} : Apart(d)
  PROVE  CpuInv'
BY ApartOk, Zenon DEF CpuInv

\* The variables HandOver is about.
core == <<state, plock, cproc, on, tpc, np, spc, idx>>

\* Steps that leave locks, states and positions alone keep HandOver.
LEMMA SameHandOver == HandOver /\ UNCHANGED core => HandOver'
<1> SUFFICES ASSUME HandOver, UNCHANGED core PROVE HandOver'  BY Zenon
<1> USE SMTT(30) DEF core
<1>1. CpuInv'
  BY DEF HandOver, CpuInv, CpuOk, Loading, Executing, Leaving, Left
<1>2. OwnerInv'   BY Zenon DEF HandOver, OwnerInv
<1>3. OffCpuInv'  BY Zenon DEF HandOver, OffCpuInv
<1>4. HolderInv'  BY Zenon DEF HandOver, HolderInv
<1>5. ForkInv'    BY Zenon DEF HandOver, ForkInv
<1> QED BY <1>1, <1>2, <1>3, <1>4, <1>5, Zenon DEF HandOver

\* After userinit() every CPU is in its scheduler and init has a saved context.
LEMMA InitHandOver == Init => HandOver
<1> SUFFICES ASSUME Init PROVE HandOver  BY Zenon
<1> USE ShapeFacts, TypeInit, SMTT(30) DEF Init, Shape
<1>1. CpuInv    BY Zenon DEF CpuInv, CpuOk
<1>2. OwnerInv  BY Zenon DEF OwnerInv
<1>3. OffCpuInv BY Zenon DEF OffCpuInv, Saved
<1>4. HolderInv BY Zenon DEF HolderInv
<1>5. ForkInv   BY Zenon DEF ForkInv
<1> QED BY <1>1, <1>2, <1>3, <1>4, <1>5, Zenon DEF HandOver

\* Steps of the scheduler loop that look at a slot and leave it alone.
LEMMA ScanHandOver ==
  ASSUME Shape, HandOver, NEW c \in CPU,
         Snapshot(c) \/ AdviseMiss(c) \/ PickMiss(c) \/ Wfi(c)
  PROVE  HandOver'
<1> USE ShapeFacts, SMTT(30) DEF Shape, table, cpus, thread, InScheduler, Locked
<1>1. /\ UNCHANGED <<state, plock, cproc, on, tpc, np>>
      /\ on[c] = NoProc /\ spc[c] \in {"loop", "advise", "rr", "wfi"}
      /\ spc'[c] \in {"loop", "advise", "rr", "wfi"}
      /\ \A d \in CPU \ {c} : spc'[d] = spc[d] /\ idx'[d] = idx[d]
  BY Zenon DEF Snapshot, AdviseMiss, PickMiss, Wfi, NextSlot
<1>2. CpuInv'
  <2>1. CpuOk(c)'                     BY <1>1, Zenon DEF HandOver, CpuInv, CpuOk
  <2>2. \A d \in CPU \ {c} : Apart(d)  BY <1>1, Zenon DEF Apart
  <2> QED BY <2>1, <2>2, CpuFrame, Zenon DEF HandOver
<1>3. OwnerInv'   BY <1>1, Zenon DEF HandOver, OwnerInv
<1>4. OffCpuInv'  BY <1>1, Zenon DEF HandOver, OffCpuInv
<1>5. HolderInv'  BY <1>1 DEF HandOver, HolderInv
<1>6. ForkInv'    BY <1>1 DEF HandOver, ForkInv
<1> QED BY <1>2, <1>3, <1>4, <1>5, <1>6, Zenon DEF HandOver

\* acquire(&p->lock), RUNNABLE to RUNNING, c->proc = p, and (round-robin) swtch().
LEMMA HitHandOver ==
  ASSUME Shape, HandOver, NEW c \in CPU, AdviseHit(c) \/ PickHit(c)
  PROVE  HandOver'
<1> DEFINE p == idx[c]
<1> USE ShapeFacts, SMTT(30) DEF Shape
<1>1. /\ p \in Slots /\ state[p] = "RUNNABLE" /\ plock[p] = NoCpu
      /\ on[c] = NoProc /\ spc[c] \in {"advise", "rr"}
      /\ state' = [state EXCEPT ![p] = "RUNNING"]
      /\ plock' = [plock EXCEPT ![p] = c]
      /\ cproc' = [cproc EXCEPT ![c] = p]
      /\ UNCHANGED <<tpc, np, idx>>
      /\ \/ on' = on /\ spc' = [spc EXCEPT ![c] = "honor"]
         \/ on' = [on EXCEPT ![c] = p] /\ spc' = [spc EXCEPT ![c] = "picked"]
  BY Zenon DEF AdviseHit, PickHit, Choose, Acquire, InScheduler, thread
<1>2. cproc[c] = NoProc  BY <1>1, Zenon DEF HandOver, CpuInv, CpuOk
<1>3. \A d \in CPU : cproc[d] # p
  BY <1>1 DEF HandOver, CpuInv, CpuOk, Loading, Executing, Leaving, Left
<1>4. tpc[p] \in Saved  BY <1>1, <1>3, Zenon DEF HandOver, OffCpuInv
<1> HIDE DEF p
<1>5. CpuInv'
  <2>1. CpuOk(c)'  BY <1>1, <1>4, Zenon DEF CpuOk, Loading, p
  <2>2. \A d \in CPU \ {c} : Apart(d)  BY <1>1, <1>3, Zenon DEF Apart
  <2> QED BY <2>1, <2>2, CpuFrame, Zenon DEF HandOver
<1>6. OwnerInv'   BY <1>1, <1>3, Zenon DEF HandOver, OwnerInv
<1>7. OffCpuInv'  BY <1>1, <1>2 DEF HandOver, OffCpuInv
<1>8. HolderInv'  BY <1>1, <1>2 DEF HandOver, HolderInv
<1>9. ForkInv'
  <2>1. \A q \in Slots : np[q] # p  BY <1>1 DEF HandOver, ForkInv
  <2> QED BY <1>1, <1>4, <2>1 DEF HandOver, ForkInv, Saved
<1> QED BY <1>5, <1>6, <1>7, <1>8, <1>9, Zenon DEF HandOver

\* Advice marked as used, then swtch().
LEMMA HonorHandOver ==
  ASSUME Shape, HandOver, NEW c \in CPU, Honor(c)
  PROVE  HandOver'
<1> USE ShapeFacts, SMTT(30) DEF Shape, Honor, table, thread, InScheduler
<1>1. cproc[c] = idx[c] /\ Loading(c, idx[c])
  BY DEF HandOver, CpuInv, CpuOk, Loading, Executing, Leaving, Left
<1>2. CpuInv'
  <2>1. CpuOk(c)'                     BY <1>1, Zenon DEF CpuOk, Loading
  <2>2. \A d \in CPU \ {c} : Apart(d)  BY Zenon DEF Apart
  <2> QED BY <2>1, <2>2, CpuFrame, Zenon DEF HandOver
<1>3. OwnerInv' /\ OffCpuInv'  BY Zenon DEF HandOver, OwnerInv, OffCpuInv
<1>4. HolderInv' /\ ForkInv'
  BY <1>1 DEF HandOver, HolderInv, ForkInv, Loading, Saved
<1> QED BY <1>2, <1>3, <1>4, Zenon DEF HandOver

\* c->proc = 0 and release(&p->lock) behind the swtch().
LEMMA BackHandOver ==
  ASSUME Shape, HandOver, NEW c \in CPU, AdvisedBack(c) \/ PickedBack(c)
  PROVE  HandOver'
<1> DEFINE p == idx[c]
<1> USE ShapeFacts, SMTT(30) DEF Shape
<1>1. /\ p \in Slots /\ on[c] = NoProc /\ spc[c] \in {"advised", "picked"}
      /\ cproc' = [cproc EXCEPT ![c] = NoProc]
      /\ plock' = [plock EXCEPT ![p] = NoCpu]
      /\ UNCHANGED <<state, on, tpc, np>>
      /\ spc'[c] \in {"loop", "rr"}
      /\ \A d \in CPU \ {c} : spc'[d] = spc[d] /\ idx'[d] = idx[d]
  BY Zenon DEF AdvisedBack, PickedBack, Release, NextSlot, InScheduler, thread
<1>2. cproc[c] = p /\ Left(c, p)
  BY <1>1, Zenon DEF HandOver, CpuInv, CpuOk, Loading, Executing, Leaving
<1>3. \A d \in CPU \ {c} : cproc[d] # p  BY <1>1, <1>2, Zenon DEF HandOver, OwnerInv
<1> HIDE DEF p
<1>4. CpuInv'
  <2>1. CpuOk(c)'                     BY <1>1, Zenon DEF CpuOk
  <2>2. \A d \in CPU \ {c} : Apart(d)  BY <1>1, <1>3, Zenon DEF Apart
  <2> QED BY <2>1, <2>2, CpuFrame, Zenon DEF HandOver
<1>5. OwnerInv'   BY <1>1, Zenon DEF HandOver, OwnerInv
<1>6. OffCpuInv'  BY <1>1, <1>2, <1>3, Zenon DEF HandOver, OffCpuInv, Left, StateAt, Saved
<1>7. HolderInv'  BY <1>1, <1>2 DEF HandOver, HolderInv
<1>8. ForkInv'    BY <1>1, <1>2 DEF HandOver, ForkInv, Left, StateAt, CpuInv, CpuOk
<1> QED BY <1>4, <1>5, <1>6, <1>7, <1>8, Zenon DEF HandOver

---------------------------------------------------------------------------
(* The steps of the processes' kernel threads, and what follows.            *)

\* A CPU that stays with its process is still in order.
LEMMA StillExecuting ==
  ASSUME NEW c, CpuOk(c), UNCHANGED <<cproc, on, spc, idx>>, Executing(c, cproc[c])'
  PROVE  CpuOk(c)'
BY Zenon DEF CpuOk

\* The rest of kfork(): give the slot up, release it, or make it RUNNABLE.
LEMMA ForkHandOver ==
  ASSUME Shape, HandOver, NEW c \in CPU, ForkFail(c) \/ ForkCopied(c) \/ ForkRunnable(c)
  PROVE  HandOver'
<1> DEFINE p == cproc[c]
           q == np[p]
<1> USE ShapeFacts, SMTT(30) DEF Shape
<1>1. /\ p \in Slots /\ on[c] = p /\ Executing(c, p) /\ q \in Slots
      /\ state[q] = "USED" /\ tpc[q] = "forkret"
      /\ UNCHANGED <<cproc, on, spc, idx>>
  <2>1. on[c] # NoProc /\ tpc[p] \in {"run", "fork"}
    BY Zenon DEF ForkFail, ForkCopied, ForkRunnable, At, me
  <2>2. p \in Slots /\ on[c] = p /\ Executing(c, p)
    BY <2>1, Zenon DEF HandOver, CpuInv, CpuOk, Loading, Leaving, Left, Saved, Swtching
  <2>3. q # NoProc
    BY <2>2, Zenon DEF ForkFail, ForkCopied, ForkRunnable, At, me, HandOver, ForkInv
  <2>4. q \in Slots /\ state[q] = "USED" /\ tpc[q] = "forkret"
    BY <2>2, <2>3 DEF HandOver, ForkInv
  <2>5. UNCHANGED <<cproc, on, spc, idx>>
    BY Zenon DEF ForkFail, ForkCopied, ForkRunnable, cpus, loop
  <2> QED BY <2>2, <2>4, <2>5, Zenon
<1>2. \/ /\ state' = [state EXCEPT ![q] = "UNUSED"]
         /\ plock' = [plock EXCEPT ![q] = NoCpu] /\ np' = [np EXCEPT ![p] = NoProc]
         /\ tpc' = [tpc EXCEPT ![q] = "none", ![p] = "run"]
      \/ /\ UNCHANGED <<state, np>> /\ tpc[p] = "fork"
         /\ plock' = [plock EXCEPT ![q] = NoCpu] /\ tpc' = [tpc EXCEPT ![p] = "run"]
      \/ /\ UNCHANGED <<plock, tpc>> /\ tpc[p] = "run" /\ plock[q] = NoCpu
         /\ state' = [state EXCEPT ![q] = "RUNNABLE"] /\ np' = [np EXCEPT ![p] = NoProc]
  BY Zenon DEF ForkFail, ForkCopied, ForkRunnable, At, me, Release, Locked, Goto
<1>3. \A d \in CPU \ {c} : cproc[d] # p /\ on[d] # p
  BY <1>1 DEF HandOver, OwnerInv, CpuInv, CpuOk
<1>4. \A d \in CPU : cproc[d] # q /\ on[d] # q
  BY <1>1 DEF HandOver, CpuInv, CpuOk, Loading, Executing, Leaving, Left, StateAt, Swtching
<1>5. /\ \A r \in Slots : np[r] # p /\ (np[r] = q => r = p)
      /\ np[q] = NoProc /\ p # q
  BY <1>1 DEF HandOver, ForkInv, Executing
<1> HIDE DEF p, q
<1>6. CpuInv'
  <2>1. /\ state'[p] = state[p] /\ plock'[p] = plock[p]
        /\ tpc'[p] \in {"run", "preempt", "fork"}
    BY <1>1, <1>2, <1>5
  <2>2. CpuOk(c)'
    <3>1. CpuOk(c)               BY Zenon DEF HandOver, CpuInv
    <3>2. Executing(c, cproc[c])'  BY <1>1, <2>1, Zenon DEF Executing, p
    <3> QED BY <1>1, <3>1, <3>2, StillExecuting, Zenon
  <2>3. \A r \in Slots \ {p, q} :
          state'[r] = state[r] /\ plock'[r] = plock[r] /\ tpc'[r] = tpc[r]
    BY <1>1, <1>2, Zenon
  <2>4. \A d \in CPU \ {c} : cproc[d] # NoProc => cproc[d] \in Slots \ {p, q}
    BY <1>3, <1>4, Zenon
  <2>5. \A d \in CPU \ {c} : Apart(d)  BY <1>1, <2>3, <2>4, Zenon DEF Apart
  <2> QED BY <2>2, <2>5, CpuFrame, Zenon DEF HandOver
<1>7. OwnerInv'   BY <1>1, Zenon DEF HandOver, OwnerInv
<1>8. OffCpuInv'  BY <1>1, <1>2, <1>4, <1>5 DEF HandOver, OffCpuInv, Saved, p
<1>9. HolderInv'
  BY <1>1, <1>2, <1>3, <1>4, <1>5 DEF HandOver, HolderInv, p, q
<1>10. ForkInv'
  <2>1. np[p] = q  BY Zenon DEF q
  <2> QED BY <1>1, <1>2, <1>3, <1>4, <1>5, <2>1 DEF HandOver, ForkInv, Executing
<1> QED BY <1>6, <1>7, <1>8, <1>9, <1>10, Zenon DEF HandOver

\* Behind the swtch() to a process: release(&p->lock).
LEMMA ResumeHandOver ==
  ASSUME Shape, HandOver, NEW c \in CPU, Resume(c)
  PROVE  HandOver'
<1> DEFINE p == cproc[c]
<1> USE ShapeFacts, SMTT(30) DEF Shape
<1>1. /\ p \in Slots /\ on[c] = p /\ Loading(c, p)
      /\ plock' = [plock EXCEPT ![p] = NoCpu]
      /\ tpc' = [tpc EXCEPT ![p] = "run"]
      /\ UNCHANGED <<state, np, cproc, on, spc, idx>>
  <2>1. p \in Slots /\ on[c] = p /\ Loading(c, p)
    BY Zenon DEF Resume, me, HandOver, CpuInv, CpuOk, Executing, Leaving, Left, Swtching, Saved
  <2> QED BY <2>1, Zenon DEF Resume, Release, Goto, me, cpus, loop
<1>2. \A d \in CPU \ {c} : cproc[d] # p  BY <1>1, Zenon DEF HandOver, OwnerInv
<1> HIDE DEF p
<1>3. CpuInv'
  <2>1. CpuOk(c)'  BY <1>1, Zenon DEF HandOver, CpuInv, CpuOk, Loading, Executing, p
  <2>2. \A d \in CPU \ {c} : Apart(d)  BY <1>1, <1>2, Zenon DEF Apart
  <2> QED BY <2>1, <2>2, CpuFrame, Zenon DEF HandOver
<1>4. OwnerInv'   BY <1>1, Zenon DEF HandOver, OwnerInv
<1>5. OffCpuInv'  BY <1>1, Zenon DEF HandOver, OffCpuInv, p
<1>6. HolderInv'
  <2>1. tpc[p] # "fork" /\ \A d \in CPU \ {c} : on[d] # p
    BY <1>1, <1>2 DEF HandOver, CpuInv, CpuOk, Loading, Saved
  <2> QED BY <1>1, <2>1 DEF HandOver, HolderInv, p
<1>7. ForkInv'
  <2>1. \A q \in Slots : np[q] # p  BY <1>1 DEF HandOver, ForkInv, Loading
  <2> QED BY <1>1, <2>1 DEF HandOver, ForkInv
<1> QED BY <1>3, <1>4, <1>5, <1>6, <1>7, Zenon DEF HandOver

\* Timer interrupt: at most the thread of p moves on to yield().
LEMMA ClockHandOver ==
  ASSUME Shape, HandOver, NEW c \in CPU, Clockintr(c)
  PROVE  HandOver'
<1> DEFINE p == cproc[c]
<1> USE ShapeFacts, SMTT(30) DEF Shape
<1>1. UNCHANGED <<state, plock, np, cproc, on, spc, idx>>
  BY Zenon DEF Clockintr, table, cpus, loop
<1>2. CASE tpc' = tpc
  BY <1>1, <1>2, SameHandOver, Zenon DEF core
<1>3. CASE tpc' # tpc
  <2>1. /\ p \in Slots /\ on[c] = p /\ Executing(c, p) /\ tpc[p] = "run"
        /\ tpc' = [tpc EXCEPT ![p] = "preempt"]
    BY <1>3, Zenon DEF Clockintr, Interruptible, InScheduler, At, Goto, me, HandOver, CpuInv, CpuOk,
                Loading, Leaving, Left, Saved, Swtching
  <2>2. \A d \in CPU \ {c} : cproc[d] # p  BY <2>1, Zenon DEF HandOver, OwnerInv
  <2> HIDE DEF p
  <2>3. CpuInv'
    <3>1. CpuOk(c)'  BY <1>1, <2>1, Zenon DEF HandOver, CpuInv, CpuOk, Executing, p
    <3>2. \A d \in CPU \ {c} : Apart(d)  BY <1>1, <2>1, <2>2, Zenon DEF Apart
    <3> QED BY <3>1, <3>2, CpuFrame, Zenon DEF HandOver
  <2>4. OwnerInv'   BY <1>1, Zenon DEF HandOver, OwnerInv
  <2>5. OffCpuInv'  BY <1>1, <2>1, Zenon DEF HandOver, OffCpuInv, p
  <2>6. HolderInv'  BY <1>1, <2>1, <2>2 DEF HandOver, HolderInv, CpuInv, CpuOk
  <2>7. ForkInv'
    <3>1. \A q \in Slots : np[q] # p  BY <2>1 DEF HandOver, ForkInv, Executing
    <3> QED BY <1>1, <2>1, <3>1 DEF HandOver, ForkInv
  <2> QED BY <2>3, <2>4, <2>5, <2>6, <2>7, Zenon DEF HandOver
<1> QED BY <1>2, <1>3, Zenon

\* acquire(&p->lock) and a new p->state, on the way into sched(); the thread has no
\* child under construction unless it yields.
LEMMA LeaveHandOver ==
  ASSUME Shape, HandOver, NEW c \in CPU, Yield(c) \/ Sleep(c) \/ Exit(c)
  PROVE  HandOver'
<1> DEFINE p == cproc[c]
<1> USE ShapeFacts, SMTT(30) DEF Shape
<1>1. PICK pc \in Swtching :
      /\ p \in Slots /\ on[c] = p /\ Executing(c, p) /\ tpc[p] # "fork"
      /\ pc = "yielding" \/ np[p] = NoProc
      /\ plock' = [plock EXCEPT ![p] = c]
      /\ state' = [state EXCEPT ![p] = StateAt(pc)]
      /\ tpc' = [tpc EXCEPT ![p] = pc]
      /\ UNCHANGED <<np, cproc, on, spc, idx>>
  <2>1. on[c] # NoProc /\ tpc[p] \in {"run", "preempt"}
    BY Zenon DEF Yield, Sleep, Exit, InSyscall, At, me
  <2>2. p \in Slots /\ on[c] = p /\ Executing(c, p)
    BY <2>1, Zenon DEF HandOver, CpuInv, CpuOk, Loading, Leaving, Left, Saved, Swtching
  <2>3. CASE Yield(c)
    BY <2>1, <2>2, <2>3, Zenon DEF Yield, Acquire, Goto, me, cpus, loop, StateAt, Swtching
  <2>4. CASE Sleep(c)
    BY <2>1, <2>2, <2>4, Zenon DEF Sleep, InSyscall, Acquire, Goto, me, cpus, loop, StateAt, Swtching
  <2>5. CASE Exit(c)
    BY <2>1, <2>2, <2>5, Zenon DEF Exit, InSyscall, Acquire, Goto, me, cpus, loop, StateAt, Swtching
  <2> QED BY <2>3, <2>4, <2>5, Zenon
<1>2. \A d \in CPU \ {c} : cproc[d] # p /\ on[d] # p
  BY <1>1 DEF HandOver, OwnerInv, CpuInv, CpuOk
<1>3. \A q \in Slots : np[q] # p  BY <1>1 DEF HandOver, ForkInv, Executing
<1> HIDE DEF p
<1>4. CpuInv'
  <2>1. CpuOk(c)'  BY <1>1, Zenon DEF HandOver, CpuInv, CpuOk, Leaving, p
  <2>2. \A d \in CPU \ {c} : Apart(d)  BY <1>1, <1>2, Zenon DEF Apart
  <2> QED BY <2>1, <2>2, CpuFrame, Zenon DEF HandOver
<1>5. OwnerInv'   BY <1>1, Zenon DEF HandOver, OwnerInv
<1>6. OffCpuInv'  BY <1>1, Zenon DEF HandOver, OffCpuInv, p
<1>7. HolderInv'  BY <1>1, <1>2 DEF HandOver, HolderInv, p
<1>8. ForkInv'
  BY <1>1, <1>2, <1>3 DEF HandOver, ForkInv, StateAt, Swtching
<1> QED BY <1>4, <1>5, <1>6, <1>7, <1>8, Zenon DEF HandOver

\* swtch() to the scheduler, p->lock held.
LEMMA SchedHandOver ==
  ASSUME Shape, HandOver, NEW c \in CPU, Sched(c)
  PROVE  HandOver'
<1> DEFINE p == cproc[c]
<1> USE ShapeFacts, SMTT(30) DEF Shape
<1>1. PICK pc \in {"yielded", "slept", "dead"} :
      /\ p \in Slots /\ on[c] = p /\ Leaving(c, p)
      /\ StateAt(pc) = StateAt(tpc[p])
      /\ tpc' = [tpc EXCEPT ![p] = pc]
      /\ on' = [on EXCEPT ![c] = NoProc]
      /\ UNCHANGED <<state, plock, np, cproc, spc, idx>>
  <2>1. p \in Slots /\ on[c] = p /\ Leaving(c, p)
    BY Zenon DEF Sched, me, HandOver, CpuInv, CpuOk, Loading, Executing, Left, Saved, Swtching
  <2>2. CASE tpc[p] = "yielding"
    BY <2>1, <2>2, Zenon DEF Sched, Goto, me, StateAt, table, loop
  <2>3. CASE tpc[p] = "sleeping"
    BY <2>1, <2>3, Zenon DEF Sched, Goto, me, StateAt, table, loop
  <2>4. CASE tpc[p] = "exiting"
    BY <2>1, <2>4, Zenon DEF Sched, Goto, me, StateAt, table, loop
  <2> QED BY <2>1, <2>2, <2>3, <2>4, Zenon DEF Leaving, Swtching
<1>2. \A d \in CPU \ {c} : cproc[d] # p /\ on[d] # p
  BY <1>1 DEF HandOver, OwnerInv, CpuInv, CpuOk
<1>3. \A q \in Slots : np[q] # p
  BY <1>1 DEF HandOver, ForkInv, Leaving, StateAt, Swtching
<1> HIDE DEF p
<1>4. spc[c] \in {"advised", "picked"}
  BY <1>1, Zenon DEF HandOver, CpuInv, CpuOk, SchedPc, p
<1>5. CpuInv'
  <2>1. CpuOk(c)'  BY <1>1, <1>4, Zenon DEF HandOver, CpuInv, CpuOk, Leaving, Left, p
  <2>2. \A d \in CPU \ {c} : Apart(d)  BY <1>1, <1>2, Zenon DEF Apart
  <2> QED BY <2>1, <2>2, CpuFrame, Zenon DEF HandOver
<1>6. OwnerInv'   BY <1>1, Zenon DEF HandOver, OwnerInv
<1>7. OffCpuInv'  BY <1>1, Zenon DEF HandOver, OffCpuInv, p
<1>8. HolderInv'  BY <1>1, <1>2 DEF HandOver, HolderInv, p, Leaving, Swtching
<1>9. ForkInv'    BY <1>1, <1>2, <1>3 DEF HandOver, ForkInv
<1> QED BY <1>5, <1>6, <1>7, <1>8, <1>9, Zenon DEF HandOver

\* SLEEPING to RUNNABLE, and ZOMBIE to UNUSED: q is on no CPU, since its lock is free.
LEMMA OtherHandOver ==
  ASSUME Shape, HandOver, NEW c \in CPU, NEW q \in Slots, Wakeup(c, q) \/ Reap(c, q)
  PROVE  HandOver'
<1> USE ShapeFacts, SMTT(30) DEF Shape
<1>1. /\ plock[q] = NoCpu /\ state[q] \in {"SLEEPING", "ZOMBIE"}
      /\ UNCHANGED <<plock, np, cproc, on, spc, idx>>
      /\ \/ state' = [state EXCEPT ![q] = "RUNNABLE"] /\ tpc' = tpc
            /\ state[q] = "SLEEPING"
         \/ state' = [state EXCEPT ![q] = "UNUSED"] /\ tpc' = [tpc EXCEPT ![q] = "none"]
  BY Zenon DEF Wakeup, Reap, Locked, Goto, cpus, thread, loop
<1>2. \A d \in CPU : cproc[d] # q /\ on[d] # q
  BY <1>1 DEF HandOver, CpuInv, CpuOk, Loading, Executing, Leaving, Left
<1>3. \A p \in Slots : np[p] # q  BY <1>1 DEF HandOver, ForkInv
<1>4. np[q] = NoProc  BY <1>1, Zenon DEF HandOver, ForkInv
<1>5. CpuInv'
  <2>1. \A d \in CPU : Apart(d)  BY <1>1, <1>2, Zenon DEF Apart
  <2> QED BY <2>1, ApartOk, Zenon DEF HandOver, CpuInv
<1>6. OwnerInv'   BY <1>1, Zenon DEF HandOver, OwnerInv
<1>7. OffCpuInv'  BY <1>1, <1>2, Zenon DEF HandOver, OffCpuInv, Saved
<1>8. HolderInv'  BY <1>1, <1>2 DEF HandOver, HolderInv
<1>9. ForkInv'    BY <1>1, <1>2, <1>3, <1>4 DEF HandOver, ForkInv
<1> QED BY <1>5, <1>6, <1>7, <1>8, <1>9, Zenon DEF HandOver

\* allocproc(): an UNUSED slot becomes USED and stays locked.
LEMMA AllocHandOver ==
  ASSUME Shape, HandOver, NEW c \in CPU, NEW q \in Slots, Allocproc(c, q)
  PROVE  HandOver'
<1> DEFINE p == cproc[c]
<1> USE ShapeFacts, SMTT(30) DEF Shape
<1>1. /\ p \in Slots /\ on[c] = p /\ Executing(c, p) /\ np[p] = NoProc
      /\ plock[q] = NoCpu /\ state[q] = "UNUSED"
      /\ state' = [state EXCEPT ![q] = "USED"]
      /\ plock' = [plock EXCEPT ![q] = c]
      /\ np' = [np EXCEPT ![p] = q]
      /\ tpc' = [tpc EXCEPT ![q] = "forkret", ![p] = "fork"]
      /\ UNCHANGED <<cproc, on, spc, idx>>
  <2>1. on[c] # NoProc /\ tpc[p] = "run" /\ np[p] = NoProc
    BY Zenon DEF Allocproc, InSyscall, At, me
  <2>2. p \in Slots /\ on[c] = p /\ Executing(c, p)
    BY <2>1, Zenon DEF HandOver, CpuInv, CpuOk, Loading, Leaving, Left, Saved, Swtching
  <2> QED BY <2>1, <2>2, Zenon DEF Allocproc, Acquire, me, cpus, loop
<1>2. \A d \in CPU \ {c} : cproc[d] # p /\ on[d] # p
  BY <1>1 DEF HandOver, OwnerInv, CpuInv, CpuOk
<1>3. \A d \in CPU : cproc[d] # q /\ on[d] # q
  BY <1>1 DEF HandOver, CpuInv, CpuOk, Loading, Executing, Leaving, Left, StateAt, Swtching
<1>4. \A r \in Slots : np[r] # q /\ np[r] # p
  BY <1>1 DEF HandOver, ForkInv, Executing
<1>5. np[q] = NoProc /\ p # q  BY <1>1, Zenon DEF HandOver, ForkInv, Executing
<1> HIDE DEF p
<1>6. CpuInv'
  <2>1. CpuOk(c)'  BY <1>1, <1>5, Zenon DEF HandOver, CpuInv, CpuOk, Executing, p
  <2>2. \A d \in CPU \ {c} : Apart(d)  BY <1>1, <1>2, <1>3, Zenon DEF Apart
  <2> QED BY <2>1, <2>2, CpuFrame, Zenon DEF HandOver
<1>7. OwnerInv'   BY <1>1, Zenon DEF HandOver, OwnerInv
<1>8. OffCpuInv'  BY <1>1, <1>3, <1>5, Zenon DEF HandOver, OffCpuInv, p
<1>9. HolderInv'  BY <1>1, <1>2, <1>3, <1>5 DEF HandOver, HolderInv
<1>10. ForkInv'
  BY <1>1, <1>2, <1>3, <1>4, <1>5 DEF HandOver, ForkInv, Executing
<1> QED BY <1>6, <1>7, <1>8, <1>9, <1>10, Zenon DEF HandOver

\* Every step of a scheduler or of a kernel thread keeps HandOver.
LEMMA NextHandOver == TypeOK /\ HandOver /\ [Next]_vars => HandOver'
<1> SUFFICES ASSUME Shape, HandOver, [Next]_vars PROVE HandOver'
  BY ShapeFacts, Zenon
<1>1. CASE UNCHANGED vars
  BY <1>1, SameHandOver, Zenon DEF core, vars, table, cpus, thread, loop
<1>2. ASSUME NEW c \in CPU, SchedulerStep(c) PROVE HandOver'
  BY <1>2, ScanHandOver, HitHandOver, HonorHandOver, BackHandOver, Zenon DEF SchedulerStep
<1>3. ASSUME NEW c \in CPU, ThreadStep(c) PROVE HandOver'
  <2>1. ASSUME NEW a \in AdvicePids, SetLlmAdvice(c, a) PROVE HandOver'
    BY <2>1, SameHandOver, Zenon DEF core, SetLlmAdvice, table, cpus, thread, loop
  <2> QED BY <1>3, <2>1, ResumeHandOver, ClockHandOver, LeaveHandOver, SchedHandOver,
             OtherHandOver, AllocHandOver, ForkHandOver, Zenon DEF ThreadStep
<1> QED BY <1>1, <1>2, <1>3, Zenon DEF Next

\* HandOver holds in every reachable state.
LEMMA HandOverAlways == Spec => [](TypeOK /\ HandOver)
BY TypeCorrect, InitHandOver, NextHandOver, PTL DEF Spec

\* No panic of sched(), acquire() or release() over a process lock can fire, for any
\* number of CPUs and processes.
THEOREM LocksNeverPanic == Spec => []NoLockPanic
<1>1. TypeOK /\ HandOver => NoLockPanic
  <2> SUFFICES ASSUME Shape, HandOver, NEW c \in CPU
               PROVE  NoLockPanic!(c)
    BY ShapeFacts, Zenon DEF NoLockPanic
  <2> USE ShapeFacts, SMTT(30) DEF Shape, HandOver, At, me, InScheduler, Held
  <2>1. on[c] # NoProc /\ tpc[me(c)] \in Swtching =>
          Held(c) = {me(c)} /\ state[me(c)] # "RUNNING"
    BY DEF CpuInv, CpuOk, HolderInv, Loading, Executing, Leaving, Left, Saved, Swtching,
           StateAt
  <2>2. on[c] # NoProc /\ tpc[me(c)] \in Saved => plock[me(c)] = c
    BY DEF CpuInv, CpuOk, Loading, Executing, Leaving, Left, Saved, Swtching
  <2>3. At(c, "fork") => plock[np[me(c)]] = c
    BY DEF CpuInv, CpuOk, ForkInv
  <2>4. on[c] = NoProc /\ spc[c] \in {"advised", "picked"} => plock[idx[c]] = c
    BY DEF CpuInv, CpuOk, Loading, Executing, Leaving, Left
  <2>5. on[c] = NoProc /\ spc[c] \in {"loop", "advise", "rr", "wfi"} => Held(c) = {}
    BY DEF CpuInv, CpuOk, HolderInv
  <2>6. At(c, "run") \/ At(c, "preempt") => Held(c) = {}
    BY DEF CpuInv, CpuOk, HolderInv, Loading, Executing, Leaving, Left, Saved, Swtching
  <2> QED BY <2>1, <2>2, <2>3, <2>4, <2>5, <2>6, Zenon
<1> QED BY <1>1, HandOverAlways, PTL

\* Two CPUs never execute on the same kernel stack, and a slot is never freed or
\* reused under a CPU that still executes on its stack.
THEOREM StacksExclusive == Spec => []StackExclusive
<1>1. TypeOK /\ HandOver => StackExclusive
  BY ShapeFacts, SMTT(30) DEF StackExclusive, Shape, HandOver, CpuInv, CpuOk, OwnerInv, Loading,
     Executing, Leaving, Left, StateAt, Swtching
<1> QED BY <1>1, HandOverAlways, PTL

\* Whenever a scheduler can pick a process, the context of that process is complete.
THEOREM PicksOnlySaved == Spec => []RunnableIsSaved
<1>1. TypeOK /\ HandOver => RunnableIsSaved
  BY ShapeFacts, SMTT(30) DEF RunnableIsSaved, Shape, HandOver, CpuInv, CpuOk, OffCpuInv, Loading,
     Executing, Leaving, Left
<1> QED BY <1>1, HandOverAlways, PTL

---------------------------------------------------------------------------
(* Changes of p->state.                                                     *)

\* The scheduler only makes RUNNABLE processes RUNNING.
LEMMA SchedulerChange ==
  ASSUME Shape, HandOver, NEW c \in CPU, SchedulerStep(c)
  PROVE  StateChange
<1> USE SMTT(30) DEF Shape, SchedulerStep
<1>1. \/ state' = state
      \/ /\ idx[c] \in Slots /\ state[idx[c]] = "RUNNABLE"
         /\ state' = [state EXCEPT ![idx[c]] = "RUNNING"]
  BY Zenon DEF Snapshot, AdviseHit, AdviseMiss, Honor, AdvisedBack, PickHit, PickMiss, PickedBack,
         Wfi, Choose, table
<1> QED BY <1>1, Zenon DEF StateChange

\* A kernel thread changes its own state with its lock held, and others' as the rules say.
LEMMA ThreadChange ==
  ASSUME Shape, HandOver, NEW c \in CPU, ThreadStep(c)
  PROVE  StateChange
<1> USE ShapeFacts, SMTT(30) DEF Shape
<1>1. CASE Resume(c) \/ Clockintr(c) \/ Sched(c) \/ ForkCopied(c)
  <2>1. state' = state  BY <1>1, Zenon DEF Resume, Clockintr, Sched, ForkCopied, table
  <2> QED BY <2>1, Zenon DEF StateChange
<1>2. CASE Yield(c) \/ Sleep(c) \/ Exit(c)
  <2>1. /\ on[c] = cproc[c] /\ cproc[c] \in Slots /\ state[cproc[c]] = "RUNNING"
    BY <1>2 DEF Yield, Sleep, Exit, InSyscall, At, me, HandOver, CpuInv, CpuOk, Loading,
                Executing, Leaving, Left, Saved, Swtching
  <2>2. PICK s \in {"RUNNABLE", "SLEEPING", "ZOMBIE"} :
          /\ state' = [state EXCEPT ![cproc[c]] = s]
          /\ plock' = [plock EXCEPT ![cproc[c]] = c]
    BY <1>2, Zenon DEF Yield, Sleep, Exit, Acquire, me
  <2>3. \A p \in Slots : state'[p] # state[p] => p = cproc[c]  BY <2>1, <2>2, Zenon
  <2> QED BY <2>1, <2>2, <2>3, Zenon DEF StateChange
<1>3. CASE ForkFail(c) \/ ForkRunnable(c)
  <2> DEFINE q == np[cproc[c]]
  <2>1. q \in Slots /\ state[q] = "USED"
    <3>1. on[c] # NoProc /\ on[c] = cproc[c] /\ cproc[c] \in Slots
      BY <1>3, Zenon DEF ForkFail, ForkRunnable, At, HandOver, CpuInv, CpuOk
    <3> QED BY <1>3, <3>1 DEF ForkFail, ForkRunnable, At, me, HandOver, ForkInv
  <2>2. PICK s \in {"UNUSED", "RUNNABLE"} : state' = [state EXCEPT ![q] = s]
    BY <1>3, Zenon DEF ForkFail, ForkRunnable, me
  <2> HIDE DEF q
  <2> QED BY <2>1, <2>2, Zenon DEF StateChange
<1>4. ASSUME NEW q \in Slots, Wakeup(c, q) \/ Allocproc(c, q) \/ Reap(c, q) PROVE StateChange
  <2>1. \/ state[q] = "SLEEPING" /\ state' = [state EXCEPT ![q] = "RUNNABLE"]
        \/ state[q] = "UNUSED" /\ state' = [state EXCEPT ![q] = "USED"]
        \/ state[q] = "ZOMBIE" /\ state' = [state EXCEPT ![q] = "UNUSED"]
    BY <1>4, Zenon DEF Wakeup, Allocproc, Reap
  <2> QED BY <2>1, Zenon DEF StateChange
<1>5. ASSUME NEW a \in AdvicePids, SetLlmAdvice(c, a) PROVE StateChange
  BY <1>5, Zenon DEF SetLlmAdvice, table, StateChange
<1> QED BY <1>1, <1>2, <1>3, <1>4, <1>5, Zenon DEF ThreadStep

\* For any number of CPUs: only the thread of a process ends RUNNING, with p->lock taken by
\* its own CPU; only kwait() ends ZOMBIE; UNUSED is left only for USED.
THEOREM StatesChangeInOrder == Spec => StateSteps
<1>1. TypeOK /\ HandOver /\ [Next]_vars => [StateChange]_vars
  BY ShapeFacts, SchedulerChange, ThreadChange, Zenon DEF Next
<1> QED BY <1>1, HandOverAlways, PTL DEF Spec, StateSteps

---------------------------------------------------------------------------
(* Advice, on one CPU.                                                      *)

Match(c, p) == state[p] = "RUNNABLE" /\ pid[p] = advised[c]

\* The slots that the scan for the advised process has left behind, and at the start of
\* round-robin all of them, do not hold that process.
ScanInv ==
  \A c \in CPU :
    /\ spc[c] = "advise" => found[c] = 0 /\ \A p \in Slots : p < idx[c] => ~Match(c, p)
    /\ spc[c] = "rr" /\ idx[c] = 1 /\ found[c] = 0 => \A p \in Slots : ~Match(c, p)

AdviceInv == AdviceOnce /\ ScanInv

\* A kernel thread runs only while the scheduler of the only CPU waits for it, or while that
\* scheduler is at the top of its loop: no snapshot is being acted on.
LEMMA ThreadAdvice ==
  ASSUME CPU = {CPU0}, TypeOK, HandOver, AdviceInv, NEW c \in CPU, ThreadStep(c)
  PROVE  AdviceInv'
<1> USE ShapeFacts, SMTT(30) DEF Shape
<1>1. UNCHANGED loop
  BY Zenon DEF ThreadStep, Resume, Clockintr, Yield, Sleep, Exit, Sched, ForkFail, ForkCopied,
         ForkRunnable, Wakeup, Allocproc, Reap, SetLlmAdvice
<1>2. spc[c] \notin {"advise", "honor", "rr"}
  <2>1. on[c] # NoProc \/ spc[c] = "loop"
    BY Zenon DEF ThreadStep, Resume, Clockintr, Yield, Sleep, Exit, Sched, ForkFail, ForkCopied,
           ForkRunnable, Wakeup, Allocproc, Reap, SetLlmAdvice, At, InSyscall, Interruptible,
           InScheduler
  <2> QED BY <2>1, Zenon DEF HandOver, CpuInv, CpuOk
<1>3. ScanInv'  BY <1>1, <1>2, Zenon DEF ScanInv, loop
<1>4. on[c] # NoProc => on[c] = cproc[c] /\ cproc[c] \in Slots
  BY Zenon DEF HandOver, CpuInv, CpuOk
<1>5. \/ on'[c] # NoProc => tpc'[on'[c]] \notin Saved
      \/ UNCHANGED <<on, tpc, llm>>
  <2> HIDE DEF TypeOK, HandOver, AdviceInv
  <2> USE TypeOK, <1>4 DEF Saved, Swtching, At, me, Goto, cpus, InSyscall
  <2>1. CASE Resume(c)        BY <2>1, Zenon DEF Resume
  <2>2. CASE Clockintr(c)     BY <2>2, Zenon DEF Clockintr, Interruptible, InScheduler
  <2>3. CASE Yield(c) \/ Sleep(c) \/ Exit(c)  BY <2>3, Zenon DEF Yield, Sleep, Exit
  <2>4. CASE Sched(c)         BY <2>4, Zenon DEF Sched
  <2>5. CASE ForkFail(c)      BY <2>5, Zenon DEF ForkFail
  <2>6. CASE ForkCopied(c)    BY <2>6, Zenon DEF ForkCopied
  <2>7. CASE ForkRunnable(c)  BY <2>7, Zenon DEF ForkRunnable
  <2>8. ASSUME NEW q \in Slots, Wakeup(c, q) PROVE UNCHANGED <<on, tpc, llm>>
    BY <2>8, Zenon DEF Wakeup, thread
  <2>9. ASSUME NEW q \in Slots, Allocproc(c, q) PROVE tpc'[on'[c]] \notin Saved
    BY <2>9, Zenon DEF Allocproc
  <2>10. ASSUME NEW q \in Slots, Reap(c, q) PROVE tpc'[on'[c]] \notin Saved
    BY <2>10, Zenon DEF Reap
  <2>11. ASSUME NEW a \in AdvicePids, SetLlmAdvice(c, a) PROVE tpc'[on'[c]] \notin Saved
    BY <2>11, Zenon DEF SetLlmAdvice, thread
  <2> QED BY <2>1, <2>2, <2>3, <2>4, <2>5, <2>6, <2>7, <2>8, <2>9, <2>10, <2>11, Zenon
          DEF ThreadStep
<1> QED BY <1>1, <1>2, <1>3, <1>5, Zenon DEF AdviceInv, AdviceOnce, loop, llm

\* The scheduler of the only CPU acts on a snapshot that nobody else can outdate, and uses
\* the advice up before the process it chose starts.
LEMMA SchedulerAdvice ==
  ASSUME CPU = {CPU0}, TypeOK, HandOver, AdviceInv, NEW c \in CPU, SchedulerStep(c)
  PROVE  AdviceInv'
<1> USE NumAssumption, SMTT(30) DEF TypeOK, Slots, NoProc, InScheduler
<1>1. CASE Snapshot(c)
  <2> USE DEF Snapshot, table, cpus, thread, llm
  <2>1. AdviceOnce'  BY <1>1 DEF AdviceOnce, AdviceFresh
  <2>2. \A p \in Slots : pid[p] # -1  OBVIOUS
  <2>3. ScanInv'     BY <1>1, <2>2 DEF ScanInv, Match
  <2> QED BY <2>1, <2>3, Zenon DEF AdviceInv
<1>2. CASE AdviseHit(c)
  <2> USE DEF AdviseHit, thread, llm
  <2>1. AdviceOnce'  BY <1>2, Zenon DEF AdviceInv, AdviceOnce, AdviceFresh
  <2>2. ScanInv'     BY <1>2, Zenon DEF ScanInv
  <2> QED BY <2>1, <2>2, Zenon DEF AdviceInv
<1>3. CASE AdviseMiss(c)
  <2> USE DEF AdviseMiss, Locked, cpus, thread, llm
  <2>1. AdviceOnce'  BY <1>3, Zenon DEF AdviceInv, AdviceOnce, AdviceFresh
  <2>2. ~Match(c, idx[c]) /\ \A p \in Slots : p < idx[c] => ~Match(c, p)
    BY <1>3, Zenon DEF AdviceInv, ScanInv, Match
  <2>3. \A p \in Slots : Match(c, p)' <=> Match(c, p)  BY <1>3, Zenon DEF Match
  <2>4. ScanInv'     BY <1>3, <2>2, <2>3 DEF AdviceInv, ScanInv
  <2> QED BY <2>1, <2>4, Zenon DEF AdviceInv
<1>4. CASE Honor(c)
  <2>1. AdviceOnce'  BY <1>4, Zenon DEF Honor, AdviceOnce
  <2>2. ScanInv'     BY <1>4, Zenon DEF Honor, ScanInv
  <2> QED BY <2>1, <2>2, Zenon DEF AdviceInv
<1>5. CASE AdvisedBack(c) \/ PickHit(c) \/ PickMiss(c) \/ PickedBack(c) \/ Wfi(c)
  <2> USE DEF AdvisedBack, PickHit, PickMiss, PickedBack, Wfi, NextSlot
  <2>1. spc'[c] \notin {"advise", "honor", "advised"}
    BY <1>5, Zenon
  <2>2. spc'[c] = "rr" => idx'[c] # 1
    BY <1>5
  <2> QED BY <2>1, <2>2, Zenon DEF AdviceInv, AdviceOnce, ScanInv
<1> QED BY <1>1, <1>2, <1>3, <1>4, <1>5, Zenon DEF SchedulerStep

\* On one CPU AdviceInv holds in every reachable state.
LEMMA AdviceAlways ==
  ASSUME CPU = {CPU0}
  PROVE  Spec => [](TypeOK /\ AdviceInv)
<1>1. Init => AdviceInv
  BY NumAssumption, SMTT(30) DEF Init, AdviceInv, AdviceOnce, ScanInv
<1>2. TypeOK /\ HandOver /\ AdviceInv /\ [Next]_vars => AdviceInv'
  <2>1. ASSUME AdviceInv, UNCHANGED vars PROVE AdviceInv'
    <3>1. UNCHANGED <<state, pid, on, tpc, spc, idx, found, advised, ticks, llm>>
      BY <2>1, Zenon DEF vars, table, cpus, thread, loop
    <3> QED BY <2>1, <3>1, Zenon DEF AdviceInv, AdviceOnce, ScanInv, Match, AdviceFresh, llm
  <2> QED BY <2>1, SchedulerAdvice, ThreadAdvice, Zenon DEF Next
<1> QED BY <1>1, <1>2, HandOverAlways, PTL DEF Spec

\* On one CPU, with any number of processes and any advisors: the scheduler never acts on
\* advice that has been replaced, used or has expired, and a piece of advice buys one turn.
THEOREM AdviceBuysOneTurn ==
  ASSUME CPU = {CPU0}
  PROVE  Spec => []AdviceOnce
<1>1. AdviceInv => AdviceOnce  BY Zenon DEF AdviceInv
<1> QED BY <1>1, AdviceAlways, PTL

\* On one CPU, with any number of processes and any advisors: advice that names a RUNNABLE
\* process is never passed over in favour of round-robin.
THEOREM AdviceIsFollowed ==
  ASSUME CPU = {CPU0}
  PROVE  Spec => []AdvisedNotSkipped
<1>1. TypeOK /\ AdviceInv => AdvisedNotSkipped
  BY NumAssumption, SMTT(30) DEF AdviceInv, ScanInv, Match, AdvisedNotSkipped, TypeOK, Slots
<1> QED BY <1>1, AdviceAlways, PTL
=============================================================================
