--------------------------- MODULE ProcTreeProofs ---------------------------
(***************************************************************************)
(* Parents and children, for any number of slots and pids: nobody is       *)
(* stranded by the exit of a parent, and no exit is missed by kwait().     *)
(***************************************************************************)
EXTENDS ProcTree, WellFoundedInduction, TLAPS

Gone    == {"exit_zombie", "zombie", "off"}
Forking == {"fork_parent", "fork_run"}
Waiting == {"wait_bed", "wait_asleep"}

\* Where a thread stands tells the state of its slot.
PcInv ==
  \A s \in Slots :
    /\ pc[s] \in {"user", "fork_parent", "fork_run", "exit_zombie", "wait_bed", "wait_woken"}
         => state[s] = "RUNNABLE"
    /\ pc[s] \in {"wait_asleep", "asleep"} => state[s] = "SLEEPING"
    /\ pc[s] = "zombie" => state[s] = "ZOMBIE"
    /\ pc[s] = "off" => state[s] \in {"UNUSED", "USED", "ZOMBIE"}

\* The child of an unfinished fork() is USED and belongs to one fork() only.
ForkInv ==
  /\ \A p \in Slots : pc[p] \in Forking =>
       /\ child[p] \in Slots /\ state[child[p]] = "USED"
       /\ parent[child[p]] = IF pc[p] = "fork_run" THEN p ELSE 0
  /\ \A p, q \in Slots :
       pc[p] \in Forking /\ pc[q] \in Forking /\ child[p] = child[q] => p = q

\* Nobody that has begun to exit has children, and init never does.
KinInv ==
  /\ pc[initproc] \notin Gone
  /\ \A s \in Slots : parent[s] # 0 => pc[parent[s]] \notin Gone
  /\ \A s \in Slots : state[s] = "UNUSED" => parent[s] = 0
  /\ \A s \in Slots :
       state[s] \in {"SLEEPING", "RUNNABLE", "ZOMBIE"} /\ s # initproc => parent[s] # 0

LockInv == \A p \in Slots : pc[p] \in {"exit_zombie", "wait_bed"} => wait_lock = p

\* Whoever sleeps in kwait() or is about to has children, and none of them is a zombie or
\* has begun to become one.
WaitInv ==
  \A p \in Slots : pc[p] \in Waiting =>
    /\ \E s \in Slots : parent[s] = p
    /\ \A s \in Slots : parent[s] = p => state[s] # "ZOMBIE" /\ pc[s] # "exit_zombie"

TreeInv == TypeOK /\ PcInv /\ ForkInv /\ KinInv /\ LockInv /\ WaitInv

---------------------------------------------------------------------------

\* The scans of allocproc(), kwait() and kkill() find a member of what they look for.
LEMMA SlotMinIn ==
  ASSUME NEW S \in SUBSET Slots, S # {}
  PROVE  SlotMin(S) \in S
<1>1. S \subseteq Nat
  BY TreeAssumption DEF Slots
<1> DEFINE R == OpToRel(<, Nat)
<1>2. IsWellFoundedOn(R, Nat)
  BY NatLessThanWellFounded
<1>3. \A x, y \in Nat : ~(<<y, x>> \in R) => x <= y
  BY DEF OpToRel
<1> HIDE DEF R
<1>4. PICK x \in S : \A y \in S : ~(<<y, x>> \in R)
  BY <1>1, <1>2, WFMin
<1>5. \A y \in S : x <= y
  BY <1>1, <1>3, <1>4
<1> QED
  BY <1>5 DEF SlotMin

LEMMA InitInv == Init => TreeInv
<1> SUFFICES ASSUME Init PROVE TreeInv
  OBVIOUS
<1> USE TreeAssumption DEF Init, Slots, initproc
<1>1. TypeOK
  BY DEF TypeOK, ProcState, Pc
<1>2. PcInv /\ ForkInv /\ LockInv
  BY DEF PcInv, ForkInv, LockInv, Forking
<1>3. KinInv /\ WaitInv
  BY DEF KinInv, WaitInv, Gone, Waiting
<1> QED
  BY <1>1, <1>2, <1>3 DEF TreeInv

---------------------------------------------------------------------------
(* Every step keeps the invariant.                                          *)

LEMMA ForkAllocInv ==
  ASSUME TreeInv, NEW p \in Slots, ForkAlloc(p)
  PROVE  TreeInv'
<1>0. FirstUnused \in Slots /\ state[FirstUnused] = "UNUSED"
  BY SlotMinIn DEF ForkAlloc, FirstUnused, Unused
<1> USE <1>0, TreeAssumption, SMTT(90) DEF TreeInv, TypeOK, ForkAlloc, InUser, Goto, Slots, initproc
<1>1. TypeOK'
  BY DEF ProcState, Pc
<1>2. PcInv'
  BY DEF PcInv, Pc
<1>3. ForkInv'
  <2>1. \A q \in Slots : pc[q] \in Forking => child[q] # FirstUnused /\ q # p
    BY DEF ForkInv, Forking
  <2>2. FirstUnused # p /\ parent[FirstUnused] = 0
    BY DEF PcInv, KinInv
  <2>3. \A q \in Slots : q # p => pc'[q] = pc[q] /\ child'[q] = child[q]
    OBVIOUS
  <2>4. pc'[p] = "fork_parent" /\ child'[p] = FirstUnused
    OBVIOUS
  <2>5. \A q \in Slots : state'[q] = IF q = FirstUnused THEN "USED" ELSE state[q]
    OBVIOUS
  <2> QED
    BY <2>1, <2>2, <2>3, <2>4, <2>5 DEF ForkInv, Forking
<1>4. KinInv'
  BY DEF PcInv, ForkInv, KinInv, Forking, Gone, Pc
<1>5. LockInv'
  BY DEF LockInv, PcInv, Pc
<1>6. WaitInv'
  BY DEF PcInv, ForkInv, KinInv, LockInv, WaitInv, Forking, Gone, Waiting, Pc
<1> QED
  BY <1>1, <1>2, <1>3, <1>4, <1>5, <1>6, Zenon DEF TreeInv

LEMMA ForkFailInv ==
  ASSUME TreeInv, NEW p \in Slots, ForkFail(p)
  PROVE  TreeInv'
<1>0. FirstUnused \in Slots
  BY SlotMinIn DEF ForkFail, FirstUnused, Unused
<1> USE <1>0, TreeAssumption, SMTT(90) DEF TreeInv, TypeOK, ForkFail, InUser, Slots, initproc
<1>1. TypeOK'
  BY DEF ProcState, Pc
<1>2. PcInv'
  BY DEF PcInv, Pc
<1>3. ForkInv'
  BY DEF PcInv, ForkInv, Forking, Pc
<1>4. KinInv'
  BY DEF PcInv, ForkInv, KinInv, Forking, Gone, Pc
<1>5. LockInv'
  BY DEF LockInv, PcInv, Pc
<1>6. WaitInv'
  BY DEF PcInv, ForkInv, KinInv, LockInv, WaitInv, Forking, Gone, Waiting, Pc
<1> QED
  BY <1>1, <1>2, <1>3, <1>4, <1>5, <1>6, Zenon DEF TreeInv

LEMMA ForkParentInv ==
  ASSUME TreeInv, NEW p \in Slots, ForkParent(p)
  PROVE  TreeInv'
<1>0. child[p] \in Slots /\ state[child[p]] = "USED" /\ parent[child[p]] = 0
  BY DEF ForkParent, TreeInv, ForkInv, Forking
<1> USE <1>0, TreeAssumption, SMTT(90) DEF TreeInv, TypeOK, ForkParent, Goto, Slots, initproc
<1>1. TypeOK'
  BY DEF ProcState, Pc, ForkInv, Forking
<1>2. PcInv'
  BY DEF PcInv, Pc
<1>3. ForkInv'
  <2>1. \A q \in Slots : pc'[q] = IF q = p THEN "fork_run" ELSE pc[q]
    OBVIOUS
  <2>2. \A q \in Slots : parent'[q] = IF q = child[p] THEN p ELSE parent[q]
    OBVIOUS
  <2>3. \A q \in Slots : q # p /\ pc[q] \in Forking => child[q] \in Slots /\ child[q] # child[p]
    BY Zenon DEF ForkInv, Forking
  <2>4. ForkInv /\ child' = child /\ state' = state
    BY Zenon
  <2> HIDE DEF TreeInv, TypeOK, ForkParent, Goto, Slots
  <2> QED
    BY <2>1, <2>2, <2>3, <2>4 DEF ForkInv, Forking
<1>4. KinInv'
  BY DEF PcInv, ForkInv, KinInv, Forking, Gone, Pc
<1>5. LockInv'
  BY DEF LockInv, PcInv, Pc
<1>6. WaitInv'
  <2>1. \A q \in Slots : pc'[q] = IF q = p THEN "fork_run" ELSE pc[q]
    OBVIOUS
  <2>2. \A q \in Slots : parent'[q] = IF q = child[p] THEN p ELSE parent[q]
    OBVIOUS
  <2> QED
    BY <2>1, <2>2 DEF WaitInv, Waiting
<1> QED
  BY <1>1, <1>2, <1>3, <1>4, <1>5, <1>6, Zenon DEF TreeInv

LEMMA ForkRunnableInv ==
  ASSUME TreeInv, NEW p \in Slots, ForkRunnable(p)
  PROVE  TreeInv'
<1>0. child[p] \in Slots /\ state[child[p]] = "USED" /\ parent[child[p]] = p
  BY DEF ForkRunnable, TreeInv, ForkInv, Forking
<1> USE <1>0, TreeAssumption, SMTT(90) DEF TreeInv, TypeOK, ForkRunnable, Slots, initproc
<1>1. TypeOK'
  <2>1. state' \in [Slots -> ProcState]
    BY DEF ProcState
  <2>2. pc' \in [Slots -> Pc]
    <3>1. "user" \in Pc
      BY DEF Pc
    <3>2. pc \in [Slots -> Pc] /\ pc' = [pc EXCEPT ![p] = "user", ![child[p]] = "user"]
      BY Zenon
    <3> HIDE DEF TreeInv, TypeOK, ForkRunnable, Slots
    <3> QED
      BY <3>1, <3>2
  <2>3. child' \in [Slots -> 0 .. NPROC]
    OBVIOUS
  <2> QED
    BY <2>1, <2>2, <2>3, Zenon
<1>2. PcInv'
  BY DEF PcInv, Pc
<1>3. ForkInv'
  <2>1. \A q \in Slots : pc'[q] = IF q = p \/ q = child[p] THEN "user" ELSE pc[q]
    OBVIOUS
  <2>2. \A q \in Slots : state'[q] = IF q = child[p] THEN "RUNNABLE" ELSE state[q]
    OBVIOUS
  <2>3. \A q \in Slots : q # p => child'[q] = child[q]
    OBVIOUS
  <2>4. \A q \in Slots : q # p /\ pc[q] \in Forking => child[q] \in Slots /\ child[q] # child[p]
    BY Zenon DEF ForkInv, Forking
  <2>5. ForkInv /\ parent' = parent
    BY Zenon
  <2> HIDE DEF TreeInv, TypeOK, ForkRunnable, Slots
  <2> QED
    BY <2>1, <2>2, <2>3, <2>4, <2>5 DEF ForkInv, Forking
<1>4. KinInv'
  BY DEF PcInv, ForkInv, KinInv, Forking, Gone, Pc
<1>5. LockInv'
  BY DEF LockInv, PcInv, Pc
<1>6. WaitInv'
  BY DEF PcInv, ForkInv, KinInv, LockInv, WaitInv, Forking, Gone, Waiting, Pc
<1> QED
  BY <1>1, <1>2, <1>3, <1>4, <1>5, <1>6, Zenon DEF TreeInv

LEMMA ExitInv ==
  ASSUME TreeInv, NEW p \in Slots, Exit(p)
  PROVE  TreeInv'
<1> USE TreeAssumption, SMTT(90) DEF TreeInv, TypeOK, Exit, WakeWaiting, Children, Slots, initproc
<1>1. TypeOK'
  BY DEF ProcState, Pc
<1>2. PcInv'
  BY DEF PcInv, Pc
<1>3. ForkInv'
  BY DEF PcInv, ForkInv, Forking, Pc
<1>4. KinInv'
  BY DEF PcInv, ForkInv, KinInv, Forking, Gone, Pc
<1>5. LockInv'
  BY DEF LockInv, PcInv, Pc
<1>6. WaitInv'
  <2> SUFFICES ASSUME NEW q \in Slots, pc'[q] \in Waiting
               PROVE  /\ \E s \in Slots : parent'[s] = q
                      /\ \A s \in Slots : parent'[s] = q => state'[s] # "ZOMBIE" /\ pc'[s] # "exit_zombie"
    BY Zenon DEF WaitInv
  <2>1. q # p /\ pc[q] = "wait_asleep" /\ q # parent[p] /\ (q = initproc => Children(p) = {})
    BY DEF Waiting, LockInv
  <2>2. \A s \in Slots : parent'[s] = q <=> parent[s] = q
    <3>1. \A s \in Slots : parent'[s] = IF parent[s] = p THEN initproc ELSE parent[s]
      OBVIOUS
    <3>2. q = initproc => \A s \in Slots : parent[s] # p
      BY <2>1, Zenon DEF Children
    <3> HIDE DEF TreeInv, TypeOK, Exit, WakeWaiting, Slots, initproc
    <3> QED
      BY <2>1, <3>1, <3>2
  <2>3. \A s \in Slots : parent[s] = q => s # p /\ state[s] # "ZOMBIE" /\ pc[s] # "exit_zombie"
    BY <2>1 DEF WaitInv, Waiting
  <2>4. \E s \in Slots : parent[s] = q
    BY <2>1 DEF WaitInv, Waiting
  <2>5. \A s \in Slots : parent[s] = q => state'[s] # "ZOMBIE" /\ pc'[s] # "exit_zombie"
    BY <2>3
  <2> QED
    BY <2>2, <2>4, <2>5
<1> QED
  BY <1>1, <1>2, <1>3, <1>4, <1>5, <1>6, Zenon DEF TreeInv

LEMMA ExitZombieInv ==
  ASSUME TreeInv, NEW p \in Slots, ExitZombie(p)
  PROVE  TreeInv'
<1> USE TreeAssumption, SMTT(90) DEF TreeInv, TypeOK, ExitZombie, Goto, Slots, initproc
<1>1. TypeOK'
  BY DEF ProcState, Pc
<1>2. PcInv'
  BY DEF PcInv, Pc
<1>3. ForkInv'
  BY DEF PcInv, ForkInv, Forking, Pc
<1>4. KinInv'
  BY DEF PcInv, ForkInv, KinInv, Forking, Gone, Pc
<1>5. LockInv'
  BY DEF LockInv, PcInv, Pc
<1>6. WaitInv'
  BY DEF PcInv, ForkInv, KinInv, LockInv, WaitInv, Forking, Gone, Waiting, Pc
<1> QED
  BY <1>1, <1>2, <1>3, <1>4, <1>5, <1>6, Zenon DEF TreeInv

LEMMA ExitOffInv ==
  ASSUME TreeInv, NEW p \in Slots, ExitOff(p)
  PROVE  TreeInv'
<1> USE TreeAssumption, SMTT(90) DEF TreeInv, TypeOK, ExitOff, Goto, table, Slots, initproc
<1>1. TypeOK'
  BY DEF ProcState, Pc
<1>2. PcInv'
  BY DEF PcInv, Pc
<1>3. ForkInv'
  BY DEF PcInv, ForkInv, Forking, Pc
<1>4. KinInv'
  BY DEF PcInv, ForkInv, KinInv, Forking, Gone, Pc
<1>5. LockInv'
  BY DEF LockInv, PcInv, Pc
<1>6. WaitInv'
  BY DEF PcInv, ForkInv, KinInv, LockInv, WaitInv, Forking, Gone, Waiting, Pc
<1> QED
  BY <1>1, <1>2, <1>3, <1>4, <1>5, <1>6, Zenon DEF TreeInv

LEMMA WaitReapInv ==
  ASSUME TreeInv, NEW p \in Slots, WaitReap(p)
  PROVE  TreeInv'
<1> DEFINE pp == SlotMin(Zombies(p))
<1>0. pp \in Slots /\ state[pp] = "ZOMBIE" /\ parent[pp] = p
  BY SlotMinIn DEF WaitReap, Zombies, Children
<1> HIDE DEF pp
<1> USE <1>0, TreeAssumption, SMTT(90) DEF TreeInv, TypeOK, WaitReap, Scans, InUser, Freeproc, Goto, pp, Slots, initproc
<1>1. TypeOK'
  BY DEF ProcState, Pc
<1>2. PcInv'
  BY DEF PcInv, Pc
<1>3. ForkInv'
  <2>1. \A q \in Slots : q # p => pc'[q] = pc[q]
    OBVIOUS
  <2>2. pc'[p] = "user"
    OBVIOUS
  <2>3. \A q \in Slots : q # pp => state'[q] = state[q] /\ parent'[q] = parent[q]
    OBVIOUS
  <2> QED
    BY <2>1, <2>2, <2>3 DEF ForkInv, Forking
<1>4. KinInv'
  BY DEF PcInv, ForkInv, KinInv, Forking, Gone, Pc
<1>5. LockInv'
  BY DEF LockInv, PcInv, Pc
<1>6. WaitInv'
  <2>1. \A q \in Slots : q # p => pc'[q] = pc[q]
    OBVIOUS
  <2>2. pc'[p] = "user"
    OBVIOUS
  <2>3. \A q \in Slots : q # pp => state'[q] = state[q] /\ parent'[q] = parent[q]
    OBVIOUS
  <2>4. parent'[pp] = 0
    OBVIOUS
  <2>5. WaitInv
    BY Zenon
  <2>6. 0 \notin Slots
    OBVIOUS
  <2> HIDE DEF TreeInv, TypeOK, WaitReap, Scans, InUser, Freeproc, Goto, pp, Slots
  <2> QED
    BY <1>0, <2>1, <2>2, <2>3, <2>4, <2>5, <2>6 DEF WaitInv, Waiting
<1> QED
  BY <1>1, <1>2, <1>3, <1>4, <1>5, <1>6, Zenon DEF TreeInv

LEMMA WaitFaultInv ==
  ASSUME TreeInv, NEW p \in Slots, WaitFault(p)
  PROVE  TreeInv'
<1> USE TreeAssumption, SMTT(90) DEF TreeInv, TypeOK, WaitFault, Scans, InUser, Goto, table, Slots, initproc
<1>1. TypeOK'
  BY DEF ProcState, Pc
<1>2. PcInv'
  BY DEF PcInv, Pc
<1>3. ForkInv'
  BY DEF PcInv, ForkInv, Forking, Pc
<1>4. KinInv'
  BY DEF PcInv, ForkInv, KinInv, Forking, Gone, Pc
<1>5. LockInv'
  BY DEF LockInv, PcInv, Pc
<1>6. WaitInv'
  BY DEF PcInv, ForkInv, KinInv, LockInv, WaitInv, Forking, Gone, Waiting, Pc
<1> QED
  BY <1>1, <1>2, <1>3, <1>4, <1>5, <1>6, Zenon DEF TreeInv

LEMMA WaitNoneInv ==
  ASSUME TreeInv, NEW p \in Slots, WaitNone(p)
  PROVE  TreeInv'
<1> USE TreeAssumption, SMTT(90) DEF TreeInv, TypeOK, WaitNone, Scans, InUser, Goto, table, Slots, initproc
<1>1. TypeOK'
  BY DEF ProcState, Pc
<1>2. PcInv'
  BY DEF PcInv, Pc
<1>3. ForkInv'
  BY DEF PcInv, ForkInv, Forking, Pc
<1>4. KinInv'
  BY DEF PcInv, ForkInv, KinInv, Forking, Gone, Pc
<1>5. LockInv'
  BY DEF LockInv, PcInv, Pc
<1>6. WaitInv'
  BY DEF PcInv, ForkInv, KinInv, LockInv, WaitInv, Forking, Gone, Waiting, Pc
<1> QED
  BY <1>1, <1>2, <1>3, <1>4, <1>5, <1>6, Zenon DEF TreeInv

LEMMA WaitBedInv ==
  ASSUME TreeInv, NEW p \in Slots, WaitBed(p)
  PROVE  TreeInv'
<1> USE TreeAssumption, SMTT(90) DEF TreeInv, TypeOK, WaitBed, Scans, InUser, Zombies, Children, Goto, table, Slots, initproc
<1>1. TypeOK'
  BY DEF ProcState, Pc
<1>2. PcInv'
  BY DEF PcInv, Pc
<1>3. ForkInv'
  <2>1. \A q \in Slots : pc'[q] = IF q = p THEN "wait_bed" ELSE pc[q]
    OBVIOUS
  <2> QED
    BY <2>1 DEF ForkInv, Forking
<1>4. KinInv'
  BY DEF PcInv, ForkInv, KinInv, Forking, Gone, Pc
<1>5. LockInv'
  BY DEF LockInv, PcInv, Pc
<1>6. WaitInv'
  <2>1. \A q \in Slots : pc'[q] = IF q = p THEN "wait_bed" ELSE pc[q]
    OBVIOUS
  <2>2. \A q \in Slots : pc[q] # "exit_zombie"
    BY DEF LockInv
  <2>3. (\E s \in Slots : parent[s] = p) /\ \A s \in Slots : parent[s] = p => state[s] # "ZOMBIE"
    BY Zenon
  <2>4. WaitInv /\ parent' = parent /\ state' = state
    BY Zenon
  <2> HIDE DEF TreeInv, TypeOK, WaitBed, Scans, InUser, Zombies, Children, Goto, table, Slots
  <2> QED
    BY <2>1, <2>2, <2>3, <2>4 DEF WaitInv, Waiting
<1> QED
  BY <1>1, <1>2, <1>3, <1>4, <1>5, <1>6, Zenon DEF TreeInv

LEMMA WaitSleepInv ==
  ASSUME TreeInv, NEW p \in Slots, WaitSleep(p)
  PROVE  TreeInv'
<1> USE TreeAssumption, SMTT(90) DEF TreeInv, TypeOK, WaitSleep, Goto, Slots, initproc
<1>1. TypeOK'
  BY DEF ProcState, Pc
<1>2. PcInv'
  BY DEF PcInv, Pc
<1>3. ForkInv'
  BY DEF PcInv, ForkInv, Forking, Pc
<1>4. KinInv'
  BY DEF PcInv, ForkInv, KinInv, Forking, Gone, Pc
<1>5. LockInv'
  BY DEF LockInv, PcInv, Pc
<1>6. WaitInv'
  <2>1. \A q \in Slots : pc'[q] = IF q = p THEN "wait_asleep" ELSE pc[q]
    OBVIOUS
  <2>2. \A q \in Slots : state'[q] = IF q = p THEN "SLEEPING" ELSE state[q]
    OBVIOUS
  <2> QED
    BY <2>1, <2>2 DEF WaitInv, Waiting
<1> QED
  BY <1>1, <1>2, <1>3, <1>4, <1>5, <1>6, Zenon DEF TreeInv

LEMMA SleepOtherInv ==
  ASSUME TreeInv, NEW p \in Slots, SleepOther(p)
  PROVE  TreeInv'
<1> USE TreeAssumption, SMTT(90) DEF TreeInv, TypeOK, SleepOther, InUser, Goto, Slots, initproc
<1>1. TypeOK'
  BY DEF ProcState, Pc
<1>2. PcInv'
  BY DEF PcInv, Pc
<1>3. ForkInv'
  BY DEF PcInv, ForkInv, Forking, Pc
<1>4. KinInv'
  BY DEF PcInv, ForkInv, KinInv, Forking, Gone, Pc
<1>5. LockInv'
  BY DEF LockInv, PcInv, Pc
<1>6. WaitInv'
  BY DEF PcInv, ForkInv, KinInv, LockInv, WaitInv, Forking, Gone, Waiting, Pc
<1> QED
  BY <1>1, <1>2, <1>3, <1>4, <1>5, <1>6, Zenon DEF TreeInv

LEMMA WakeOtherInv ==
  ASSUME TreeInv, NEW p \in Slots, WakeOther(p)
  PROVE  TreeInv'
<1> USE TreeAssumption, SMTT(90) DEF TreeInv, TypeOK, WakeOther, Goto, Slots, initproc
<1>1. TypeOK'
  BY DEF ProcState, Pc
<1>2. PcInv'
  BY DEF PcInv, Pc
<1>3. ForkInv'
  BY DEF PcInv, ForkInv, Forking, Pc
<1>4. KinInv'
  BY DEF PcInv, ForkInv, KinInv, Forking, Gone, Pc
<1>5. LockInv'
  BY DEF LockInv, PcInv, Pc
<1>6. WaitInv'
  BY DEF PcInv, ForkInv, KinInv, LockInv, WaitInv, Forking, Gone, Waiting, Pc
<1> QED
  BY <1>1, <1>2, <1>3, <1>4, <1>5, <1>6, Zenon DEF TreeInv

LEMMA KillInv ==
  ASSUME TreeInv, NEW k, Kill(k)
  PROVE  TreeInv'
<1> DEFINE S == {s \in Slots : pid[s] = k}
           p == SlotMin(S)
<1>0. p \in Slots
  BY SlotMinIn DEF Kill
<1> HIDE DEF p
<1> USE <1>0, TreeAssumption, SMTT(90) DEF TreeInv, TypeOK, Kill, Goto, Slots, initproc, p
<1>1. TypeOK'
  BY DEF ProcState, Pc
<1>2. \A s \in Slots : s # p => state'[s] = state[s] /\ pc'[s] = pc[s]
  OBVIOUS
<1>3. \/ state'[p] = state[p] /\ pc'[p] = pc[p]
      \/ pc[p] = "wait_asleep" /\ state'[p] = "RUNNABLE" /\ pc'[p] = "wait_woken"
      \/ pc[p] = "asleep" /\ state'[p] = "RUNNABLE" /\ pc'[p] = "user"
  <2>1. state'[p] = IF state[p] = "SLEEPING" THEN "RUNNABLE" ELSE state[p]
    OBVIOUS
  <2>2. pc'[p] = CASE pc[p] = "wait_asleep" -> "wait_woken"
                   [] pc[p] = "asleep" -> "user"
                   [] OTHER -> pc[p]
    OBVIOUS
  <2>3. pc[p] \in Pc /\ PcInv
    OBVIOUS
  <2> HIDE DEF TreeInv, TypeOK, Kill, Goto, p
  <2>4. state[p] = "SLEEPING" <=> pc[p] \in {"wait_asleep", "asleep"}
    BY <2>3 DEF PcInv, Pc
  <2> QED
    BY <2>1, <2>2, <2>4
<1>4. parent' = parent /\ child' = child /\ wait_lock' = wait_lock
  BY Zenon
<1>5. TreeInv /\ PcInv /\ ForkInv /\ KinInv /\ LockInv /\ WaitInv
  BY Zenon
<1> HIDE DEF TreeInv, TypeOK, Kill, Goto, p
<1>6. PcInv'
  BY <1>2, <1>3, <1>5 DEF PcInv
<1>7. ForkInv'
  BY <1>2, <1>3, <1>4, <1>5 DEF ForkInv, Forking, PcInv
<1>8. KinInv'
  <2>1. \A s \in Slots : pc'[s] \in Gone <=> pc[s] \in Gone
    BY <1>2, <1>3 DEF Gone
  <2>2. \A s \in Slots : parent[s] \in 0 .. NPROC
    BY <1>5 DEF TreeInv, TypeOK
  <2>3. \A s \in Slots :
          /\ state'[s] = "UNUSED" <=> state[s] = "UNUSED"
          /\ state'[s] \in {"SLEEPING", "RUNNABLE", "ZOMBIE"} <=> state[s] \in {"SLEEPING", "RUNNABLE", "ZOMBIE"}
    BY <1>2, <1>3, <1>5 DEF PcInv
  <2> QED
    BY <1>4, <1>5, <2>1, <2>2, <2>3 DEF KinInv
<1>9. LockInv'
  BY <1>2, <1>3, <1>4, <1>5 DEF LockInv
<1>10. WaitInv'
  BY <1>2, <1>3, <1>4, <1>5 DEF WaitInv, Waiting
<1> QED
  BY <1>1, <1>6, <1>7, <1>8, <1>9, <1>10, Zenon DEF TreeInv

LEMMA StutterInv == TreeInv /\ UNCHANGED vars => TreeInv'
<1> USE DEF vars, table
<1>1. TypeOK /\ UNCHANGED vars => TypeOK'
  BY Zenon DEF TypeOK
<1>2. PcInv /\ UNCHANGED vars => PcInv'
  BY Zenon DEF PcInv
<1>3. ForkInv /\ UNCHANGED vars => ForkInv'
  BY Zenon DEF ForkInv
<1>4. KinInv /\ UNCHANGED vars => KinInv'
  BY Zenon DEF KinInv
<1>5. LockInv /\ WaitInv /\ UNCHANGED vars => LockInv' /\ WaitInv'
  BY Zenon DEF LockInv, WaitInv
<1> QED
  BY <1>1, <1>2, <1>3, <1>4, <1>5, Zenon DEF TreeInv

LEMMA NextInv == TreeInv /\ [Next]_vars => TreeInv'
<1> SUFFICES ASSUME TreeInv, Next PROVE TreeInv'
  BY StutterInv
<1>1. ASSUME NEW p \in Slots, Fork(p) PROVE TreeInv'
  BY <1>1, ForkAllocInv, ForkFailInv, ForkParentInv, ForkRunnableInv DEF Fork
<1>2. ASSUME NEW p \in Slots, Exit(p) \/ ExitZombie(p) \/ ExitOff(p) PROVE TreeInv'
  BY <1>2, ExitInv, ExitZombieInv, ExitOffInv
<1>3. ASSUME NEW p \in Slots, Wait(p) PROVE TreeInv'
  BY <1>3, WaitReapInv, WaitFaultInv, WaitNoneInv, WaitBedInv, WaitSleepInv DEF Wait
<1>4. ASSUME NEW p \in Slots, SleepOther(p) \/ WakeOther(p) PROVE TreeInv'
  BY <1>4, SleepOtherInv, WakeOtherInv
<1>5. ASSUME NEW k \in 0 .. MaxPid, Kill(k) PROVE TreeInv'
  BY <1>5, KillInv
<1> QED
  BY <1>1, <1>2, <1>3, <1>4, <1>5 DEF Next

LEMMA AlwaysTreeInv == Spec => []TreeInv
  BY InitInv, NextInv, PTL DEF Spec

---------------------------------------------------------------------------

\* For any number of slots and pids the process table keeps its types; in particular the
\* scans of allocproc(), kwait() and kkill() stay inside proc[].
THEOREM TreeTypes == Spec => []TypeOK
<1>1. TreeInv => TypeOK
  BY DEF TreeInv
<1> QED
  BY <1>1, AlwaysTreeInv, PTL

\* For any number of slots every process but init has, from the end of its fork() until it
\* is reaped, a parent that can still wait for it: reparent() strands nobody.
THEOREM NobodyStranded == Spec => []ParentLives
<1>1. TreeInv => ParentLives
  <2> SUFFICES ASSUME TreeInv PROVE ParentLives
    OBVIOUS
  <2>1. \A s \in Slots : parent[s] # 0 => parent[s] \in Slots /\ pc[parent[s]] \notin Gone
    <3>1. \A s \in Slots : parent[s] \in 0 .. NPROC
      BY DEF TreeInv, TypeOK
    <3>2. \A x \in 0 .. NPROC : x # 0 => x \in Slots
      BY TreeAssumption DEF Slots
    <3> QED
      BY <3>1, <3>2, Zenon DEF TreeInv, KinInv
  <2>2. \A q \in Slots : pc[q] \notin Gone => state[q] \in {"SLEEPING", "RUNNABLE"}
    BY DEF TreeInv, TypeOK, PcInv, Gone, Pc
  <2> QED
    BY <2>1, <2>2 DEF TreeInv, KinInv, ParentLives
<1> QED
  BY <1>1, AlwaysTreeInv, PTL

\* For any number of slots a process asleep in kwait() has children and no zombie among
\* them: the wakeup in kexit(), before the state becomes ZOMBIE, is not lost.
THEOREM ExitsNoticed == Spec => []NoLostExit
<1>1. TreeInv => NoLostExit
  BY DEF TreeInv, WaitInv, Waiting, NoLostExit, Children, Zombies
<1> QED
  BY <1>1, AlwaysTreeInv, PTL
=============================================================================
