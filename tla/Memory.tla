------------------------------ MODULE Memory ------------------------------
(***************************************************************************)
(* Physical pages and address spaces: xv6/kernel/kalloc.c and vm.c, with   *)
(* their users sys_sbrk(), growproc(), kfork(), kexec(), kexit() and the   *)
(* page faults of usertrap() and copyout().                                *)
(*                                                                         *)
(* Physical pages are numbers, 0 is the null pointer.  Sizes are in units  *)
(* of which a page has PG, so that they need not be page aligned.  A page  *)
(* table is its root page, its inner nodes and its leaves; the trampoline  *)
(* and the trapframe are the leaves below node h0, user pages those      *)
(* below the nodes of level 0, EPT to each.                                *)
(*                                                                         *)
(* kmem.lock is held for one page at a time and a process can lose the CPU *)
(* between any two, so a loop over pages takes a step per page, except     *)
(* where it only frees.                                                    *)
(***************************************************************************)
EXTENDS Integers, FiniteSets, FiniteSetsExt

CONSTANTS Procs, First,
          NPAGES,     \* physical pages
          NVPAGES,    \* pages below TRAPFRAME
          EPT, PG,
          TEXT,       \* pages of a program's segments
          Deltas      \* arguments of sbrk()

ASSUME MemAssumption ==
  /\ First \in Procs /\ {NPAGES, NVPAGES, EPT, PG, TEXT} \subseteq Nat \ {0}
  /\ TEXT + 2 <= NVPAGES /\ Deltas \subseteq Int

VPages == 0 .. NVPAGES - 1
Pages  == 1 .. NPAGES
l1 == -1     \* the inner nodes: of user memory,
h1 == -2     \* and of trampoline and trapframe
h0 == -3
Nodes  == {l1, h1, h0} \cup {v \div EPT : v \in VPages}

VARIABLES
  free,               \* kmem.freelist
  content,            \* of each page: 0, 1 or junk
  sz, pt, trapframe,  \* of each process
  state,              \* "unused", "used", "live" or "zombie"
  pc, at, nsz,        \* the call a process is in, its next page, the new size
  npt, arg,           \* kexec(): the new page table; the page of argv[0]
  child               \* kfork(): the new process

table == <<sz, pt, trapframe, state>>
local == <<pc, at, nsz, npt, arg, child>>
vars  == <<free, content, table, local>>

Junk    == 2
NoTable == [root |-> 0, node |-> [n \in Nodes |-> 0], leaf |-> [v \in VPages |-> 0],
            perm |-> [v \in VPages |-> "none"]]

PGROUNDUP(s) == ((s + PG - 1) \div PG) * PG
Vp(s)        == PGROUNDUP(s) \div PG      \* the first page at or above s

---------------------------------------------------------------------------
(* Operations on page tables.  They take a table and the free pages, and   *)
(* return both and whether they succeeded.                                 *)

Result(t, f, ok) == [t |-> t, free |-> f, ok |-> ok]

\* One level of walk() with alloc = 1: node n is allocated if it is missing.
Level(r, n) ==
  IF ~r.ok \/ r.t.node[n] # 0 THEN r
  ELSE IF r.free = {} THEN Result(r.t, r.free, FALSE)
  ELSE Result([r.t EXCEPT !.node[n] = Min(r.free)], r.free \ {Min(r.free)}, TRUE)

walk(t, f, n1, n0) == Level(Level(Result(t, f, TRUE), n1), n0)

\* kalloc() and mappages() of one user page; the page is freed when walk()
\* fails, nodes stay.
AddPage(t, f, v, perm) ==
  LET m == Min(f)
      r == walk(t, f \ {m}, l1, v \div EPT)
  IN  IF f = {} THEN Result(t, f, FALSE)
      ELSE IF ~r.ok THEN Result(r.t, r.free \cup {m}, FALSE)
      ELSE Result([r.t EXCEPT !.leaf[v] = m, !.perm[v] = perm], r.free, TRUE)

\* uvmunmap() with do_free of the pages from a to b - 1.
uvmunmap(t, f, a, b) ==
  LET V == {v \in VPages : a <= v /\ v < b}
  IN  Result([t EXCEPT !.leaf = [v \in VPages |-> IF v \in V THEN 0 ELSE @[v]],
                       !.perm = [v \in VPages |-> IF v \in V THEN "none" ELSE @[v]]],
             f \cup ({t.leaf[v] : v \in V} \ {0}), TRUE)

\* Mutant: the rounding in uvmdealloc() forgets the last page.
uvmdeallocDown(t, f, old, new) ==
  IF new >= old THEN Result(t, f, TRUE) ELSE uvmunmap(t, f, Vp(new), old \div PG)

uvmdealloc(t, f, old, new) ==
  IF new >= old THEN Result(t, f, TRUE) ELSE uvmunmap(t, f, Vp(new), Vp(old))

\* proc_freepagetable(): pages below s, then all nodes and the root.
proc_freepagetable(t, f, s) ==
  LET u == uvmunmap(t, f, 0, Vp(s))
  IN  u.free \cup (({t.root} \cup {t.node[n] : n \in Nodes}) \ {0})

\* proc_pagetable(): the root and the nodes of trampoline and trapframe; on
\* failure what there is is freed.
proc_pagetable(f) ==
  LET r == Min(f)
      w == walk([NoTable EXCEPT !.root = r], f \ {r}, h1, h0)
  IN  IF f = {} THEN Result(NoTable, f, FALSE)
      ELSE IF w.ok THEN w
      ELSE Result(NoTable, proc_freepagetable(w.t, w.free, 0), FALSE)

\* What a step does to the contents: pages that were freed or allocated are
\* junk, but for those of S, which hold x.
Contents(f, S, x) ==
  content' = [g \in Pages |-> IF g \in S THEN x
                              ELSE IF (g \in free) # (g \in f) THEN Junk ELSE content[g]]

---------------------------------------------------------------------------

Live(p, l) == state[p] = "live" /\ pc[p] = l

Begin(p, l, a, n) ==
  /\ pc' = [pc EXCEPT ![p] = l] /\ at' = [at EXCEPT ![p] = a] /\ nsz' = [nsz EXCEPT ![p] = n]

End(p) == Begin(p, "user", 0, 0)
Step(p) == at' = [at EXCEPT ![p] = @ + 1] /\ UNCHANGED <<pc, nsz>>

\* kinit(), and userinit(): the first process has a trapframe and a page
\* table and will start with kexec("/init").
Init ==
  LET r == proc_pagetable(Pages \ {1})
  IN  /\ free = r.free /\ content = [g \in Pages |-> Junk]
      /\ pt = [p \in Procs |-> IF p = First THEN r.t ELSE NoTable]
      /\ trapframe = [p \in Procs |-> IF p = First THEN 1 ELSE 0]
      /\ state = [p \in Procs |-> IF p = First THEN "live" ELSE "unused"]
      /\ sz = [p \in Procs |-> 0] /\ nsz = [p \in Procs |-> 0] /\ at = [p \in Procs |-> 0]
      /\ pc = [p \in Procs |-> IF p = First THEN "boot" ELSE "user"]
      /\ npt = [p \in Procs |-> NoTable] /\ arg = [p \in Procs |-> 0]
      /\ child = [p \in Procs |-> p]

---------------------------------------------------------------------------
(* sys_sbrk() and page faults *)

\* growproc() with n > 0: up to uvmalloc().
SbrkGrow(p, n) ==
  /\ Live(p, "user") /\ n > 0 /\ sz[p] + n <= NVPAGES * PG
  /\ Begin(p, "grow", Vp(sz[p]), sz[p] + n)
  /\ UNCHANGED <<free, content, table, npt, arg, child>>

\* Mutant: uvmalloc() does not clear the page.
GrowPageDirty(p) ==
  LET r == AddPage(pt[p], free, at[p], "rw")
  IN  /\ Live(p, "grow") /\ at[p] * PG < nsz[p] /\ r.ok
      /\ pt' = [pt EXCEPT ![p] = r.t] /\ free' = r.free
      /\ Contents(r.free, {}, 0)
      /\ Step(p)
      /\ UNCHANGED <<sz, trapframe, state, npt, arg, child>>

\* A round of the loop of uvmalloc(),
GrowPage(p) ==
  LET r == AddPage(pt[p], free, at[p], "rw")
  IN  /\ Live(p, "grow") /\ at[p] * PG < nsz[p] /\ r.ok
      /\ pt' = [pt EXCEPT ![p] = r.t] /\ free' = r.free
      /\ Contents(r.free, {r.t.leaf[at[p]]}, 0)
      /\ Step(p)
      /\ UNCHANGED <<sz, trapframe, state, npt, arg, child>>

\* one for which there is no memory: what was allocated goes,
GrowFails(p) ==
  LET r == AddPage(pt[p], free, at[p], "rw")
      u == uvmdealloc(r.t, r.free, at[p] * PG, PGROUNDUP(sz[p]))
  IN  /\ Live(p, "grow") /\ at[p] * PG < nsz[p] /\ ~r.ok
      /\ pt' = [pt EXCEPT ![p] = u.t] /\ free' = u.free
      /\ Contents(u.free, {}, 0)
      /\ End(p)
      /\ UNCHANGED <<sz, trapframe, state, npt, arg, child>>

\* and its end.
GrowDone(p) ==
  /\ Live(p, "grow") /\ at[p] * PG >= nsz[p]
  /\ sz' = [sz EXCEPT ![p] = nsz[p]]
  /\ End(p)
  /\ UNCHANGED <<free, content, pt, trapframe, state, npt, arg, child>>

SbrkLazy(p, n) ==
  /\ Live(p, "user") /\ n > 0 /\ sz[p] + n <= NVPAGES * PG
  /\ sz' = [sz EXCEPT ![p] = @ + n]
  /\ UNCHANGED <<free, content, pt, trapframe, state, local>>

\* growproc() with n < 0.  Below zero the new size wraps around to a large
\* one, and uvmdealloc() does nothing.
SbrkShrink(p, n) ==
  LET u == uvmdealloc(pt[p], free, sz[p], sz[p] + n)
  IN  /\ Live(p, "user") /\ n < 0 /\ sz[p] + n >= 0
      /\ pt' = [pt EXCEPT ![p] = u.t] /\ free' = u.free /\ Contents(u.free, {}, 0)
      /\ sz' = [sz EXCEPT ![p] = @ + n]
      /\ UNCHANGED <<trapframe, state, local>>

\* walkaddr() finds the page, and it may be written.
Writable(p, v) == pt[p].perm[v] = "rw"

\* A store of the process, or copyout() for it, to a page that is mapped.
Store(p, v) ==
  /\ Live(p, "user") /\ Writable(p, v)
  /\ content' = [content EXCEPT ![pt[p].leaf[v]] = 1]
  /\ UNCHANGED <<free, table, local>>

\* vmfault() at an address of page v, for a fault in user space or in copyin()
\* and copyout().
VmFault(p, v) ==
  LET r == AddPage(pt[p], free, v, "rw")
  IN  /\ Live(p, "user") /\ v * PG < sz[p] /\ pt[p].leaf[v] = 0 /\ r.ok
      /\ pt' = [pt EXCEPT ![p] = r.t] /\ free' = r.free
      /\ Contents(r.free, {r.t.leaf[v]}, 0)
      /\ UNCHANGED <<sz, trapframe, state, local>>

\* vmfault() without memory.  copyin() and copyout() return -1, usertrap()
\* kills the process; kexit() of the first one is a panic.
VmFaultFails(p, v) ==
  LET r == AddPage(pt[p], free, v, "rw")
  IN  /\ Live(p, "user") /\ v * PG < sz[p] /\ pt[p].leaf[v] = 0 /\ ~r.ok
      /\ pt' = [pt EXCEPT ![p] = r.t] /\ free' = r.free /\ Contents(r.free, {}, 0)
      /\ state' \in {state} \cup {[state EXCEPT ![q] = "zombie"] : q \in {p} \ {First}}
      /\ UNCHANGED <<sz, trapframe, local>>

---------------------------------------------------------------------------
(* kfork(), kexit() and the freeproc() of kwait() *)

\* allocproc(); when it fails it leaves nothing behind.
ForkStart(p, q) ==
  LET r == proc_pagetable(free \ {Min(free)})
  IN  /\ Live(p, "user") /\ state[q] = "unused" /\ free # {} /\ r.ok
      /\ trapframe' = [trapframe EXCEPT ![q] = Min(free)]
      /\ pt' = [pt EXCEPT ![q] = r.t] /\ free' = r.free /\ Contents(r.free, {}, 0)
      /\ state' = [state EXCEPT ![q] = "used"]
      /\ child' = [child EXCEPT ![p] = q]
      /\ Begin(p, "fork", 0, 0)
      /\ UNCHANGED <<sz, npt, arg>>

\* A round of uvmcopy(): a page that is not there is passed over,
ForkSkip(p) ==
  /\ Live(p, "fork") /\ at[p] < Vp(sz[p]) /\ pt[p].leaf[at[p]] = 0
  /\ Step(p)
  /\ UNCHANGED <<free, content, table, npt, arg, child>>

\* Mutant: the child shares the page.
ForkPageShared(p) ==
  LET q == child[p]
      r == AddPage(pt[q], free, at[p], pt[p].perm[at[p]])
      g == pt[p].leaf[at[p]]
  IN  /\ Live(p, "fork") /\ at[p] < Vp(sz[p]) /\ g # 0 /\ r.ok
      /\ pt' = [pt EXCEPT ![q] = [r.t EXCEPT !.leaf[at[p]] = g]]
      /\ free' = r.free \cup {r.t.leaf[at[p]]}
      /\ Contents(free', {}, 0)
      /\ Step(p)
      /\ UNCHANGED <<sz, trapframe, state, npt, arg, child>>

\* one that is there is copied with its permissions,
ForkPage(p) ==
  LET q == child[p]
      r == AddPage(pt[q], free, at[p], pt[p].perm[at[p]])
      g == pt[p].leaf[at[p]]
  IN  /\ Live(p, "fork") /\ at[p] < Vp(sz[p]) /\ g # 0 /\ r.ok
      /\ pt' = [pt EXCEPT ![q] = r.t] /\ free' = r.free
      /\ Contents(r.free, {r.t.leaf[at[p]]}, content[g])
      /\ Step(p)
      /\ UNCHANGED <<sz, trapframe, state, npt, arg, child>>

\* What freeproc() frees of process q, whose page table is t.
freeproc(q, t, f, s) == proc_freepagetable(t, f, s) \cup {trapframe[q]}

\* and when there is no memory the copies are unmapped, and freeproc() with
\* np->sz = 0 frees the rest.
ForkFails(p) ==
  LET q == child[p]
      r == AddPage(pt[q], free, at[p], pt[p].perm[at[p]])
      u == uvmunmap(r.t, r.free, 0, at[p])
      f == freeproc(q, u.t, u.free, sz[q])
  IN  /\ Live(p, "fork") /\ at[p] < Vp(sz[p]) /\ pt[p].leaf[at[p]] # 0 /\ ~r.ok
      /\ free' = f /\ Contents(f, {}, 0)
      /\ pt' = [pt EXCEPT ![q] = NoTable] /\ trapframe' = [trapframe EXCEPT ![q] = 0]
      /\ state' = [state EXCEPT ![q] = "unused"]
      /\ child' = [child EXCEPT ![p] = p]
      /\ End(p)
      /\ UNCHANGED <<sz, npt, arg>>

ForkDone(p) ==
  /\ Live(p, "fork") /\ at[p] >= Vp(sz[p])
  /\ sz' = [sz EXCEPT ![child[p]] = sz[p]]
  /\ state' = [state EXCEPT ![child[p]] = "live"]
  /\ child' = [child EXCEPT ![p] = p]
  /\ End(p)
  /\ UNCHANGED <<free, content, pt, trapframe, npt, arg>>

Exit(p) ==
  /\ Live(p, "user") /\ p # First
  /\ state' = [state EXCEPT ![p] = "zombie"]
  /\ UNCHANGED <<free, content, sz, pt, trapframe, local>>

\* kwait() of the parent.
Reap(q) ==
  LET f == freeproc(q, pt[q], free, sz[q])
  IN  /\ state[q] = "zombie"
      /\ free' = f /\ Contents(f, {}, 0)
      /\ pt' = [pt EXCEPT ![q] = NoTable] /\ trapframe' = [trapframe EXCEPT ![q] = 0]
      /\ sz' = [sz EXCEPT ![q] = 0]
      /\ state' = [state EXCEPT ![q] = "unused"]
      /\ UNCHANGED local

---------------------------------------------------------------------------
(* sys_exec() and kexec() *)

\* sys_exec() copies an argument to a page of its own; kexec() makes a page
\* table.  Without memory for either, nothing is left behind.  The first
\* process calls kexec() directly.
ExecStart(p) ==
  LET a == IF pc[p] = "boot" THEN 0 ELSE Min(free)
      r == proc_pagetable(free \ {a})
  IN  /\ Live(p, "user") \/ Live(p, "boot")
      /\ free # {} /\ r.ok
      /\ arg' = [arg EXCEPT ![p] = a]
      /\ npt' = [npt EXCEPT ![p] = r.t] /\ free' = r.free /\ Contents(r.free, {}, 0)
      /\ Begin(p, "exec", 0, 0)
      /\ UNCHANGED <<table, child>>

\* The size uvmalloc() brings the new image to: the segments, then guard page
\* and stack.
Target(p) == IF nsz[p] = 0 THEN TEXT ELSE TEXT + 2

flags2perm(v) == IF v < TEXT THEN "text" ELSE "rw"

ExecPage(p) ==
  LET r == AddPage(npt[p], free, at[p], flags2perm(at[p]))
  IN  /\ Live(p, "exec") /\ at[p] < Target(p) /\ r.ok
      /\ npt' = [npt EXCEPT ![p] = r.t] /\ free' = r.free
      /\ Contents(r.free, {r.t.leaf[at[p]]}, 0)
      /\ Step(p)
      /\ UNCHANGED <<table, arg, child>>

\* loadseg()
ExecLoad(p) ==
  /\ Live(p, "exec") /\ nsz[p] = 0 /\ at[p] = TEXT
  /\ Contents(free, {npt[p].leaf[v] : v \in 0 .. TEXT - 1}, 1)
  /\ nsz' = [nsz EXCEPT ![p] = TEXT * PG]
  /\ UNCHANGED <<free, table, pc, at, npt, arg, child>>

\* The end of a failed exec: t is the new table, s its size.  When it is the
\* first one that fails, forkret() panics.
ExecEnd(p, t, f, s) ==
  LET g == proc_freepagetable(t, f, s) \cup ({arg[p]} \ {0})
  IN  /\ arg[p] # 0
      /\ free' = g /\ Contents(g, {}, 0)
      /\ npt' = [npt EXCEPT ![p] = NoTable] /\ arg' = [arg EXCEPT ![p] = 0]
      /\ End(p)
      /\ UNCHANGED <<table, child>>

\* uvmalloc() finds no memory.
ExecFails(p) ==
  LET r == AddPage(npt[p], free, at[p], "rw")
      u == uvmdealloc(r.t, r.free, at[p] * PG, nsz[p])
  IN  /\ Live(p, "exec") /\ at[p] < Target(p) /\ ~r.ok
      /\ ExecEnd(p, u.t, u.free, nsz[p])

\* kexec() fails for another reason: not a program, or too many arguments.
ExecBad(p) ==
  /\ Live(p, "exec") /\ at[p] \in {0, TEXT, TEXT + 2}
  /\ ExecEnd(p, npt[p], free, at[p] * PG)

uvmclear(t, v) == [t EXCEPT !.perm[v] = "guard"]

\* Mutant: kexec() frees the old image with the size of the new one.
ExecCommitSize(p) ==
  LET t == uvmclear(npt[p], TEXT)
      f == proc_freepagetable(pt[p], free, (TEXT + 2) * PG) \cup ({arg[p]} \ {0})
  IN  /\ Live(p, "exec") /\ nsz[p] # 0 /\ at[p] = TEXT + 2
      /\ pt' = [pt EXCEPT ![p] = t] /\ npt' = [npt EXCEPT ![p] = NoTable]
      /\ sz' = [sz EXCEPT ![p] = (TEXT + 2) * PG]
      /\ free' = f /\ Contents(f, {t.leaf[TEXT + 1]}, 1)
      /\ arg' = [arg EXCEPT ![p] = 0]
      /\ End(p)
      /\ UNCHANGED <<trapframe, state, child>>

\* uvmclear(), the arguments on the stack, and the change to the new image.
ExecCommit(p) ==
  LET t == uvmclear(npt[p], TEXT)
      f == proc_freepagetable(pt[p], free, sz[p]) \cup ({arg[p]} \ {0})
  IN  /\ Live(p, "exec") /\ nsz[p] # 0 /\ at[p] = TEXT + 2
      /\ pt' = [pt EXCEPT ![p] = t] /\ npt' = [npt EXCEPT ![p] = NoTable]
      /\ sz' = [sz EXCEPT ![p] = (TEXT + 2) * PG]
      /\ free' = f /\ Contents(f, {t.leaf[TEXT + 1]}, 1)
      /\ arg' = [arg EXCEPT ![p] = 0]
      /\ End(p)
      /\ UNCHANGED <<trapframe, state, child>>

---------------------------------------------------------------------------

Sbrk(p)  == (\E n \in Deltas : SbrkGrow(p, n) \/ SbrkLazy(p, n) \/ SbrkShrink(p, n))
            \/ GrowPage(p) \/ GrowFails(p) \/ GrowDone(p)
Touch(p) == \E v \in VPages : Store(p, v) \/ VmFault(p, v) \/ VmFaultFails(p, v)
Fork(p)  == (\E q \in Procs : ForkStart(p, q))
            \/ ForkSkip(p) \/ ForkPage(p) \/ ForkFails(p) \/ ForkDone(p)
Exec(p)  == ExecStart(p) \/ ExecPage(p) \/ ExecLoad(p) \/ ExecFails(p) \/ ExecBad(p) \/ ExecCommit(p)

Next == \E p \in Procs : Sbrk(p) \/ Touch(p) \/ Fork(p) \/ Exec(p) \/ Exit(p) \/ Reap(p)

Spec == Init /\ [][Next]_vars

---------------------------------------------------------------------------

\* Where a page can be in use: at a place of a page table, or as a trapframe
\* or argument of a process.
Places  == {<<"root", 0>>} \cup ({"node"} \X Nodes) \cup ({"leaf"} \X VPages)
Holders == ({"pt", "npt"} \X Procs \X Places) \cup ({"tf", "arg"} \X Procs \X {<<"page", 0>>})

Page(t, s) == CASE s[1] = "root" -> t.root
                [] s[1] = "node" -> t.node[s[2]]
                [] s[1] = "leaf" -> t.leaf[s[2]]
PageAt(h) == CASE h[1] = "pt"  -> Page(pt[h[2]], h[3])
               [] h[1] = "npt" -> Page(npt[h[2]], h[3])
               [] h[1] = "tf"  -> trapframe[h[2]]
               [] h[1] = "arg" -> arg[h[2]]
Held == {h \in Holders : PageAt(h) # 0}

\* Every page is free or in use in one place, and only one: whichever call
\* runs out of memory at whichever page, and whatever others allocate and
\* free meanwhile, no page is lost, shared or freed twice.
PagesOwned ==
  /\ {PageAt(h) : h \in Held} = Pages \ free
  /\ \A h, k \in Held : PageAt(h) = PageAt(k) => h = k

\* A page table has leaves only below the size it will be freed with, so
\* freewalk() meets no leaf, and the page that uvmalloc() or uvmcopy() comes
\* to next is not mapped, so mappages() meets no mapping.  A leaf hangs from
\* nodes that are there, and has permissions.
LeavesInside ==
  \A p \in Procs :
    LET last == CASE pc[p] = "grow" -> at[p] [] OTHER -> Vp(sz[p])
        made == \E q \in Procs : pc[q] = "fork" /\ child[q] = p
    IN  /\ \A v \in VPages : pt[p].leaf[v] # 0 =>
             /\ IF made THEN \E q \in Procs : child[q] = p /\ pc[q] = "fork" /\ v < at[q] ELSE v < last
             /\ pt[p].node[l1] # 0 /\ pt[p].node[v \div EPT] # 0
             /\ pt[p].perm[v] # "none"
        /\ \A v \in VPages : npt[p].leaf[v] # 0 => v < at[p] /\ pc[p] = "exec"

\* The memory of the processes: what is below sz, zero where nothing is
\* mapped yet.
Image == {[v \in VPages |-> IF v >= TEXT + 2 THEN Junk + 1 ELSE IF v = TEXT THEN 0 ELSE 1], [v \in VPages |-> Junk + 1]}
Mem == [p \in Procs |-> [v \in VPages |->
         IF state[p] # "live" \/ v >= Vp(sz[p]) THEN Junk + 1
         ELSE IF pt[p].leaf[v] = 0 THEN 0 ELSE content[pt[p].leaf[v]]]]

Spaces == INSTANCE AddressSpace WITH
            Pages <- VPages, Values <- {0, 1}, Zero <- 0, Absent <- Junk + 1, mem <- Mem

\* Every process has memory of its own: zero when new, copied by fork,
\* replaced as a whole by exec or not at all, and changed by nobody else,
\* whatever pages it comes from and whenever these are allocated.
ImplementsSpaces == Spaces!Spec
=============================================================================
