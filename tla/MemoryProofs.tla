---------------------------- MODULE MemoryProofs ----------------------------
(***************************************************************************)
(* Whatever processes ask for and wherever memory runs out, every page is  *)
(* free or in one place, and page tables have leaves only where they are   *)
(* looked for: for any number of processes and pages.                      *)
(***************************************************************************)
EXTENDS Memory, WellFoundedInduction, TLAPS

Frames == Pages \cup {0}
Perms  == {"none", "text", "rw", "guard"}
Tables == [root : Frames, node : [Nodes -> Frames], leaf : [VPages -> Frames],
           perm : [VPages -> Perms]]

\* Table t and the free pages f have no page in common, and t has none twice.
Apart(t, f) ==
  /\ t \in Tables /\ f \subseteq Pages
  /\ \A s \in Places : Page(t, s) \notin f
  /\ \A r, s \in Places : Page(t, r) = Page(t, s) /\ Page(t, r) # 0 => r = s

\* Table u and the free pages g have the pages that t and f had.
Moves(t, f, u, g) ==
  /\ Apart(u, g)
  /\ \A x \in Pages : (x \in f \/ \E s \in Places : Page(t, s) = x)
                      <=> (x \in g \/ \E s \in Places : Page(u, s) = x)

\* A leaf hangs from nodes that are there and has permissions.
Rooted(t) ==
  \A v \in VPages : t.leaf[v] # 0 =>
    t.node[l1] # 0 /\ t.node[v \div EPT] # 0 /\ t.perm[v] # "none"

\* All leaves of t are below page n.
Below(t, n) == \A v \in VPages : t.leaf[v] # 0 => v < n

---------------------------------------------------------------------------
(* Facts about numbers and sizes.                                           *)

\* kalloc() finds a page if there is one.
LEMMA MinIn ==
  ASSUME NEW S \in SUBSET Pages, S # {}
  PROVE  Min(S) \in S
<1> DEFINE R == OpToRel(<, Nat)
<1>0. S \in SUBSET Nat  BY MemAssumption DEF Pages
<1>1. IsWellFoundedOn(R, Nat)  BY NatLessThanWellFounded, Zenon
<1>2. \A x, y \in Nat : ~(<<y, x>> \in R) => x <= y  BY DEF OpToRel
<1> HIDE DEF R
<1>3. PICK x \in S : \A y \in S : ~(<<y, x>> \in R)  BY <1>0, <1>1, WFMin, Zenon
<1>4. \A y \in S : x <= y  BY <1>0, <1>2, <1>3, Zenon
<1> QED BY <1>4, Zenon DEF Min

\* Division rounds down.
LEMMA DivIs ==
  ASSUME NEW a \in Nat, NEW b \in Nat \ {0}
  PROVE  a \div b \in Nat /\ (a \div b) * b <= a /\ a < (a \div b) * b + b
OBVIOUS

LEMMA TimesLess ==
  ASSUME NEW a \in Nat, NEW b \in Nat, NEW c \in Nat \ {0}
  PROVE  /\ a * c < b * c + c => a <= b
         /\ a * c < b * c => a < b
         /\ a <= b => a * c <= b * c
OBVIOUS

\* Vp() rounds up.
LEMMA VpIs ==
  ASSUME NEW s \in Nat
  PROVE  Vp(s) \in Nat /\ PGROUNDUP(s) = Vp(s) * PG /\ s <= Vp(s) * PG /\ Vp(s) * PG < s + PG
<1> DEFINE q == (s + PG - 1) \div PG
<1>1. PG \in Nat \ {0}  BY MemAssumption, Zenon
<1>2. s + PG - 1 \in Nat  BY <1>1
<1>3. q \in Nat /\ q * PG <= s + PG - 1 /\ s + PG - 1 < q * PG + PG  BY <1>1, <1>2, DivIs, Zenon
<1>4. (q * PG) \div PG = q
  <2> HIDE DEF q
  <2> QED BY <1>1, <1>3
<1>5. Vp(s) = q /\ PGROUNDUP(s) = q * PG  BY <1>4, Zenon DEF Vp, PGROUNDUP
<1> HIDE DEF q
<1> QED BY <1>1, <1>3, <1>5

LEMMA VpFacts ==
  ASSUME NEW a \in Nat, NEW b \in Nat
  PROVE  /\ a <= b => Vp(a) <= Vp(b)
         /\ Vp(a * PG) = a
         /\ Vp(PGROUNDUP(a)) = Vp(a)
         /\ a * PG < b => a < Vp(b)
         /\ a <= b * PG => Vp(a) <= b
         /\ b * PG <= a => b <= Vp(a)
<1>1. PG \in Nat \ {0}  BY MemAssumption, Zenon
<1>2. a * PG \in Nat /\ b * PG \in Nat  BY <1>1
<1>3. ASSUME NEW x \in Nat PROVE Vp(x) \in Nat /\ x <= Vp(x) * PG /\ Vp(x) * PG < x + PG
  BY <1>3, VpIs, Zenon
<1>4. a <= b => Vp(a) <= Vp(b)
  <2> HAVE a <= b
  <2>1. Vp(a) * PG < Vp(b) * PG + PG  BY <1>1, <1>3
  <2> QED BY <1>1, <1>3, <2>1, TimesLess, Zenon
<1>5. ASSUME NEW x \in Nat PROVE Vp(x * PG) = x
  <2>1. x * PG \in Nat  BY <1>1
  <2>2. Vp(x * PG) * PG < x * PG + PG /\ x * PG <= Vp(x * PG) * PG /\ Vp(x * PG) \in Nat  BY <1>3, <2>1, Zenon
  <2>3. x * PG < Vp(x * PG) * PG + PG  BY <1>1, <2>1, <2>2
  <2>4. Vp(x * PG) <= x /\ x <= Vp(x * PG)  BY <1>1, <2>2, <2>3, TimesLess, Zenon
  <2> QED BY <2>2, <2>4
<1>6. Vp(PGROUNDUP(a)) = Vp(a)  BY <1>3, <1>5, VpIs, Zenon
<1>7. a * PG < b => a < Vp(b)
  <2> HAVE a * PG < b
  <2>1. a * PG < Vp(b) * PG  BY <1>1, <1>2, <1>3
  <2> QED BY <1>1, <1>3, <2>1, TimesLess, Zenon
<1>8. a <= b * PG => Vp(a) <= b
  <2> HAVE a <= b * PG
  <2>1. Vp(a) * PG < b * PG + PG  BY <1>1, <1>2, <1>3
  <2> QED BY <1>1, <1>3, <2>1, TimesLess, Zenon
<1>9. b * PG <= a => b <= Vp(a)
  <2> HAVE b * PG <= a
  <2>1. b * PG < Vp(a) * PG + PG  BY <1>1, <1>2, <1>3
  <2> QED BY <1>1, <1>3, <2>1, TimesLess, Zenon
<1> QED BY <1>4, <1>5, <1>6, <1>7, <1>8, <1>9, Zenon

---------------------------------------------------------------------------
(* Facts about one page table and the free pages.                           *)

\* The places of a table by what they are.
LEMMA PageIs ==
  ASSUME NEW t
  PROVE  /\ Page(t, <<"root", 0>>) = t.root
         /\ \A n \in Nodes : Page(t, <<"node", n>>) = t.node[n]
         /\ \A v \in VPages : Page(t, <<"leaf", v>>) = t.leaf[v]
BY Zenon DEF Page

LEMMA PlaceCases ==
  ASSUME NEW s \in Places
  PROVE  \/ s = <<"root", 0>>
         \/ \E n \in Nodes : s = <<"node", n>>
         \/ \E v \in VPages : s = <<"leaf", v>>
BY DEF Places

LEMMA PlaceIn ==
  /\ <<"root", 0>> \in Places
  /\ \A n \in Nodes : <<"node", n>> \in Places
  /\ \A v \in VPages : <<"leaf", v>> \in Places
BY Zenon DEF Places

LEMMA NotAPage == 0 \notin Pages
BY MemAssumption DEF Pages

LEMMA PageType ==
  ASSUME NEW t \in Tables, NEW s \in Places
  PROVE  Page(t, s) \in Frames
<1>1. t.root \in Frames /\ (\A n \in Nodes : t.node[n] \in Frames) /\ (\A v \in VPages : t.leaf[v] \in Frames)
  BY Zenon DEF Tables
<1> QED BY <1>1, PlaceCases, PageIs

LEMMA MovesTrans ==
  ASSUME NEW t, NEW f, NEW u, NEW g, NEW w, NEW h, Moves(t, f, u, g), Moves(u, g, w, h)
  PROVE  Moves(t, f, w, h)
BY Zenon DEF Moves

LEMMA MovesSame ==
  ASSUME NEW t, NEW f, NEW u, Apart(t, f), u \in Tables, \A s \in Places : Page(u, s) = Page(t, s)
  PROVE  Moves(t, f, u, f)
BY Zenon DEF Moves, Apart

\* A free page is put where there was none.
LEMMA MovesIn ==
  ASSUME NEW t, NEW f, Apart(t, f), NEW m \in f, NEW u \in Tables,
         NEW z \in Places, Page(t, z) = 0, Page(u, z) = m,
         \A s \in Places : s # z => Page(u, s) = Page(t, s)
  PROVE  Moves(t, f, u, f \ {m})
<1>1. m \in Pages /\ m # 0 /\ f \ {m} \subseteq Pages  BY NotAPage, Zenon DEF Apart
<1>2. \A s \in Places : Page(u, s) \notin f \ {m}  BY Zenon DEF Apart
<1>3. \A r, s \in Places : Page(u, r) = Page(u, s) /\ Page(u, r) # 0 => r = s
  <2> TAKE r, s \in Places
  <2> HAVE Page(u, r) = Page(u, s) /\ Page(u, r) # 0
  <2>1. \A k \in Places : Page(t, k) # m  BY Zenon DEF Apart
  <2> QED BY <2>1, Zenon DEF Apart
<1>4. ASSUME NEW x \in Pages
      PROVE  (x \in f \/ \E s \in Places : Page(t, s) = x)
             <=> (x \in f \ {m} \/ \E s \in Places : Page(u, s) = x)
  <2>1. CASE x = m  BY <2>1, Zenon
  <2>2. CASE x # m
    <3>1. x # 0  BY NotAPage, Zenon
    <3>2. \A s \in Places : Page(t, s) = x <=> Page(u, s) = x  BY <2>2, <3>1, Zenon
    <3> QED BY <2>2, <3>2, Zenon
  <2> QED BY <2>1, <2>2, Zenon
<1> QED BY <1>1, <1>2, <1>3, <1>4, Zenon DEF Moves, Apart

\* Pages are freed from the places where there are none any more.
LEMMA MovesOut ==
  ASSUME NEW t, NEW f, Apart(t, f), NEW u \in Tables, NEW G \in SUBSET Pages,
         \A s \in Places : Page(u, s) = IF Page(t, s) \in G THEN 0 ELSE Page(t, s),
         \A x \in G : \E s \in Places : Page(t, s) = x
  PROVE  Moves(t, f, u, f \cup G)
<1>1. f \cup G \subseteq Pages  BY Zenon DEF Apart
<1>2. \A s \in Places : Page(u, s) \notin f \cup G
  <2> TAKE s \in Places
  <2>1. CASE Page(t, s) \in G  BY <1>1, <2>1, NotAPage, Zenon
  <2>2. CASE Page(t, s) \notin G  BY <2>2, Zenon DEF Apart
  <2> QED BY <2>1, <2>2, Zenon
<1>3. \A r, s \in Places : Page(u, r) = Page(u, s) /\ Page(u, r) # 0 => r = s
  BY Zenon DEF Apart
<1>4. ASSUME NEW x \in Pages
      PROVE  (x \in f \/ \E s \in Places : Page(t, s) = x)
             <=> (x \in f \cup G \/ \E s \in Places : Page(u, s) = x)
  <2>1. x # 0  BY NotAPage, Zenon
  <2>2. CASE x \in G  BY <2>2, Zenon
  <2>3. CASE x \notin G
    <3>1. \A s \in Places : Page(t, s) = x <=> Page(u, s) = x  BY <2>1, <2>3, Zenon
    <3> QED BY <2>3, <3>1, Zenon
  <2> QED BY <2>2, <2>3, Zenon
<1> QED BY <1>1, <1>2, <1>3, <1>4, Zenon DEF Moves, Apart

\* What a table has of another one after walk(): the same leaves, no node less.
Grown(t, u) ==
  /\ u.root = t.root /\ u.leaf = t.leaf /\ u.perm = t.perm
  /\ \A n \in Nodes : t.node[n] # 0 => u.node[n] # 0

IsResult(r) == r = Result(r.t, r.free, r.ok)

\* Setting a node or a leaf.
WithNode(t, n, m)    == [t EXCEPT !.node[n] = m]
WithLeaf(t, v, m, x) == [t EXCEPT !.leaf[v] = m, !.perm[v] = x]

LEMMA SetNode ==
  ASSUME NEW t \in Tables, NEW n \in Nodes, NEW m \in Frames, NEW u, u = WithNode(t, n, m)
  PROVE  /\ u \in Tables /\ u.root = t.root /\ u.leaf = t.leaf /\ u.perm = t.perm
         /\ u.node[n] = m /\ \A k \in Nodes : k # n => u.node[k] = t.node[k]
BY Zenon DEF Tables, WithNode

LEMMA SetLeaf ==
  ASSUME NEW t \in Tables, NEW v \in VPages, NEW m \in Frames, NEW x \in Perms, NEW u,
         u = WithLeaf(t, v, m, x)
  PROVE  /\ u \in Tables /\ u.root = t.root /\ u.node = t.node
         /\ u.leaf[v] = m /\ u.perm[v] = x
         /\ \A k \in VPages : k # v => u.leaf[k] = t.leaf[k] /\ u.perm[k] = t.perm[k]
BY Zenon DEF Tables, WithLeaf

\* One level of walk() takes at most one free page.
LEMMA LevelOk ==
  ASSUME NEW r, IsResult(r), Apart(r.t, r.free), NEW n \in Nodes, NEW u, u = Level(r, n), r.ok \in BOOLEAN
  PROVE  /\ IsResult(u) /\ u.ok \in BOOLEAN /\ Moves(r.t, r.free, u.t, u.free) /\ Grown(r.t, u.t)
         /\ u.ok => r.ok /\ u.t.node[n] # 0
<1>0. Moves(r.t, r.free, r.t, r.free)  BY MovesSame, Zenon DEF Apart
<1>1. CASE ~r.ok \/ r.t.node[n] # 0
  <2>1. u = r  BY <1>1, Zenon DEF Level
  <2> QED BY <1>0, <1>1, <2>1, Zenon DEF Grown
<1>2. CASE r.ok /\ r.t.node[n] = 0 /\ r.free = {}
  <2>1. u = Result(r.t, r.free, FALSE)  BY <1>2, Zenon DEF Level
  <2>2. u.t = r.t /\ u.free = r.free /\ u.ok = FALSE  BY <2>1 DEF Result
  <2> QED BY <1>0, <2>1, <2>2, Zenon DEF Grown, IsResult
<1>3. CASE r.ok /\ r.t.node[n] = 0 /\ r.free # {}
  <2> DEFINE m == Min(r.free)
  <2>0. PICK w : w = WithNode(r.t, n, m)  BY Zenon
  <2>1. u = Result(w, r.free \ {m}, TRUE)  BY <1>3, <2>0, Zenon DEF Level, WithNode
  <2>2. u.t = w /\ u.free = r.free \ {m} /\ u.ok = TRUE  BY <2>1 DEF Result
  <2>3. m \in r.free /\ m \in Frames /\ m # 0  BY <1>3, MinIn, NotAPage, Zenon DEF Apart, Frames
  <2>4. r.t \in Tables  BY Zenon DEF Apart
  <2> HIDE DEF m
  <2>5. /\ w \in Tables /\ w.root = r.t.root /\ w.leaf = r.t.leaf /\ w.perm = r.t.perm
        /\ w.node[n] = m /\ \A k \in Nodes : k # n => w.node[k] = r.t.node[k]
    BY <2>0, <2>3, <2>4, SetNode
  <2>6. Page(r.t, <<"node", n>>) = 0 /\ Page(w, <<"node", n>>) = m  BY <1>3, <2>5, PageIs, Zenon
  <2>7. ASSUME NEW s \in Places, s # <<"node", n>> PROVE Page(w, s) = Page(r.t, s)
    <3>1. CASE s = <<"root", 0>>  BY <2>5, <3>1, PageIs, ZenonT(60)
    <3>2. ASSUME NEW k \in Nodes, s = <<"node", k>> PROVE Page(w, s) = Page(r.t, s)
      <4>1. k # n  BY <2>7, <3>2, Zenon
      <4> QED BY <2>5, <3>2, <4>1, PageIs, ZenonT(60)
    <3>3. ASSUME NEW v \in VPages, s = <<"leaf", v>> PROVE Page(w, s) = Page(r.t, s)
      <4>1. Page(w, s) = w.leaf[v] /\ Page(r.t, s) = r.t.leaf[v]  BY <3>3, PageIs, Zenon
      <4> QED BY <2>5, <4>1, Zenon
    <3> QED BY <3>1, <3>2, <3>3, PlaceCases, Zenon
  <2>8. Moves(r.t, r.free, w, r.free \ {m})  BY <2>3, <2>5, <2>6, <2>7, MovesIn, PlaceIn, Zenon
  <2> QED BY <1>3, <2>1, <2>2, <2>3, <2>5, <2>8, Zenon DEF Grown, IsResult
<1> QED BY <1>1, <1>2, <1>3, Zenon

LEMMA WalkOk ==
  ASSUME NEW t, NEW f, Apart(t, f), NEW a \in Nodes, NEW b \in Nodes, NEW u, u = walk(t, f, a, b)
  PROVE  /\ IsResult(u) /\ u.ok \in BOOLEAN /\ Moves(t, f, u.t, u.free) /\ Grown(t, u.t)
         /\ u.ok => u.t.node[a] # 0 /\ u.t.node[b] # 0
<1> DEFINE r == Result(t, f, TRUE)  w == Level(r, a)
<1>1. r.t = t /\ r.free = f /\ r.ok = TRUE /\ IsResult(r)  BY Zenon DEF Result, IsResult
<1>2. u = Level(w, b)  BY Zenon DEF walk
<1> HIDE DEF r
<1>3. /\ IsResult(w) /\ w.ok \in BOOLEAN /\ Moves(r.t, r.free, w.t, w.free) /\ Grown(r.t, w.t)
      /\ w.ok => r.ok /\ w.t.node[a] # 0
  BY <1>1, LevelOk, Zenon
<1> HIDE DEF w
<1>4. Apart(w.t, w.free)  BY <1>3, Zenon DEF Moves
<1>5. /\ IsResult(u) /\ u.ok \in BOOLEAN /\ Moves(w.t, w.free, u.t, u.free) /\ Grown(w.t, u.t)
      /\ u.ok => w.ok /\ u.t.node[b] # 0
  BY <1>2, <1>3, <1>4, LevelOk, Zenon
<1>6. Moves(t, f, u.t, u.free)  BY <1>1, <1>3, <1>5, MovesTrans, Zenon
<1>7. Grown(t, u.t)  BY <1>1, <1>3, <1>5, Zenon DEF Grown
<1> QED BY <1>1, <1>3, <1>5, <1>6, <1>7, Zenon DEF Grown

\* A page that was set aside is free again.
LEMMA MovesBack ==
  ASSUME NEW t, NEW f, Apart(t, f), NEW m \in f, NEW u, NEW g, Moves(t, f \ {m}, u, g)
  PROVE  Moves(t, f, u, g \cup {m}) /\ m \notin g
<1>1. m \in Pages /\ \A s \in Places : Page(t, s) # m  BY Zenon DEF Apart
<1>2. m \notin g /\ \A s \in Places : Page(u, s) # m  BY <1>1, Zenon DEF Moves
<1>3. Apart(u, g)  BY Zenon DEF Moves
<1>4. Apart(u, g \cup {m})  BY <1>1, <1>2, <1>3, Zenon DEF Apart
<1>5. ASSUME NEW x \in Pages
      PROVE  (x \in f \/ \E s \in Places : Page(t, s) = x)
             <=> (x \in g \cup {m} \/ \E s \in Places : Page(u, s) = x)
  <2>1. CASE x = m  BY <2>1, Zenon
  <2>2. CASE x # m  BY <2>2, Zenon DEF Moves
  <2> QED BY <2>1, <2>2, Zenon
<1> QED BY <1>2, <1>4, <1>5, Zenon DEF Moves

LEMMA NodeOf ==
  l1 \in Nodes /\ h1 \in Nodes /\ h0 \in Nodes /\ \A v \in VPages : v \div EPT \in Nodes
BY Zenon DEF Nodes

\* What AddPage() does, whether it finds the memory or not.
Added(t, f, u, g, ok, v, x) ==
  /\ Moves(t, f, u, g) /\ ok \in BOOLEAN
  /\ \A n \in Nodes : t.node[n] # 0 => u.node[n] # 0
  /\ \A k \in VPages : k # v => u.leaf[k] = t.leaf[k] /\ u.perm[k] = t.perm[k]
  /\ ok => u.leaf[v] \in f /\ u.perm[v] = x /\ u.node[l1] # 0 /\ u.node[v \div EPT] # 0
  /\ ~ok => u.leaf[v] = t.leaf[v] /\ u.perm[v] = t.perm[v]

LEMMA AddPageOk ==
  ASSUME NEW t, NEW f, Apart(t, f), NEW v \in VPages, t.leaf[v] = 0, NEW x \in Perms,
         NEW u, u = AddPage(t, f, v, x)
  PROVE  Added(t, f, u.t, u.free, u.ok, v, x)
<1>1. CASE f = {}
  <2>1. u = Result(t, f, FALSE)  BY <1>1, Zenon DEF AddPage
  <2>2. u.t = t /\ u.free = f /\ u.ok = FALSE  BY <2>1 DEF Result
  <2>3. Moves(t, f, t, f)  BY MovesSame, Zenon DEF Apart
  <2> QED BY <2>2, <2>3, Zenon DEF Added
<1>2. CASE f # {}
  <2>0. PICK m, r : m = Min(f) /\ r = walk(t, f \ {m}, l1, v \div EPT)  BY Zenon
  <2>1. m \in f /\ m \in Pages  BY <1>2, <2>0, MinIn, Zenon DEF Apart
  <2>2. Apart(t, f \ {m})  BY Zenon DEF Apart
  <2>3. /\ Moves(t, f \ {m}, r.t, r.free) /\ Grown(t, r.t) /\ r.ok \in BOOLEAN
        /\ r.ok => r.t.node[l1] # 0 /\ r.t.node[v \div EPT] # 0
    BY <2>0, <2>2, NodeOf, WalkOk, Zenon
  <2>4. Moves(t, f, r.t, r.free \cup {m}) /\ m \notin r.free  BY <2>1, <2>3, MovesBack, Zenon
  <2>5. r.t.leaf = t.leaf /\ r.t.perm = t.perm /\ \A n \in Nodes : t.node[n] # 0 => r.t.node[n] # 0
    BY <2>3, Zenon DEF Grown
  <2>6. CASE ~r.ok
    <3>1. u = Result(r.t, r.free \cup {m}, FALSE)  BY <1>2, <2>0, <2>6, Zenon DEF AddPage
    <3>2. u.t = r.t /\ u.free = r.free \cup {m} /\ u.ok = FALSE  BY <3>1 DEF Result
    <3> QED BY <2>4, <2>5, <3>2, Zenon DEF Added
  <2>7. CASE r.ok
    <3>0. PICK w : w = WithLeaf(r.t, v, m, x)  BY Zenon
    <3>1. u = Result(w, r.free, TRUE)  BY <1>2, <2>0, <2>7, <3>0, Zenon DEF AddPage, WithLeaf
    <3>2. u.t = w /\ u.free = r.free /\ u.ok = TRUE  BY <3>1 DEF Result
    <3>3. Apart(r.t, r.free \cup {m}) /\ r.t \in Tables /\ m \in Frames
      BY <2>1, <2>4, Zenon DEF Moves, Apart, Frames
    <3>4. /\ w \in Tables /\ w.root = r.t.root /\ w.node = r.t.node
          /\ w.leaf[v] = m /\ w.perm[v] = x
          /\ \A k \in VPages : k # v => w.leaf[k] = r.t.leaf[k] /\ w.perm[k] = r.t.perm[k]
      BY <3>0, <3>3, SetLeaf
    <3>5. Page(r.t, <<"leaf", v>>) = 0 /\ Page(w, <<"leaf", v>>) = m
      <4>1. Page(r.t, <<"leaf", v>>) = r.t.leaf[v] /\ Page(w, <<"leaf", v>>) = w.leaf[v]  BY PageIs, Zenon
      <4> QED BY <2>5, <3>4, <4>1, Zenon
    <3>6. ASSUME NEW s \in Places, s # <<"leaf", v>> PROVE Page(w, s) = Page(r.t, s)
      <4>1. CASE s = <<"root", 0>>
        <5>1. Page(w, s) = w.root /\ Page(r.t, s) = r.t.root  BY <4>1, PageIs, Zenon
        <5> QED BY <3>4, <5>1, Zenon
      <4>2. ASSUME NEW k \in Nodes, s = <<"node", k>> PROVE Page(w, s) = Page(r.t, s)
        <5>1. Page(w, s) = w.node[k] /\ Page(r.t, s) = r.t.node[k]  BY <4>2, PageIs, Zenon
        <5> QED BY <3>4, <5>1, Zenon
      <4>3. ASSUME NEW k \in VPages, s = <<"leaf", k>> PROVE Page(w, s) = Page(r.t, s)
        <5>1. k # v  BY <3>6, <4>3, Zenon
        <5>2. Page(w, s) = w.leaf[k] /\ Page(r.t, s) = r.t.leaf[k]  BY <4>3, PageIs, Zenon
        <5> QED BY <3>4, <5>1, <5>2, Zenon
      <4> QED BY <4>1, <4>2, <4>3, PlaceCases, Zenon
    <3>7. PICK F, g : F = r.free \cup {m} /\ g = F \ {m}  BY Zenon
    <3>8. Moves(r.t, F, w, g)  BY <3>3, <3>4, <3>5, <3>6, <3>7, MovesIn, PlaceIn, Zenon
    <3>9. g = r.free  BY <2>4, <3>7, Zenon
    <3>10. Moves(t, f, w, g)
      <4>1. Moves(t, f, r.t, F)  BY <2>4, <3>7, Zenon
      <4> QED BY <3>8, <4>1, MovesTrans, Zenon
    <3>11. w.leaf[v] \in f /\ w.perm[v] = x /\ w.node[l1] # 0 /\ w.node[v \div EPT] # 0
      BY <2>1, <2>3, <2>7, <3>2, <3>4, Zenon
    <3>12. Added(t, f, w, g, TRUE, v, x)  BY <2>5, <3>4, <3>10, <3>11, Zenon DEF Added
    <3> QED BY <3>2, <3>9, <3>12, Zenon
  <2> QED BY <2>3, <2>6, <2>7, Zenon
<1> QED BY <1>1, <1>2, Zenon

\* Its effect on the shape of a table.
LEMMA AddedShape ==
  ASSUME NEW t, NEW f, f \subseteq Pages, NEW u, NEW g, NEW ok, NEW v \in VPages, NEW x,
         Added(t, f, u, g, ok, v, x)
  PROVE  /\ Rooted(t) /\ x # "none" => Rooted(u)
         /\ \A n \in Nat : Below(t, n) /\ (ok => v < n) => Below(u, n)
         /\ ok => u.leaf[v] # 0
<1>1. ok => u.leaf[v] # 0  BY NotAPage, Zenon DEF Added
<1>2. Rooted(t) /\ x # "none" => Rooted(u)
  <2> SUFFICES ASSUME Rooted(t), x # "none", NEW k \in VPages, u.leaf[k] # 0
               PROVE  u.node[l1] # 0 /\ u.node[k \div EPT] # 0 /\ u.perm[k] # "none"
    BY Zenon DEF Rooted
  <2>1. CASE k # v  BY <2>1, NodeOf, Zenon DEF Rooted, Added
  <2>2. CASE k = v /\ ok = TRUE  BY <2>2, Zenon DEF Added
  <2>3. CASE k = v /\ ok = FALSE  BY <2>3, NodeOf, Zenon DEF Rooted, Added
  <2> QED BY <2>1, <2>2, <2>3, Zenon DEF Added
<1>3. ASSUME NEW n \in Nat, Below(t, n), ok => v < n, NEW k \in VPages, u.leaf[k] # 0 PROVE k < n
  <2>1. CASE k # v  BY <1>3, <2>1, Zenon DEF Below, Added
  <2>2. CASE k = v /\ ok  BY <1>3, <2>2, Zenon
  <2>3. CASE k = v /\ ~ok  BY <1>3, <2>3, Zenon DEF Below, Added
  <2> QED BY <2>1, <2>2, <2>3, Zenon
<1> QED BY <1>1, <1>2, <1>3, Zenon DEF Below

\* Table u is t without the leaves from a to b - 1.
Cleared(t, u, a, b) ==
  /\ u \in Tables /\ u.root = t.root /\ u.node = t.node
  /\ \A v \in VPages : IF a <= v /\ v < b THEN u.leaf[v] = 0
                       ELSE u.leaf[v] = t.leaf[v] /\ u.perm[v] = t.perm[v]

LEMMA UnmapOk ==
  ASSUME NEW t, NEW f, Apart(t, f), NEW a \in Nat, NEW b \in Nat, NEW u, u = uvmunmap(t, f, a, b)
  PROVE  Moves(t, f, u.t, u.free) /\ Cleared(t, u.t, a, b)
<1> DEFINE V == {v \in VPages : a <= v /\ v < b}
<1>0. PICK w : w = [t EXCEPT !.leaf = [v \in VPages |-> IF v \in V THEN 0 ELSE @[v]],
                             !.perm = [v \in VPages |-> IF v \in V THEN "none" ELSE @[v]]]
  BY Zenon
<1>1. PICK G : G = {t.leaf[v] : v \in V} \ {0}  BY Zenon
<1>2. u = Result(w, f \cup G, TRUE)  BY <1>0, <1>1, Zenon DEF uvmunmap
<1>3. u.t = w /\ u.free = f \cup G  BY <1>2 DEF Result
<1>4. t \in Tables  BY Zenon DEF Apart
<1>5. w \in Tables /\ w.root = t.root /\ w.node = t.node
  BY <1>0, <1>4, Zenon DEF Tables, Frames, Perms
<1>6. \A v \in VPages : w.leaf[v] = (IF v \in V THEN 0 ELSE t.leaf[v])
                        /\ (v \notin V => w.perm[v] = t.perm[v])
  BY <1>0, <1>4, Zenon DEF Tables
<1>7. Cleared(t, w, a, b)  BY <1>5, <1>6, Zenon DEF Cleared
<1>8. \A v \in VPages : t.leaf[v] \in Frames  BY <1>4, Zenon DEF Tables
<1>9. G \in SUBSET Pages  BY <1>1, <1>8, Zenon DEF Frames
<1>10. \A v \in VPages : t.leaf[v] = Page(t, <<"leaf", v>>) /\ <<"leaf", v>> \in Places  BY PageIs, PlaceIn, Zenon
<1>11. \A x \in G : \E s \in Places : Page(t, s) = x  BY <1>1, <1>10, Zenon
<1>12. ASSUME NEW s \in Places, Page(t, s) \in G
       PROVE  \E v \in V : s = <<"leaf", v>>
  <2>1. PICK v \in V : Page(t, s) = t.leaf[v] /\ t.leaf[v] # 0  BY <1>1, <1>12, Zenon
  <2>2. Page(t, s) = Page(t, <<"leaf", v>>) /\ Page(t, s) # 0  BY <1>10, <2>1, Zenon
  <2>3. s = <<"leaf", v>>  BY <1>10, <2>2, Zenon DEF Apart
  <2> QED BY <2>3, Zenon
<1>13. ASSUME NEW s \in Places PROVE Page(w, s) = IF Page(t, s) \in G THEN 0 ELSE Page(t, s)
  <2>1. CASE s = <<"root", 0>>
    <3>1. Page(t, s) \notin G  BY <1>12, <2>1, Zenon
    <3>2. Page(w, s) = w.root /\ Page(t, s) = t.root  BY <2>1, PageIs, Zenon
    <3> QED BY <1>5, <3>1, <3>2, Zenon
  <2>2. ASSUME NEW n \in Nodes, s = <<"node", n>> PROVE Page(w, s) = IF Page(t, s) \in G THEN 0 ELSE Page(t, s)
    <3>1. Page(t, s) \notin G  BY <1>12, <2>2, Zenon
    <3>2. Page(w, s) = w.node[n] /\ Page(t, s) = t.node[n]  BY <2>2, PageIs, Zenon
    <3> QED BY <1>5, <3>1, <3>2, Zenon
  <2>3. ASSUME NEW v \in VPages, s = <<"leaf", v>> PROVE Page(w, s) = IF Page(t, s) \in G THEN 0 ELSE Page(t, s)
    <3>1. Page(w, s) = w.leaf[v] /\ Page(t, s) = t.leaf[v]  BY <2>3, PageIs, Zenon
    <3>2. CASE v \in V
      <4>1. w.leaf[v] = 0  BY <1>6, <3>2, Zenon
      <4>2. t.leaf[v] \in G \/ t.leaf[v] = 0  BY <1>1, <3>2, Zenon
      <4>3. 0 \notin G  BY <1>1, Zenon
      <4> QED BY <3>1, <4>1, <4>2, <4>3, Zenon
    <3>3. CASE v \notin V
      <4>1. Page(t, s) \notin G  BY <1>12, <2>3, <3>3, Zenon
      <4> QED BY <1>6, <3>1, <3>3, <4>1, Zenon
    <3> QED BY <3>2, <3>3, Zenon
  <2> QED BY <2>1, <2>2, <2>3, PlaceCases, Zenon
<1>14. Moves(t, f, w, f \cup G)  BY <1>5, <1>9, <1>11, <1>13, MovesOut, Zenon
<1> QED BY <1>3, <1>7, <1>14, Zenon

\* uvmdealloc(): the leaves from the new size on are gone.
LEMMA DeallocOk ==
  ASSUME NEW t, NEW f, Apart(t, f), NEW old \in Nat, NEW new \in Nat,
         Below(t, Vp(old)), NEW u, u = uvmdealloc(t, f, old, new)
  PROVE  /\ Moves(t, f, u.t, u.free) /\ Below(u.t, Vp(new)) /\ u.t.node = t.node
         /\ Rooted(t) => Rooted(u.t)
         /\ \A v \in VPages : v < Vp(new) => u.t.leaf[v] = t.leaf[v] /\ u.t.perm[v] = t.perm[v]
<1>1. Vp(old) \in Nat /\ Vp(new) \in Nat  BY VpIs, Zenon
<1>2. CASE new >= old
  <2>1. u = Result(t, f, TRUE)  BY <1>2, Zenon DEF uvmdealloc
  <2>2. u.t = t /\ u.free = f  BY <2>1 DEF Result
  <2>3. Moves(t, f, t, f)  BY MovesSame, Zenon DEF Apart
  <2>4. Vp(old) <= Vp(new)  BY <1>2, VpFacts, Zenon
  <2>5. Below(t, Vp(new))  BY <1>1, <2>4 DEF Below, VPages
  <2> QED BY <2>2, <2>3, <2>5, Zenon
<1>3. CASE ~(new >= old)
  <2>1. u = uvmunmap(t, f, Vp(new), Vp(old))  BY <1>3, Zenon DEF uvmdealloc
  <2>2. Moves(t, f, u.t, u.free) /\ Cleared(t, u.t, Vp(new), Vp(old))  BY <1>1, <2>1, UnmapOk, Zenon
  <2>3. ASSUME NEW v \in VPages PROVE (u.t.leaf[v] # 0 => v < Vp(new)) /\ (u.t.leaf[v] # 0 => u.t.leaf[v] = t.leaf[v] /\ u.t.perm[v] = t.perm[v])
    <3>1. v \in Int /\ (t.leaf[v] # 0 => v < Vp(old))  BY DEF Below, VPages
    <3>2. IF Vp(new) <= v /\ v < Vp(old) THEN u.t.leaf[v] = 0 ELSE u.t.leaf[v] = t.leaf[v] /\ u.t.perm[v] = t.perm[v]
      BY <2>2, Zenon DEF Cleared
    <3> QED BY <1>1, <3>1, <3>2
  <2>4. \A v \in VPages : v < Vp(new) => ~(Vp(new) <= v)  BY <1>1 DEF VPages
  <2>5. \A v \in VPages : v < Vp(new) => u.t.leaf[v] = t.leaf[v] /\ u.t.perm[v] = t.perm[v]
    BY <2>2, <2>4, Zenon DEF Cleared
  <2>6. u.t.node = t.node  BY <2>2, Zenon DEF Cleared
  <2>7. Rooted(t) => Rooted(u.t)
    <3> SUFFICES ASSUME Rooted(t), NEW v \in VPages, u.t.leaf[v] # 0
                 PROVE  u.t.node[l1] # 0 /\ u.t.node[v \div EPT] # 0 /\ u.t.perm[v] # "none"
      BY Zenon DEF Rooted
    <3> QED BY <2>3, <2>6, Zenon DEF Rooted
  <2> QED BY <2>2, <2>3, <2>5, <2>6, <2>7, Zenon DEF Below
<1> QED BY <1>2, <1>3, Zenon

LEMMA NoTableIs ==
  /\ NoTable \in Tables /\ \A s \in Places : Page(NoTable, s) = 0
  /\ Rooted(NoTable) /\ \A n \in Nat : Below(NoTable, n)
<1>1. NoTable \in Tables  BY Zenon DEF NoTable, Tables, Frames, Perms
<1>2. /\ NoTable.root = 0 /\ \A n \in Nodes : NoTable.node[n] = 0
      /\ \A v \in VPages : NoTable.leaf[v] = 0
  BY Zenon DEF NoTable
<1>3. ASSUME NEW s \in Places PROVE Page(NoTable, s) = 0  BY <1>2, PlaceCases, PageIs
<1> QED BY <1>1, <1>2, <1>3, Zenon DEF Rooted, Below

LEMMA EmptyApart ==
  ASSUME NEW f \in SUBSET Pages
  PROVE  Apart(NoTable, f)
BY NoTableIs, NotAPage, Zenon DEF Apart

\* proc_freepagetable() with a size above all leaves frees every page of the table.
LEMMA FreeTableOk ==
  ASSUME NEW t, NEW f, Apart(t, f), NEW s \in Nat, Below(t, Vp(s)), NEW g, g = proc_freepagetable(t, f, s)
  PROVE  Moves(t, f, NoTable, g)
<1>0. PICK u : u = uvmunmap(t, f, 0, Vp(s))  BY Zenon
<1>1. Vp(s) \in Nat  BY VpIs, Zenon
<1>2. Moves(t, f, u.t, u.free) /\ Cleared(t, u.t, 0, Vp(s))  BY <1>0, <1>1, UnmapOk, Zenon
<1>3. PICK G : G = ({t.root} \cup {t.node[n] : n \in Nodes}) \ {0}  BY Zenon
<1>4. g = u.free \cup G  BY <1>0, <1>3, Zenon DEF proc_freepagetable
<1>5. Apart(u.t, u.free) /\ u.t \in Tables /\ u.t.root = t.root /\ u.t.node = t.node
  BY <1>2, Zenon DEF Moves, Cleared
<1>6. ASSUME NEW v \in VPages PROVE u.t.leaf[v] = 0
  <2>1. 0 <= v /\ (t.leaf[v] # 0 => v < Vp(s))  BY DEF Below, VPages
  <2> QED BY <1>2, <2>1, Zenon DEF Cleared
<1>7. /\ Page(u.t, <<"root", 0>>) = t.root /\ \A n \in Nodes : Page(u.t, <<"node", n>>) = t.node[n]
      /\ \A v \in VPages : Page(u.t, <<"leaf", v>>) = 0
  BY <1>5, <1>6, PageIs, Zenon
<1>8. t.root \in Frames /\ \A n \in Nodes : t.node[n] \in Frames  BY Zenon DEF Apart, Tables
<1>9. G \in SUBSET Pages  BY <1>3, <1>8, Zenon DEF Frames
<1>10. \A x \in G : \E r \in Places : Page(u.t, r) = x  BY <1>3, <1>7, PlaceIn, Zenon
<1>11. ASSUME NEW r \in Places PROVE Page(u.t, r) \in G \/ Page(u.t, r) = 0
  BY <1>3, <1>7, PlaceCases
<1>12. Moves(u.t, u.free, NoTable, u.free \cup G)
  BY <1>5, <1>9, <1>10, <1>11, NoTableIs, MovesOut, Zenon
<1>13. Moves(u.t, u.free, NoTable, g)  BY <1>4, <1>12, Zenon
<1> QED BY <1>2, <1>13, MovesTrans, Zenon

\* proc_pagetable(): a table without leaves, or nothing.
LEMMA NewTableOk ==
  ASSUME NEW f \in SUBSET Pages, NEW u, u = proc_pagetable(f)
  PROVE  Moves(NoTable, f, u.t, u.free) /\ Below(u.t, 0) /\ Rooted(u.t)
<1>0. Apart(NoTable, f)  BY EmptyApart, Zenon
<1>1. Moves(NoTable, f, NoTable, f)  BY <1>0, NoTableIs, MovesSame, Zenon
<1>2. CASE f = {}
  <2>1. u = Result(NoTable, f, FALSE)  BY <1>2, Zenon DEF proc_pagetable
  <2>2. u.t = NoTable /\ u.free = f  BY <2>1 DEF Result
  <2> QED BY <1>1, <2>2, NoTableIs, Zenon
<1>3. CASE f # {}
  <2>0. PICK m, t, w : m = Min(f) /\ t = [NoTable EXCEPT !.root = m] /\ w = walk(t, f \ {m}, h1, h0)  BY Zenon
  <2>1. m \in f /\ m \in Frames /\ m # 0  BY <1>3, <2>0, MinIn, NotAPage, Zenon DEF Frames
  <2>2. t \in Tables /\ t.root = m /\ t.node = NoTable.node /\ t.leaf = NoTable.leaf /\ t.perm = NoTable.perm
    BY <2>0, <2>1, NoTableIs, Zenon DEF NoTable, Tables
  <2>3. \A v \in VPages : t.leaf[v] = 0  BY <2>2, Zenon DEF NoTable
  <2>4. Page(NoTable, <<"root", 0>>) = 0 /\ Page(t, <<"root", 0>>) = m
    <3>1. Page(t, <<"root", 0>>) = t.root  BY PageIs, Zenon
    <3> QED BY <2>2, <3>1, NoTableIs, PlaceIn, Zenon
  <2>5. ASSUME NEW s \in Places, s # <<"root", 0>> PROVE Page(t, s) = Page(NoTable, s)
    <3>1. ASSUME NEW n \in Nodes, s = <<"node", n>> PROVE Page(t, s) = Page(NoTable, s)
      <4>1. Page(t, s) = t.node[n] /\ Page(NoTable, s) = NoTable.node[n]  BY <3>1, PageIs, Zenon
      <4> QED BY <2>2, <4>1, Zenon
    <3>2. ASSUME NEW v \in VPages, s = <<"leaf", v>> PROVE Page(t, s) = Page(NoTable, s)
      <4>1. Page(t, s) = t.leaf[v] /\ Page(NoTable, s) = NoTable.leaf[v]  BY <3>2, PageIs, Zenon
      <4> QED BY <2>2, <4>1, Zenon
    <3> QED BY <2>5, <3>1, <3>2, PlaceCases, Zenon
  <2>6. Moves(NoTable, f, t, f \ {m})  BY <1>0, <2>1, <2>2, <2>4, <2>5, MovesIn, PlaceIn, Zenon
  <2>7. Apart(t, f \ {m})  BY <2>6, Zenon DEF Moves
  <2>8. Moves(t, f \ {m}, w.t, w.free) /\ Grown(t, w.t) /\ w.ok \in BOOLEAN  BY <2>0, <2>7, NodeOf, WalkOk, Zenon
  <2>9. Moves(NoTable, f, w.t, w.free)
    <3>1. PICK e : e = f \ {m}  BY Zenon
    <3>2. Moves(NoTable, f, t, e) /\ Moves(t, e, w.t, w.free)  BY <2>6, <2>8, <3>1, Zenon
    <3> QED BY <3>2, MovesTrans, Zenon
  <2>10. \A v \in VPages : w.t.leaf[v] = 0  BY <2>3, <2>8, Zenon DEF Grown
  <2>11. Below(w.t, 0) /\ Rooted(w.t)  BY <2>10, Zenon DEF Below, Rooted
  <2>12. CASE w.ok
    <3>1. u = w  BY <1>3, <2>0, <2>12, Zenon DEF proc_pagetable
    <3> QED BY <2>9, <2>11, <3>1, Zenon
  <2>13. CASE ~w.ok
    <3>0. PICK g : g = proc_freepagetable(w.t, w.free, 0)  BY Zenon
    <3>1. u = Result(NoTable, g, FALSE)  BY <1>3, <2>0, <2>13, <3>0, Zenon DEF proc_pagetable
    <3>2. u.t = NoTable /\ u.free = g  BY <3>1 DEF Result
    <3>3. Apart(w.t, w.free)  BY <2>8, Zenon DEF Moves
    <3>4. Below(w.t, Vp(0))  BY <2>10, Zenon DEF Below
    <3>5. 0 \in Nat  BY Zenon
    <3>6. Moves(w.t, w.free, NoTable, g)  BY <3>0, <3>3, <3>4, <3>5, FreeTableOk, Zenon
    <3>7. Moves(NoTable, f, NoTable, g)  BY <2>9, <3>6, MovesTrans, Zenon
    <3> QED BY <3>2, <3>7, <3>5, NoTableIs, Zenon
  <2> QED BY <2>8, <2>12, <2>13, Zenon
<1> QED BY <1>2, <1>3, Zenon

---------------------------------------------------------------------------
(* Facts about all holders.                                                 *)

\* What every holder has, for page tables a and b, trapframes c and arguments d.
Uses(a, b, c, d) ==
  [h \in Holders |-> CASE h[1] = "pt"  -> Page(a[h[2]], h[3])
                       [] h[1] = "npt" -> Page(b[h[2]], h[3])
                       [] h[1] = "tf"  -> c[h[2]]
                       [] h[1] = "arg" -> d[h[2]]]

\* No page is free and in use, or in use twice, or neither.
Own(P, f) ==
  /\ f \subseteq Pages
  /\ \A h \in Holders : P[h] \in Frames /\ P[h] \notin f
  /\ \A h, k \in Holders : P[h] = P[k] /\ P[h] # 0 => h = k
  /\ \A x \in Pages : x \notin f => \E h \in Holders : P[h] = x

Cell(k, p) == <<k, p, <<"page", 0>>>>

IsUses(P, a, b, c, d) ==
  \A p \in Procs :
    /\ \A s \in Places : <<"pt", p, s>> \in Holders /\ P[<<"pt", p, s>>] = Page(a[p], s)
    /\ \A s \in Places : <<"npt", p, s>> \in Holders /\ P[<<"npt", p, s>>] = Page(b[p], s)
    /\ Cell("tf", p) \in Holders /\ P[Cell("tf", p)] = c[p]
    /\ Cell("arg", p) \in Holders /\ P[Cell("arg", p)] = d[p]

LEMMA UsesIs ==
  ASSUME NEW a, NEW b, NEW c, NEW d
  PROVE  IsUses(Uses(a, b, c, d), a, b, c, d)
BY Zenon DEF IsUses, Uses, Holders, Cell

LEMMA HolderCases ==
  ASSUME NEW h \in Holders
  PROVE  \E p \in Procs : \/ \E s \in Places : h = <<"pt", p, s>> \/ h = <<"npt", p, s>>
                          \/ h = Cell("tf", p) \/ h = Cell("arg", p)
BY DEF Holders, Cell

\* The holders of W exchange pages with the free list, the others keep theirs.
Exchange(P, f, Q, g, W) ==
  /\ g \in SUBSET Pages /\ W \in SUBSET Holders
  /\ \A h \in Holders : h \notin W => Q[h] = P[h]
  /\ \A h \in W : Q[h] \in Frames /\ Q[h] \notin g
  /\ \A h, k \in W : Q[h] = Q[k] /\ Q[h] # 0 => h = k
  /\ \A x \in Pages : (x \in f \/ \E h \in W : P[h] = x) <=> (x \in g \/ \E h \in W : Q[h] = x)

LEMMA OwnMove ==
  ASSUME NEW P, NEW f, Own(P, f), NEW Q, NEW g, NEW W, Exchange(P, f, Q, g, W)
  PROVE  Own(Q, g)
<1> USE DEF Exchange
<1>1. ASSUME NEW h \in Holders PROVE Q[h] \in Frames /\ Q[h] \notin g
  <2>1. CASE h \in W  BY <2>1, Zenon
  <2>2. CASE h \notin W
    <3>1. Q[h] = P[h] /\ P[h] \in Frames /\ P[h] \notin f  BY <2>2, Zenon DEF Own
    <3>2. ASSUME P[h] \in g PROVE FALSE
      <4>1. P[h] \in Pages /\ P[h] # 0  BY <3>2, NotAPage, Zenon
      <4>2. \E k \in W : P[k] = P[h]  BY <3>1, <3>2, <4>1, Zenon
      <4> QED BY <2>2, <4>1, <4>2, Zenon DEF Own
    <3> QED BY <3>1, <3>2, Zenon
  <2> QED BY <2>1, <2>2, Zenon
<1>2. ASSUME NEW h \in W, NEW k \in Holders, k \notin W, Q[h] = Q[k], Q[h] # 0 PROVE FALSE
  <2>1. Q[k] = P[k] /\ P[k] \notin f /\ Q[h] \in Pages  BY <1>2, Zenon DEF Own, Frames
  <2>2. \E j \in W : P[j] = P[k]  BY <1>2, <2>1, ZenonT(60)
  <2> QED BY <1>2, <2>1, <2>2, Zenon DEF Own
<1>3. ASSUME NEW h \in Holders, NEW k \in Holders, Q[h] = Q[k], Q[h] # 0 PROVE h = k
  <2>1. CASE h \in W /\ k \in W  BY <1>3, <2>1, Zenon
  <2>2. CASE h \notin W /\ k \notin W
    <3>1. P[h] = P[k] /\ P[h] # 0  BY <1>3, <2>2, Zenon
    <3> QED BY <3>1, Zenon DEF Own
  <2> QED BY <1>2, <1>3, <2>1, <2>2, Zenon
<1>4. ASSUME NEW x \in Pages, x \notin g PROVE \E h \in Holders : Q[h] = x
  <2>1. CASE x \in f \/ \E h \in W : P[h] = x  BY <1>4, <2>1, Zenon
  <2>2. CASE x \notin f /\ ~\E h \in W : P[h] = x
    <3>1. PICK h \in Holders : P[h] = x  BY <2>2, Zenon DEF Own
    <3> QED BY <2>2, <3>1, Zenon
  <2> QED BY <2>1, <2>2, Zenon
<1> QED BY <1>1, <1>3, <1>4, Zenon DEF Own

\* A page table of a process shares no page with another.
LEMMA OwnApart ==
  ASSUME NEW a \in [Procs -> Tables], NEW b \in [Procs -> Tables], NEW c, NEW d, NEW f,
         Own(Uses(a, b, c, d), f), NEW p \in Procs
  PROVE  Apart(a[p], f) /\ Apart(b[p], f)
<1>1. a[p] \in Tables /\ b[p] \in Tables  BY Zenon
<1>2. PICK P : P = Uses(a, b, c, d)  BY Zenon
<1>3. Own(P, f) /\ IsUses(P, a, b, c, d)  BY <1>2, UsesIs, Zenon
<1>4. \A s \in Places : <<"pt", p, s>> \in Holders /\ P[<<"pt", p, s>>] = Page(a[p], s)  BY <1>3, Zenon DEF IsUses
<1>5. \A s \in Places : <<"npt", p, s>> \in Holders /\ P[<<"npt", p, s>>] = Page(b[p], s)  BY <1>3, Zenon DEF IsUses
<1>6. ASSUME NEW r \in Places, NEW s \in Places, Page(a[p], r) = Page(a[p], s), Page(a[p], r) # 0 PROVE r = s
  <2>1. PICK h, k \in Holders : h = <<"pt", p, r>> /\ k = <<"pt", p, s>>  BY <1>4, Zenon
  <2>2. P[h] = P[k] /\ P[h] # 0  BY <1>4, <1>6, <2>1, Zenon
  <2>3. h = k  BY <1>3, <2>2, Zenon DEF Own
  <2> QED BY <2>1, <2>3
<1>7. ASSUME NEW r \in Places, NEW s \in Places, Page(b[p], r) = Page(b[p], s), Page(b[p], r) # 0 PROVE r = s
  <2>1. PICK h, k \in Holders : h = <<"npt", p, r>> /\ k = <<"npt", p, s>>  BY <1>5, Zenon
  <2>2. P[h] = P[k] /\ P[h] # 0  BY <1>5, <1>7, <2>1, Zenon
  <2>3. h = k  BY <1>3, <2>2, Zenon DEF Own
  <2> QED BY <2>1, <2>3
<1>8. f \subseteq Pages /\ (\A s \in Places : Page(a[p], s) \notin f) /\ (\A s \in Places : Page(b[p], s) \notin f)
  BY <1>3, <1>4, <1>5, Zenon DEF Own
<1> QED BY <1>1, <1>6, <1>7, <1>8, Zenon DEF Apart

\* One table of one process changes, from t to u.
TableChange(P, Q, k, p, t, u) ==
  /\ k \in {"pt", "npt"} /\ p \in Procs
  /\ \A s \in Places : P[<<k, p, s>>] = Page(t, s) /\ Q[<<k, p, s>>] = Page(u, s)
  /\ \A h \in Holders : (\A s \in Places : h # <<k, p, s>>) => Q[h] = P[h]

LEMMA OwnTable ==
  ASSUME NEW P, NEW f, Own(P, f), NEW Q, NEW k, NEW p, NEW t, NEW u, TableChange(P, Q, k, p, t, u),
         NEW g, Moves(t, f, u, g)
  PROVE  Own(Q, g)
<1> USE DEF TableChange
<1>0. PICK W : W = {<<k, p, s>> : s \in Places}  BY Zenon
<1>1. W \in SUBSET Holders  BY <1>0 DEF Holders
<1>2. \A h \in Holders : h \notin W => Q[h] = P[h]  BY <1>0, Zenon
<1>3. Apart(u, g) /\ g \in SUBSET Pages /\ u \in Tables  BY Zenon DEF Moves, Apart
<1>4. \A h \in W : \E s \in Places : h = <<k, p, s>> /\ P[h] = Page(t, s) /\ Q[h] = Page(u, s)  BY <1>0, Zenon
<1>5. \A h \in W : Q[h] \in Frames /\ Q[h] \notin g  BY <1>3, <1>4, PageType, Zenon DEF Apart
<1>6. ASSUME NEW h \in W, NEW j \in W, Q[h] = Q[j], Q[h] # 0 PROVE h = j
  <2>1. PICK r \in Places : h = <<k, p, r>> /\ Q[h] = Page(u, r)  BY <1>4, Zenon
  <2>2. PICK s \in Places : j = <<k, p, s>> /\ Q[j] = Page(u, s)  BY <1>4, Zenon
  <2>3. Page(u, r) = Page(u, s) /\ Page(u, r) # 0  BY <1>6, <2>1, <2>2, Zenon
  <2>4. r = s  BY <1>3, <2>3, Zenon DEF Apart
  <2> QED BY <2>1, <2>2, <2>4, Zenon
<1>7. ASSUME NEW x \in Pages
      PROVE  (x \in f \/ \E h \in W : P[h] = x) <=> (x \in g \/ \E h \in W : Q[h] = x)
  <2>1. (\E h \in W : P[h] = x) <=> (\E s \in Places : Page(t, s) = x)  BY <1>0, Zenon
  <2>2. (\E h \in W : Q[h] = x) <=> (\E s \in Places : Page(u, s) = x)  BY <1>0, Zenon
  <2> QED BY <2>1, <2>2, Zenon DEF Moves
<1>8. Exchange(P, f, Q, g, W)  BY <1>1, <1>2, <1>3, <1>5, <1>6, <1>7, Zenon DEF Exchange
<1> QED BY <1>8, OwnMove, Zenon

LEMMA OwnPt ==
  ASSUME NEW a \in [Procs -> Tables], NEW b, NEW c, NEW d, NEW f, Own(Uses(a, b, c, d), f),
         NEW p \in Procs, NEW u, NEW g, Moves(a[p], f, u, g), NEW e, e = [a EXCEPT ![p] = u]
  PROVE  Own(Uses(e, b, c, d), g)
<1>1. PICK P, Q : P = Uses(a, b, c, d) /\ Q = Uses(e, b, c, d)  BY Zenon
<1>0. IsUses(P, a, b, c, d) /\ IsUses(Q, e, b, c, d)  BY <1>1, UsesIs, Zenon
<1>2. e[p] = u /\ \A q \in Procs : q # p => e[q] = a[q]  BY Zenon
<1>3. \A s \in Places : P[<<"pt", p, s>>] = Page(a[p], s) /\ Q[<<"pt", p, s>>] = Page(u, s)  BY <1>0, <1>1, <1>2, Zenon DEF IsUses
<1>4. ASSUME NEW h \in Holders, \A s \in Places : h # <<"pt", p, s>> PROVE Q[h] = P[h]
  <2>1. PICK q \in Procs : \/ \E s \in Places : h = <<"pt", q, s>> \/ h = <<"npt", q, s>>
                           \/ h = Cell("tf", q) \/ h = Cell("arg", q)
    BY HolderCases, Zenon
  <2>2. ASSUME NEW s \in Places, h = <<"pt", q, s>> PROVE Q[h] = P[h]
    <3>1. q # p  BY <1>4, <2>2, Zenon
    <3>2. P[h] = Page(a[q], s) /\ Q[h] = Page(e[q], s)  BY <1>0, <1>1, <2>2, Zenon DEF IsUses
    <3> QED BY <1>2, <3>1, <3>2, Zenon
  <2>3. ASSUME NEW s \in Places, h = <<"npt", q, s>> PROVE Q[h] = P[h]
    <3>1. P[h] = Page(b[q], s) /\ Q[h] = Page(b[q], s)  BY <1>0, <2>3, ZenonT(60) DEF IsUses
    <3> QED BY <3>1, Zenon
  <2>4. CASE h = Cell("tf", q)
    <3>1. P[h] = c[q] /\ Q[h] = c[q]  BY <1>0, <2>4, Zenon DEF IsUses
    <3> QED BY <3>1, Zenon
  <2>5. CASE h = Cell("arg", q)
    <3>1. P[h] = d[q] /\ Q[h] = d[q]  BY <1>0, <2>5, Zenon DEF IsUses
    <3> QED BY <3>1, Zenon
  <2> QED BY <2>1, <2>2, <2>3, <2>4, <2>5, Zenon
<1>5. TableChange(P, Q, "pt", p, a[p], u)  BY <1>3, <1>4, Zenon DEF TableChange
<1>6. Own(Q, g)  BY <1>1, <1>5, OwnTable, Zenon
<1> QED BY <1>1, <1>6, Zenon

LEMMA OwnNpt ==
  ASSUME NEW a, NEW b \in [Procs -> Tables], NEW c, NEW d, NEW f, Own(Uses(a, b, c, d), f),
         NEW p \in Procs, NEW u, NEW g, Moves(b[p], f, u, g), NEW e, e = [b EXCEPT ![p] = u]
  PROVE  Own(Uses(a, e, c, d), g)
<1>1. PICK P, Q : P = Uses(a, b, c, d) /\ Q = Uses(a, e, c, d)  BY Zenon
<1>0. IsUses(P, a, b, c, d) /\ IsUses(Q, a, e, c, d)  BY <1>1, UsesIs, Zenon
<1>2. e[p] = u /\ \A q \in Procs : q # p => e[q] = b[q]  BY Zenon
<1>3. \A s \in Places : P[<<"npt", p, s>>] = Page(b[p], s) /\ Q[<<"npt", p, s>>] = Page(u, s)  BY <1>0, <1>1, <1>2, Zenon DEF IsUses
<1>4. ASSUME NEW h \in Holders, \A s \in Places : h # <<"npt", p, s>> PROVE Q[h] = P[h]
  <2>1. PICK q \in Procs : \/ \E s \in Places : h = <<"pt", q, s>> \/ h = <<"npt", q, s>>
                           \/ h = Cell("tf", q) \/ h = Cell("arg", q)
    BY HolderCases, Zenon
  <2>2. ASSUME NEW s \in Places, h = <<"npt", q, s>> PROVE Q[h] = P[h]
    <3>1. q # p  BY <1>4, <2>2, Zenon
    <3>2. P[h] = Page(b[q], s) /\ Q[h] = Page(e[q], s)  BY <1>0, <1>1, <2>2, Zenon DEF IsUses
    <3> QED BY <1>2, <3>1, <3>2, Zenon
  <2>3. ASSUME NEW s \in Places, h = <<"pt", q, s>> PROVE Q[h] = P[h]
    <3>1. P[h] = Page(a[q], s) /\ Q[h] = Page(a[q], s)  BY <1>0, <2>3, ZenonT(60) DEF IsUses
    <3> QED BY <3>1, Zenon
  <2>4. CASE h = Cell("tf", q)
    <3>1. P[h] = c[q] /\ Q[h] = c[q]  BY <1>0, <2>4, Zenon DEF IsUses
    <3> QED BY <3>1, Zenon
  <2>5. CASE h = Cell("arg", q)
    <3>1. P[h] = d[q] /\ Q[h] = d[q]  BY <1>0, <2>5, Zenon DEF IsUses
    <3> QED BY <3>1, Zenon
  <2> QED BY <2>1, <2>2, <2>3, <2>4, <2>5, Zenon
<1>5. TableChange(P, Q, "npt", p, b[p], u)  BY <1>3, <1>4, Zenon DEF TableChange
<1>6. Own(Q, g)  BY <1>1, <1>5, OwnTable, Zenon
<1> QED BY <1>1, <1>6, Zenon

\* One trapframe or argument is taken from the free list, or given back.
Swaps(old, f, x, g) ==
  \/ old = 0 /\ x \in f /\ g = f \ {x}
  \/ x = 0 /\ g = f \cup ({old} \ {0})
CellChange(P, Q, w, x) ==
  w \in Holders /\ x \in Frames /\ Q[w] = x /\ \A h \in Holders : h # w => Q[h] = P[h]

LEMMA OwnCell ==
  ASSUME NEW P, NEW f, Own(P, f), NEW Q, NEW w, NEW x, CellChange(P, Q, w, x),
         NEW g, Swaps(P[w], f, x, g)
  PROVE  Own(Q, g)
<1> USE DEF CellChange, Swaps
<1>1. f \subseteq Pages /\ P[w] \in Frames /\ P[w] \notin f /\ 0 \notin f  BY NotAPage, Zenon DEF Own
<1>2. g \in SUBSET Pages  BY <1>1, Zenon DEF Frames
<1>3. x \notin g  BY <1>1, <1>2, NotAPage, Zenon
<1>4. \A y \in Pages : (y \in f \/ P[w] = y) <=> (y \in g \/ x = y)  BY <1>1, NotAPage, Zenon
<1>5. PICK W : W = {w}  BY Zenon
<1>6. W \in SUBSET Holders /\ \A h \in W : h = w  BY <1>5, Zenon
<1>7. \A y \in Pages : (y \in f \/ \E h \in W : P[h] = y) <=> (y \in g \/ \E h \in W : Q[h] = y)
  BY <1>4, <1>5, Zenon
<1>8. (\A h \in Holders : h \notin W => Q[h] = P[h]) /\ (\A h \in W : Q[h] \in Frames /\ Q[h] \notin g)
  BY <1>3, <1>5, Zenon
<1>9. \A h, k \in W : Q[h] = Q[k] /\ Q[h] # 0 => h = k  BY <1>6, Zenon
<1>10. Exchange(P, f, Q, g, W)  BY <1>2, <1>6, <1>7, <1>8, <1>9, Zenon DEF Exchange
<1> QED BY <1>10, OwnMove, Zenon

LEMMA OwnTrapframe ==
  ASSUME NEW a, NEW b, NEW c \in [Procs -> Frames], NEW d, NEW f, Own(Uses(a, b, c, d), f),
         NEW p \in Procs, NEW x \in Frames, NEW g, NEW e, e = [c EXCEPT ![p] = x],
         Swaps(c[p], f, x, g)
  PROVE  Own(Uses(a, b, e, d), g)
<1>1. PICK P, Q, w : P = Uses(a, b, c, d) /\ Q = Uses(a, b, e, d) /\ w = Cell("tf", p)  BY Zenon
<1>0. IsUses(P, a, b, c, d) /\ IsUses(Q, a, b, e, d)  BY <1>1, UsesIs, Zenon
<1>2. e[p] = x /\ \A q \in Procs : q # p => e[q] = c[q]  BY Zenon
<1>3. w \in Holders /\ P[w] = c[p] /\ Q[w] = x  BY <1>0, <1>1, <1>2, Zenon DEF IsUses
<1>4. ASSUME NEW h \in Holders, h # w PROVE Q[h] = P[h]
  <2>1. PICK q \in Procs : \/ \E s \in Places : h = <<"pt", q, s>> \/ h = <<"npt", q, s>>
                           \/ h = Cell("tf", q) \/ h = Cell("arg", q)
    BY HolderCases, Zenon
  <2>2. ASSUME NEW s \in Places, h = <<"npt", q, s>> PROVE Q[h] = P[h]
    <3>1. P[h] = Page(b[q], s) /\ Q[h] = Page(b[q], s)  BY <1>0, <2>2, ZenonT(60) DEF IsUses
    <3> QED BY <3>1, Zenon
  <2>5. ASSUME NEW s \in Places, h = <<"pt", q, s>> PROVE Q[h] = P[h]
    <3>1. P[h] = Page(a[q], s) /\ Q[h] = Page(a[q], s)  BY <1>0, <2>5, ZenonT(60) DEF IsUses
    <3> QED BY <3>1, Zenon
  <2>3. CASE h = Cell("tf", q)
    <3>1. q # p  BY <1>1, <1>4, <2>3, Zenon
    <3> QED BY <1>0, <1>1, <1>2, <2>3, <3>1, ZenonT(60) DEF IsUses
  <2>4. CASE h = Cell("arg", q)
    <3>1. P[h] = d[q] /\ Q[h] = d[q]  BY <1>0, <2>4, Zenon DEF IsUses
    <3> QED BY <3>1, Zenon
  <2> QED BY <2>1, <2>2, <2>3, <2>4, <2>5, Zenon
<1>5. CellChange(P, Q, w, x) /\ Swaps(P[w], f, x, g)  BY <1>3, <1>4, Zenon DEF CellChange
<1>6. Own(Q, g)  BY <1>1, <1>5, OwnCell, Zenon
<1> QED BY <1>1, <1>6, Zenon

LEMMA OwnArg ==
  ASSUME NEW a, NEW b, NEW c, NEW d \in [Procs -> Frames], NEW f, Own(Uses(a, b, c, d), f),
         NEW p \in Procs, NEW x \in Frames, NEW g, NEW e, e = [d EXCEPT ![p] = x],
         Swaps(d[p], f, x, g)
  PROVE  Own(Uses(a, b, c, e), g)
<1>1. PICK P, Q, w : P = Uses(a, b, c, d) /\ Q = Uses(a, b, c, e) /\ w = Cell("arg", p)  BY Zenon
<1>0. IsUses(P, a, b, c, d) /\ IsUses(Q, a, b, c, e)  BY <1>1, UsesIs, Zenon
<1>2. e[p] = x /\ \A q \in Procs : q # p => e[q] = d[q]  BY Zenon
<1>3. w \in Holders /\ P[w] = d[p] /\ Q[w] = x  BY <1>0, <1>1, <1>2, Zenon DEF IsUses
<1>4. ASSUME NEW h \in Holders, h # w PROVE Q[h] = P[h]
  <2>1. PICK q \in Procs : \/ \E s \in Places : h = <<"pt", q, s>> \/ h = <<"npt", q, s>>
                           \/ h = Cell("tf", q) \/ h = Cell("arg", q)
    BY HolderCases, Zenon
  <2>2. ASSUME NEW s \in Places, h = <<"npt", q, s>> PROVE Q[h] = P[h]
    <3>1. P[h] = Page(b[q], s) /\ Q[h] = Page(b[q], s)  BY <1>0, <2>2, ZenonT(60) DEF IsUses
    <3> QED BY <3>1, Zenon
  <2>5. ASSUME NEW s \in Places, h = <<"pt", q, s>> PROVE Q[h] = P[h]
    <3>1. P[h] = Page(a[q], s) /\ Q[h] = Page(a[q], s)  BY <1>0, <2>5, ZenonT(60) DEF IsUses
    <3> QED BY <3>1, Zenon
  <2>3. CASE h = Cell("arg", q)
    <3>1. q # p  BY <1>1, <1>4, <2>3, Zenon
    <3> QED BY <1>0, <1>1, <1>2, <2>3, <3>1, ZenonT(60) DEF IsUses
  <2>4. CASE h = Cell("tf", q)
    <3>1. P[h] = c[q] /\ Q[h] = c[q]  BY <1>0, <2>4, Zenon DEF IsUses
    <3> QED BY <3>1, Zenon
  <2> QED BY <2>1, <2>2, <2>3, <2>4, <2>5, Zenon
<1>5. CellChange(P, Q, w, x) /\ Swaps(P[w], f, x, g)  BY <1>3, <1>4, Zenon DEF CellChange
<1>6. Own(Q, g)  BY <1>1, <1>5, OwnCell, Zenon
<1> QED BY <1>1, <1>6, Zenon

---------------------------------------------------------------------------
(* The invariant: how far each call has come, and what is mapped by then.   *)

\* One process: its tables t and n, trapframe x, argument y, size s, state,
\* and the call it is in with its page and new size.
ProcOk(t, n, x, y, s, st, l, i, m) ==
  /\ Rooted(t) /\ Rooted(n) /\ Vp(s) <= NVPAGES
  /\ l = "grow" => Vp(s) <= i /\ i <= Vp(m) /\ Vp(m) <= NVPAGES /\ Below(t, i)
  /\ l = "fork" => i <= Vp(s)
  /\ l = "exec" => Below(n, i)
  /\ l # "exec" => n = NoTable /\ y = 0
  /\ l # "grow" /\ st # "used" => Below(t, Vp(s))
  /\ st # "live" => l = "user"
  /\ st = "unused" => t = NoTable /\ x = 0
  /\ st # "unused" => x # 0
  /\ st \in {"unused", "used"} => s = 0

ProcAt(p) == ProcOk(pt[p], npt[p], trapframe[p], arg[p], sz[p], state[p], pc[p], at[p], nsz[p])
ProcInv   == \A p \in Procs : ProcAt(p)

\* A process that is being made is the child of one fork.
ForkInv ==
  /\ \A p \in Procs : pc[p] = "fork" => state[child[p]] = "used" /\ Below(pt[child[p]], at[p])
  /\ \A p \in Procs : state[p] = "used" => \E q \in Procs : pc[q] = "fork" /\ child[q] = p
  /\ \A p, q \in Procs : pc[p] = "fork" /\ pc[q] = "fork" /\ child[p] = child[q] => p = q

MemTypes ==
  /\ pt \in [Procs -> Tables] /\ npt \in [Procs -> Tables]
  /\ trapframe \in [Procs -> Frames] /\ arg \in [Procs -> Frames]
  /\ sz \in [Procs -> Nat] /\ nsz \in [Procs -> Nat] /\ at \in [Procs -> Nat]
  /\ state \in [Procs -> {"unused", "used", "live", "zombie"}]
  /\ pc \in [Procs -> {"user", "boot", "grow", "fork", "exec"}]
  /\ child \in [Procs -> Procs]

MemOwn == Own(Uses(pt, npt, trapframe, arg), free)

MemInv == MemTypes /\ MemOwn /\ ProcInv /\ ForkInv

---------------------------------------------------------------------------
(* What the steps have in common.                                           *)

\* Process q is left alone.
Same(q) ==
  /\ pt'[q] = pt[q] /\ npt'[q] = npt[q] /\ trapframe'[q] = trapframe[q] /\ arg'[q] = arg[q]
  /\ sz'[q] = sz[q] /\ state'[q] = state[q] /\ pc'[q] = pc[q] /\ at'[q] = at[q]
  /\ nsz'[q] = nsz[q]

\* A step of p that has nothing to do with fork.
Quiet(p) ==
  /\ \A q \in Procs : q # p => Same(q)
  /\ pc[p] # "fork" /\ pc'[p] # "fork" /\ state[p] # "used" /\ state'[p] # "used"
  /\ child' = child

LEMMA SameOk ==
  ASSUME NEW q, ProcAt(q), Same(q)
  PROVE  ProcAt(q)'
BY Zenon DEF Same, ProcAt

LEMMA QuietOk ==
  ASSUME MemTypes, ProcInv, ForkInv, NEW p \in Procs, Quiet(p), ProcAt(p)'
  PROVE  ProcInv' /\ ForkInv'
<1>1. ProcInv'  BY SameOk, Zenon DEF ProcInv, Quiet
<1>2. \A q \in Procs : (pc'[q] = "fork" <=> pc[q] = "fork") /\ (state'[q] = "used" <=> state[q] = "used")
  BY Zenon DEF Quiet, Same
<1>3. \A q \in Procs : child'[q] = child[q] /\ child[q] \in Procs  BY Zenon DEF Quiet, MemTypes
<1>4. \A q \in Procs : state[q] = "used" => pt'[q] = pt[q]  BY Zenon DEF Quiet, Same
<1>5. \A q \in Procs : pc[q] = "fork" => at'[q] = at[q]  BY Zenon DEF Quiet, Same
<1>6. ASSUME NEW q \in Procs, pc'[q] = "fork" PROVE state'[child'[q]] = "used" /\ Below(pt'[child'[q]], at'[q])
  <2>1. state[child[q]] = "used" /\ Below(pt[child[q]], at[q])  BY <1>2, <1>6, Zenon DEF ForkInv
  <2> QED BY <1>2, <1>3, <1>4, <1>5, <1>6, <2>1
<1>7. ASSUME NEW q \in Procs, state'[q] = "used" PROVE \E x \in Procs : pc'[x] = "fork" /\ child'[x] = q
  <2>1. PICK x \in Procs : pc[x] = "fork" /\ child[x] = q  BY <1>2, <1>7, Zenon DEF ForkInv
  <2> QED BY <1>2, <1>3, <2>1, Zenon
<1>8. \A x, y \in Procs : pc'[x] = "fork" /\ pc'[y] = "fork" /\ child'[x] = child'[y] => x = y
  BY <1>2, <1>3 DEF ForkInv
<1> QED BY <1>1, <1>6, <1>7, <1>8, Zenon DEF ForkInv

LEMMA MemApart ==
  ASSUME MemTypes, MemOwn, NEW p \in Procs
  PROVE  Apart(pt[p], free) /\ Apart(npt[p], free) /\ free \in SUBSET Pages
<1>1. Apart(pt[p], free) /\ Apart(npt[p], free)  BY OwnApart, Zenon DEF MemTypes, MemOwn
<1> QED BY <1>1, Zenon DEF Apart

\* The step changes the page table of p alone.
LEMMA PtStep ==
  ASSUME MemTypes, MemOwn, NEW p \in Procs, NEW u, NEW g, Moves(pt[p], free, u, g),
         pt' = [pt EXCEPT ![p] = u], free' = g, UNCHANGED <<npt, trapframe, arg>>
  PROVE  MemOwn' /\ pt' \in [Procs -> Tables]
<1>1. u \in Tables  BY Zenon DEF Moves, Apart
<1>2. pt' \in [Procs -> Tables]  BY <1>1, Zenon DEF MemTypes
<1>3. Own(Uses(pt', npt, trapframe, arg), g)  BY OwnPt, Zenon DEF MemTypes, MemOwn
<1> QED BY <1>2, <1>3, Zenon DEF MemOwn

LEMMA NptStep ==
  ASSUME MemTypes, MemOwn, NEW p \in Procs, NEW u, NEW g, Moves(npt[p], free, u, g),
         npt' = [npt EXCEPT ![p] = u], free' = g, UNCHANGED <<pt, trapframe, arg>>
  PROVE  MemOwn' /\ npt' \in [Procs -> Tables]
<1>1. u \in Tables  BY Zenon DEF Moves, Apart
<1>2. npt' \in [Procs -> Tables]  BY <1>1, Zenon DEF MemTypes
<1>3. Own(Uses(pt, npt', trapframe, arg), g)  BY OwnNpt, Zenon DEF MemTypes, MemOwn
<1> QED BY <1>2, <1>3, Zenon DEF MemOwn

\* The step moves no page.
LEMMA OwnSame ==
  ASSUME MemOwn, UNCHANGED <<free, pt, npt, trapframe, arg>>
  PROVE  MemOwn'
BY Zenon DEF MemOwn

LEMMA VpNat ==
  ASSUME NEW s \in Nat
  PROVE  Vp(s) \in Nat /\ s * PG \in Nat
<1>1. PG \in Nat  BY MemAssumption, Zenon
<1> QED BY <1>1, VpIs

\* An empty table is as good as freed.
LEMMA EmptyOk ==
  /\ Vp(0) = 0 /\ NVPAGES \in Nat /\ 0 <= NVPAGES
  /\ NoTable \in Tables /\ Rooted(NoTable) /\ Below(NoTable, 0)
<1>1. PG \in Nat /\ NVPAGES \in Nat  BY MemAssumption
<1>2. Vp(0 * PG) = 0 /\ 0 * PG = 0  BY <1>1, VpFacts
<1>3. NoTable \in Tables /\ Rooted(NoTable) /\ Below(NoTable, 0)  BY NoTableIs, Zenon
<1> QED BY <1>1, <1>2, <1>3

---------------------------------------------------------------------------
(* sbrk() and page faults *)

LEMMA SbrkGrowInv ==
  ASSUME MemInv, NEW p \in Procs, NEW n \in Deltas, SbrkGrow(p, n)
  PROVE  MemInv'
<1> USE DEF MemInv, SbrkGrow, Live, Begin, table
<1>1. MemTypes /\ ProcInv /\ ForkInv /\ n \in Int /\ NVPAGES \in Nat  BY MemAssumption, Zenon
<1>2. sz[p] \in Nat /\ sz[p] + n \in Nat /\ Vp(sz[p]) \in Nat /\ Vp(sz[p] + n) \in Nat
  BY <1>1, VpNat DEF MemTypes
<1>3. Vp(sz[p]) <= Vp(sz[p] + n) /\ Vp(sz[p] + n) <= NVPAGES  BY <1>1, <1>2, VpFacts
<1>4. MemTypes'  BY <1>1, <1>2, Zenon DEF MemTypes
<1>5. Quiet(p)  BY <1>1, ZenonT(60) DEF Quiet, Same, MemTypes
<1>6. ProcAt(p)'  BY <1>1, <1>2, <1>3 DEF ProcInv, ProcAt, ProcOk, MemTypes
<1> QED BY <1>1, <1>4, <1>5, <1>6, OwnSame, QuietOk, Zenon

\* The page uvmalloc() comes to is a user page and is not mapped.
LEMMA GrowAt ==
  ASSUME MemInv, NEW p \in Procs, Live(p, "grow"), at[p] * PG < nsz[p]
  PROVE  /\ at[p] \in VPages /\ pt[p].leaf[at[p]] = 0 /\ Apart(pt[p], free) /\ free \in SUBSET Pages
         /\ at[p] < Vp(nsz[p]) /\ Rooted(pt[p]) /\ Below(pt[p], at[p])
<1>1. MemTypes /\ MemOwn /\ at[p] \in Nat /\ nsz[p] \in Nat /\ NVPAGES \in Nat /\ ProcAt(p) /\ Vp(nsz[p]) \in Nat
  BY MemAssumption, VpNat, Zenon DEF MemInv, MemTypes, ProcInv
<1>2. at[p] < Vp(nsz[p])  BY <1>1, VpFacts, Zenon
<1>3. Rooted(pt[p]) /\ Below(pt[p], at[p]) /\ Vp(nsz[p]) <= NVPAGES  BY <1>1, Zenon DEF ProcAt, ProcOk, Live
<1>4. at[p] \in VPages  BY <1>1, <1>2, <1>3 DEF VPages
<1>5. pt[p].leaf[at[p]] = 0  BY <1>1, <1>3, <1>4 DEF Below
<1> QED BY <1>1, <1>2, <1>3, <1>4, <1>5, MemApart, Zenon

LEMMA GrowPageInv ==
  ASSUME MemInv, NEW p \in Procs, GrowPage(p)
  PROVE  MemInv'
<1>1. PICK r : r = AddPage(pt[p], free, at[p], "rw")  BY Zenon
<1>2. /\ Live(p, "grow") /\ at[p] * PG < nsz[p] /\ r.ok /\ pt' = [pt EXCEPT ![p] = r.t] /\ free' = r.free
      /\ Step(p) /\ UNCHANGED <<sz, trapframe, state, npt, arg, child>>
  BY <1>1, Zenon DEF GrowPage
<1>3. MemTypes /\ MemOwn /\ ProcInv /\ ForkInv  BY Zenon DEF MemInv
<1>4. /\ at[p] \in VPages /\ pt[p].leaf[at[p]] = 0 /\ Apart(pt[p], free) /\ free \in SUBSET Pages
      /\ at[p] < Vp(nsz[p]) /\ Rooted(pt[p]) /\ Below(pt[p], at[p])
  BY <1>2, GrowAt, Zenon
<1>5. Added(pt[p], free, r.t, r.free, r.ok, at[p], "rw")  BY <1>1, <1>4, AddPageOk, Zenon DEF Perms
<1>6. at[p] \in Nat /\ nsz[p] \in Nat /\ Vp(nsz[p]) \in Nat /\ sz[p] \in Nat /\ Vp(sz[p]) \in Nat  BY <1>3, VpNat, Zenon DEF MemTypes
<1>7. Below(pt[p], at[p] + 1)  BY <1>4, <1>6 DEF Below, VPages
<1>8. Rooted(r.t) /\ Below(r.t, at[p] + 1)  BY <1>4, <1>5, <1>6, <1>7, AddedShape
<1>9. MemOwn' /\ pt' \in [Procs -> Tables]  BY <1>2, <1>3, <1>5, PtStep, Zenon DEF Added
<1>10. MemTypes'  BY <1>2, <1>3, <1>6, <1>9 DEF MemTypes, Step
<1>11. Quiet(p)  BY <1>2, <1>3, ZenonT(60) DEF Quiet, Same, MemTypes, Step, Live
<1>12. ProcAt(p)'  BY <1>2, <1>3, <1>4, <1>6, <1>8 DEF ProcInv, ProcAt, ProcOk, MemTypes, Step, Live
<1> QED BY <1>3, <1>9, <1>10, <1>11, <1>12, QuietOk, Zenon DEF MemInv

LEMMA GrowFailsInv ==
  ASSUME MemInv, NEW p \in Procs, GrowFails(p)
  PROVE  MemInv'
<1>1. PICK r : r = AddPage(pt[p], free, at[p], "rw")  BY Zenon
<1>2. PICK u : u = uvmdealloc(r.t, r.free, at[p] * PG, PGROUNDUP(sz[p]))  BY Zenon
<1>3. /\ Live(p, "grow") /\ at[p] * PG < nsz[p] /\ ~r.ok /\ pt' = [pt EXCEPT ![p] = u.t] /\ free' = u.free
      /\ End(p) /\ UNCHANGED <<sz, trapframe, state, npt, arg, child>>
  BY <1>1, <1>2, Zenon DEF GrowFails
<1>4. MemTypes /\ MemOwn /\ ProcInv /\ ForkInv  BY Zenon DEF MemInv
<1>5. /\ at[p] \in VPages /\ pt[p].leaf[at[p]] = 0 /\ Apart(pt[p], free) /\ free \in SUBSET Pages
      /\ Rooted(pt[p]) /\ Below(pt[p], at[p])
  BY <1>3, GrowAt, Zenon
<1>6. Added(pt[p], free, r.t, r.free, r.ok, at[p], "rw")  BY <1>1, <1>5, AddPageOk, Zenon DEF Perms
<1>7. at[p] \in Nat /\ at[p] * PG \in Nat /\ sz[p] \in Nat /\ Vp(sz[p]) \in Nat  BY <1>4, VpNat, Zenon DEF MemTypes
<1>8. Rooted(r.t) /\ Below(r.t, at[p])
  <2>1. \A n \in Nat : Below(pt[p], n) /\ (r.ok => at[p] < n) => Below(r.t, n)  BY <1>5, <1>6, AddedShape, Zenon
  <2>2. Below(r.t, at[p])  BY <1>3, <1>5, <1>7, <2>1, Zenon
  <2> QED BY <1>5, <1>6, <2>2, AddedShape
<1>9. PGROUNDUP(sz[p]) = Vp(sz[p]) * PG /\ PGROUNDUP(sz[p]) \in Nat  BY <1>7, VpIs, VpNat, Zenon
<1>10. Vp(at[p] * PG) = at[p] /\ Vp(PGROUNDUP(sz[p])) = Vp(sz[p])  BY <1>7, VpFacts, Zenon
<1>11. Moves(pt[p], free, r.t, r.free) /\ Apart(r.t, r.free)  BY <1>6, Zenon DEF Added, Moves
<1>12. Moves(r.t, r.free, u.t, u.free) /\ Below(u.t, Vp(sz[p])) /\ Rooted(u.t)
  BY <1>2, <1>7, <1>8, <1>9, <1>10, <1>11, DeallocOk
<1>13. Moves(pt[p], free, u.t, u.free)  BY <1>11, <1>12, MovesTrans, Zenon
<1>14. MemOwn' /\ pt' \in [Procs -> Tables]  BY <1>3, <1>4, <1>13, PtStep, Zenon
<1>15. MemTypes'  BY <1>3, <1>4, <1>14, Zenon DEF MemTypes, End, Begin
<1>16. Quiet(p)  BY <1>3, <1>4, Zenon DEF Quiet, Same, MemTypes, End, Begin, Live
<1>17. ProcAt(p)'  BY <1>3, <1>4, <1>7, <1>12, Zenon DEF ProcInv, ProcAt, ProcOk, MemTypes, End, Begin, Live
<1> QED BY <1>4, <1>14, <1>15, <1>16, <1>17, QuietOk, Zenon DEF MemInv

LEMMA GrowDoneInv ==
  ASSUME MemInv, NEW p \in Procs, GrowDone(p)
  PROVE  MemInv'
<1> USE DEF MemInv, GrowDone, Live, End, Begin
<1>1. MemTypes /\ ProcInv /\ ForkInv /\ NVPAGES \in Nat  BY MemAssumption, Zenon
<1>2. /\ sz[p] \in Nat /\ Vp(sz[p]) \in Nat /\ at[p] \in Nat /\ nsz[p] \in Nat /\ Vp(nsz[p]) \in Nat
  BY <1>1, VpNat, Zenon DEF MemTypes
<1>3. Vp(nsz[p]) <= at[p]  BY <1>2, VpNat, VpFacts, Zenon
<1>4. MemTypes'  BY <1>1, <1>2, Zenon DEF MemTypes
<1>5. Quiet(p)  BY <1>1, ZenonT(60) DEF Quiet, Same, MemTypes
<1>6. at[p] = Vp(nsz[p])  BY <1>1, <1>2, <1>3 DEF ProcInv, ProcAt, ProcOk
<1>7. ProcAt(p)'  BY <1>1, <1>2, <1>6, Zenon DEF ProcInv, ProcAt, ProcOk, MemTypes
<1> QED BY <1>1, <1>4, <1>5, <1>7, OwnSame, QuietOk, Zenon

LEMMA SbrkLazyInv ==
  ASSUME MemInv, NEW p \in Procs, NEW n \in Deltas, SbrkLazy(p, n)
  PROVE  MemInv'
<1> USE DEF MemInv, SbrkLazy, Live, local
<1>1. MemTypes /\ ProcInv /\ ForkInv /\ n \in Int /\ NVPAGES \in Nat  BY MemAssumption, Zenon
<1>2. sz[p] \in Nat /\ sz[p] + n \in Nat /\ Vp(sz[p]) \in Nat /\ Vp(sz[p] + n) \in Nat
  BY <1>1, VpNat DEF MemTypes
<1>3. Vp(sz[p]) <= Vp(sz[p] + n) /\ Vp(sz[p] + n) <= NVPAGES  BY <1>1, <1>2, VpFacts
<1>4. MemTypes'  BY <1>1, <1>2, Zenon DEF MemTypes
<1>5. Quiet(p)  BY <1>1, Zenon DEF Quiet, Same, MemTypes
<1>6. Below(pt[p], Vp(sz[p]))  BY <1>1, Zenon DEF ProcInv, ProcAt, ProcOk
<1>7. Below(pt[p], Vp(sz[p] + n))  BY <1>2, <1>3, <1>6 DEF Below, VPages
<1>8. ProcAt(p)'  BY <1>1, <1>2, <1>3, <1>7, Zenon DEF ProcInv, ProcAt, ProcOk, MemTypes
<1> QED BY <1>1, <1>4, <1>5, <1>8, OwnSame, QuietOk, Zenon

LEMMA SbrkShrinkInv ==
  ASSUME MemInv, NEW p \in Procs, NEW n \in Deltas, SbrkShrink(p, n)
  PROVE  MemInv'
<1>1. PICK u : u = uvmdealloc(pt[p], free, sz[p], sz[p] + n)  BY Zenon
<1>2. /\ Live(p, "user") /\ n < 0 /\ sz[p] + n >= 0 /\ pt' = [pt EXCEPT ![p] = u.t] /\ free' = u.free
      /\ sz' = [sz EXCEPT ![p] = sz[p] + n] /\ UNCHANGED <<trapframe, state, pc, at, nsz, npt, arg, child>>
  BY <1>1, Zenon DEF SbrkShrink, local
<1>3. MemTypes /\ MemOwn /\ ProcInv /\ ForkInv /\ n \in Int /\ NVPAGES \in Nat  BY MemAssumption, Zenon DEF MemInv
<1>4. sz[p] \in Nat /\ sz[p] + n \in Nat /\ Vp(sz[p]) \in Nat /\ Vp(sz[p] + n) \in Nat
  BY <1>2, <1>3, VpNat DEF MemTypes
<1>5. Vp(sz[p] + n) <= Vp(sz[p])  BY <1>2, <1>3, <1>4, VpFacts
<1>6. Below(pt[p], Vp(sz[p])) /\ Rooted(pt[p]) /\ Vp(sz[p]) <= NVPAGES
  BY <1>2, <1>3, Zenon DEF ProcInv, ProcAt, ProcOk, Live
<1>7. Apart(pt[p], free)  BY <1>3, MemApart, Zenon
<1>8. Moves(pt[p], free, u.t, u.free) /\ Below(u.t, Vp(sz[p] + n)) /\ Rooted(u.t)
  BY <1>1, <1>4, <1>6, <1>7, DeallocOk
<1>9. MemOwn' /\ pt' \in [Procs -> Tables]  BY <1>2, <1>3, <1>8, PtStep, Zenon
<1>10. MemTypes'  BY <1>2, <1>3, <1>4, <1>9, Zenon DEF MemTypes
<1>11. Quiet(p)  BY <1>2, <1>3, ZenonT(60) DEF Quiet, Same, MemTypes, Live
<1>12. ProcAt(p)'  BY <1>2, <1>3, <1>4, <1>5, <1>6, <1>8 DEF ProcInv, ProcAt, ProcOk, MemTypes, Live
<1> QED BY <1>3, <1>9, <1>10, <1>11, <1>12, QuietOk, Zenon DEF MemInv

\* A page fault is at a user page, which will be freed with the others.
LEMMA VmFaultInv ==
  ASSUME MemInv, NEW p \in Procs, NEW v \in VPages, VmFault(p, v) \/ VmFaultFails(p, v)
  PROVE  MemInv'
<1>1. PICK r : r = AddPage(pt[p], free, v, "rw")  BY Zenon
<1>2. /\ Live(p, "user") /\ v * PG < sz[p] /\ pt[p].leaf[v] = 0 /\ pt' = [pt EXCEPT ![p] = r.t] /\ free' = r.free
      /\ state' = state \/ state' = [state EXCEPT ![p] = "zombie"]
      /\ UNCHANGED <<sz, trapframe, pc, at, nsz, npt, arg, child>>
  BY <1>1, Zenon DEF VmFault, VmFaultFails, local
<1>3. MemTypes /\ MemOwn /\ ProcInv /\ ForkInv  BY Zenon DEF MemInv
<1>4. sz[p] \in Nat /\ Vp(sz[p]) \in Nat /\ v \in Nat  BY <1>3, VpNat DEF MemTypes, VPages
<1>5. v < Vp(sz[p])  BY <1>2, <1>4, VpFacts, Zenon
<1>6. Below(pt[p], Vp(sz[p])) /\ Rooted(pt[p])  BY <1>2, <1>3, Zenon DEF ProcInv, ProcAt, ProcOk, Live
<1>7. Apart(pt[p], free) /\ free \in SUBSET Pages  BY <1>3, MemApart, Zenon
<1>8. Added(pt[p], free, r.t, r.free, r.ok, v, "rw")  BY <1>1, <1>2, <1>7, AddPageOk, ZenonT(60) DEF Perms
<1>9. Rooted(r.t) /\ Below(r.t, Vp(sz[p]))  BY <1>4, <1>5, <1>6, <1>7, <1>8, AddedShape
<1>10. MemOwn' /\ pt' \in [Procs -> Tables]  BY <1>2, <1>3, <1>8, PtStep, Zenon DEF Added
<1>11. MemTypes'  BY <1>2, <1>3, <1>10, Zenon DEF MemTypes
<1>12. Quiet(p)  BY <1>2, <1>3, Zenon DEF Quiet, Same, MemTypes, Live
<1>13. ProcAt(p)'  BY <1>2, <1>3, <1>9, Zenon DEF ProcInv, ProcAt, ProcOk, MemTypes, Live
<1> QED BY <1>3, <1>10, <1>11, <1>12, <1>13, QuietOk, Zenon DEF MemInv

LEMMA ExitInv ==
  ASSUME MemInv, NEW p \in Procs, Exit(p)
  PROVE  MemInv'
<1> USE DEF MemInv, Exit, Live, local
<1>1. MemTypes'  BY Zenon DEF MemTypes
<1>2. Quiet(p)  BY Zenon DEF Quiet, Same, MemTypes
<1>3. ProcAt(p)'  BY Zenon DEF ProcInv, ProcAt, ProcOk, MemTypes
<1> QED BY <1>1, <1>2, <1>3, OwnSame, QuietOk, Zenon

---------------------------------------------------------------------------
(* fork(), exit() and wait() *)

\* freeproc() frees the trapframe and all pages of the table, when the size
\* it is given is above all leaves.
LEMMA FreeProcOwn ==
  ASSUME MemTypes, MemOwn, NEW q \in Procs, NEW t, NEW f, Moves(pt[q], free, t, f),
         NEW s \in Nat, Below(t, Vp(s)), trapframe[q] # 0, free' = freeproc(q, t, f, s),
         pt' = [pt EXCEPT ![q] = NoTable], trapframe' = [trapframe EXCEPT ![q] = 0],
         UNCHANGED <<npt, arg>>
  PROVE  MemOwn' /\ pt' \in [Procs -> Tables] /\ trapframe' \in [Procs -> Frames]
<1>1. PICK g, x : g = proc_freepagetable(t, f, s) /\ x = trapframe[q]  BY Zenon
<1>2. Apart(t, f) /\ NoTable \in Tables  BY NoTableIs, Zenon DEF Moves
<1>3. Moves(pt[q], free, NoTable, g)  BY <1>1, <1>2, FreeTableOk, MovesTrans, Zenon
<1>4. Own(Uses(pt', npt, trapframe, arg), g)  BY <1>3, OwnPt, Zenon DEF MemTypes, MemOwn
<1>5. free' = g \cup ({x} \ {0}) /\ 0 \in Frames  BY <1>1, Zenon DEF freeproc, Frames
<1>6. Swaps(x, g, 0, free')  BY <1>5, Zenon DEF Swaps
<1>7. Own(Uses(pt', npt, trapframe', arg), free')
  BY <1>1, <1>4, <1>5, <1>6, OwnTrapframe, Zenon DEF MemTypes
<1> QED BY <1>2, <1>5, <1>7, Zenon DEF MemOwn, MemTypes

LEMMA ReapInv ==
  ASSUME MemInv, NEW q \in Procs, Reap(q)
  PROVE  MemInv'
<1>1. /\ state[q] = "zombie" /\ free' = freeproc(q, pt[q], free, sz[q])
      /\ pt' = [pt EXCEPT ![q] = NoTable] /\ trapframe' = [trapframe EXCEPT ![q] = 0]
      /\ sz' = [sz EXCEPT ![q] = 0] /\ state' = [state EXCEPT ![q] = "unused"]
      /\ UNCHANGED <<pc, at, nsz, npt, arg, child>>
  BY Zenon DEF Reap, local
<1>2. MemTypes /\ MemOwn /\ ProcInv /\ ForkInv /\ sz[q] \in Nat  BY Zenon DEF MemInv, MemTypes
<1>3. pc[q] = "user" /\ trapframe[q] # 0 /\ Below(pt[q], Vp(sz[q]))  BY <1>1, <1>2, Zenon DEF ProcInv, ProcAt, ProcOk
<1>4. Apart(pt[q], free)  BY <1>2, MemApart, Zenon
<1>5. Moves(pt[q], free, pt[q], free)  BY <1>4, MovesSame, Zenon DEF Apart
<1>6. MemOwn' /\ pt' \in [Procs -> Tables] /\ trapframe' \in [Procs -> Frames]
  BY <1>1, <1>2, <1>3, <1>5, FreeProcOwn, Zenon
<1>7. MemTypes'  BY <1>1, <1>2, <1>6, Zenon DEF MemTypes
<1>8. Quiet(q)  BY <1>1, <1>2, <1>3, Zenon DEF Quiet, Same, MemTypes
<1>9. Rooted(NoTable) /\ Vp(0) = 0 /\ Below(NoTable, 0) /\ 0 <= NVPAGES  BY EmptyOk, Zenon
<1>10. ProcAt(q)'  BY <1>1, <1>2, <1>3, <1>9 DEF ProcInv, ProcAt, ProcOk, MemTypes
<1> QED BY <1>2, <1>6, <1>7, <1>8, <1>10, QuietOk, Zenon DEF MemInv

\* The parent p and the child c are the only ones that change.
LEMMA PairOk ==
  ASSUME ProcInv, NEW p \in Procs, NEW c \in Procs, ProcAt(p)', ProcAt(c)',
         \A q \in Procs : q # p /\ q # c => Same(q)
  PROVE  ProcInv'
BY SameOk, Zenon DEF ProcInv

\* The fork of p has a child that nobody else makes.
LEMMA ForkChild ==
  ASSUME MemInv, NEW p \in Procs, pc[p] = "fork", NEW c, c = child[p]
  PROVE  /\ c \in Procs /\ c # p /\ state[c] = "used" /\ Below(pt[c], at[p]) /\ pc[c] = "user"
         /\ \A q \in Procs : q # p /\ pc[q] = "fork" => child[q] # c
<1>1. c \in Procs /\ state[c] = "used" /\ Below(pt[c], at[p])  BY Zenon DEF MemInv, MemTypes, ForkInv
<1>2. pc[c] = "user"  BY <1>1, Zenon DEF MemInv, ProcInv, ProcAt, ProcOk
<1>3. \A q \in Procs : q # p /\ pc[q] = "fork" => child[q] # c  BY Zenon DEF MemInv, ForkInv
<1> QED BY <1>1, <1>2, <1>3, Zenon

LEMMA ForkStartInv ==
  ASSUME MemInv, NEW p \in Procs, NEW q \in Procs, ForkStart(p, q)
  PROVE  MemInv'
<1>1. PICK m, h : m = Min(free) /\ h = free \ {m}  BY Zenon
<1>2. PICK r : r = proc_pagetable(h)  BY Zenon
<1>3. /\ Live(p, "user") /\ state[q] = "unused" /\ free # {}
      /\ trapframe' = [trapframe EXCEPT ![q] = m] /\ pt' = [pt EXCEPT ![q] = r.t] /\ free' = r.free
      /\ state' = [state EXCEPT ![q] = "used"] /\ child' = [child EXCEPT ![p] = q]
      /\ Begin(p, "fork", 0, 0) /\ UNCHANGED <<sz, npt, arg>>
  BY <1>1, <1>2, Zenon DEF ForkStart
<1>4. MemTypes /\ MemOwn /\ ProcInv /\ ForkInv  BY Zenon DEF MemInv
<1>5. pt[q] = NoTable /\ trapframe[q] = 0 /\ pc[q] = "user" /\ sz[q] = 0 /\ p # q
  BY <1>3, <1>4, Zenon DEF ProcInv, ProcAt, ProcOk, Live
<1>6. free \in SUBSET Pages  BY <1>4, MemApart, Zenon
<1>7. m \in free /\ h \in SUBSET Pages /\ m \in Frames /\ m # 0
  BY <1>1, <1>3, <1>6, MinIn, NotAPage, Zenon DEF Frames
<1>8. Swaps(trapframe[q], free, m, h)  BY <1>1, <1>5, <1>7, Zenon DEF Swaps
<1>9. Own(Uses(pt, npt, trapframe', arg), h)
  BY <1>3, <1>4, <1>7, <1>8, OwnTrapframe, Zenon DEF MemTypes, MemOwn
<1>10. Moves(NoTable, h, r.t, r.free) /\ Below(r.t, 0) /\ Rooted(r.t)  BY <1>2, <1>7, NewTableOk, Zenon
<1>11. Own(Uses(pt', npt, trapframe', arg), r.free)
  BY <1>3, <1>4, <1>5, <1>9, <1>10, OwnPt, Zenon DEF MemTypes
<1>12. MemOwn'  BY <1>3, <1>11, Zenon DEF MemOwn
<1>13. r.t \in Tables  BY <1>10, Zenon DEF Moves, Apart
<1>14. MemTypes'  BY <1>3, <1>4, <1>7, <1>13, Zenon DEF MemTypes, Begin
<1>15. \A x \in Procs : x # p /\ x # q => Same(x)  BY <1>3, <1>4, Zenon DEF Same, MemTypes, Begin
<1>16. sz[p] \in Nat /\ Vp(sz[p]) \in Nat  BY <1>4, VpNat, ZenonT(60) DEF MemTypes
<1>17. ProcAt(p)'  BY <1>3, <1>4, <1>5, <1>16 DEF ProcInv, ProcAt, ProcOk, MemTypes, Begin, Live
<1>18. ProcAt(q)'  BY <1>3, <1>4, <1>5, <1>7, <1>10, Zenon DEF ProcInv, ProcAt, ProcOk, MemTypes, Begin
<1>19. ForkInv'
  <2>1. /\ pc'[p] = "fork" /\ child'[p] = q /\ at'[p] = 0 /\ state'[q] = "used" /\ pt'[q] = r.t
        /\ pc[p] = "user"
    BY <1>3, <1>4, Zenon DEF MemTypes, Begin, Live
  <2>2. \A x \in Procs : x # p => pc'[x] = pc[x] /\ child'[x] = child[x] /\ at'[x] = at[x]
    BY <1>3, <1>4, Zenon DEF MemTypes, Begin
  <2>3. \A x \in Procs : x # q => state'[x] = state[x] /\ pt'[x] = pt[x]  BY <1>3, <1>4, Zenon DEF MemTypes
  <2>4. ASSUME NEW x \in Procs, x # p, pc'[x] = "fork"
        PROVE  child'[x] # q /\ state'[child'[x]] = "used" /\ Below(pt'[child'[x]], at'[x])
    <3>1. state[child[x]] = "used" /\ Below(pt[child[x]], at[x]) /\ child[x] \in Procs
      BY <1>4, <2>2, <2>4, Zenon DEF ForkInv, MemTypes
    <3>2. child[x] # q  BY <1>3, <3>1, Zenon
    <3> QED BY <2>2, <2>3, <2>4, <3>1, <3>2, Zenon
  <2>5. ASSUME NEW y \in Procs, state'[y] = "used" PROVE \E x \in Procs : pc'[x] = "fork" /\ child'[x] = y
    <3>1. CASE y = q  BY <2>1, <3>1, Zenon
    <3>2. CASE y # q
      <4>1. PICK x \in Procs : pc[x] = "fork" /\ child[x] = y  BY <1>4, <2>3, <2>5, <3>2, Zenon DEF ForkInv
      <4> QED BY <2>1, <2>2, <4>1, Zenon
    <3> QED BY <3>1, <3>2, Zenon
  <2>6. ASSUME NEW x \in Procs, NEW y \in Procs, pc'[x] = "fork", pc'[y] = "fork", child'[x] = child'[y]
        PROVE  x = y
    <3>1. CASE x # p /\ y # p
      <4>1. pc[x] = "fork" /\ pc[y] = "fork" /\ child[x] = child[y]  BY <2>2, <2>6, <3>1, Zenon
      <4> QED BY <1>4, <4>1, Zenon DEF ForkInv
    <3> QED BY <2>1, <2>4, <2>6, <3>1, Zenon
  <2> QED BY <1>10, <2>1, <2>4, <2>5, <2>6, Zenon DEF ForkInv
<1> QED BY <1>4, <1>12, <1>14, <1>15, <1>17, <1>18, <1>19, PairOk, ZenonT(60) DEF MemInv

\* A round of uvmcopy() changes the table of the child c to t.
LEMMA ForkRoundOk ==
  ASSUME MemInv, NEW p \in Procs, Live(p, "fork"), at[p] < Vp(sz[p]), Step(p),
         NEW c, c = child[p], NEW t \in Tables, Rooted(t), Below(t, at[p] + 1),
         pt' = [pt EXCEPT ![c] = t], UNCHANGED <<sz, trapframe, state, npt, arg, child>>
  PROVE  MemTypes' /\ ProcInv' /\ ForkInv'
<1>1. MemTypes /\ ProcInv /\ ForkInv /\ pc[p] = "fork"  BY Zenon DEF MemInv, Live
<1>2. /\ c \in Procs /\ c # p /\ state[c] = "used" /\ pc[c] = "user"
      /\ \A q \in Procs : q # p /\ pc[q] = "fork" => child[q] # c
  BY <1>1, ForkChild, ZenonT(60)
<1>3. at[p] \in Nat /\ sz[p] \in Nat /\ Vp(sz[p]) \in Nat  BY <1>1, VpNat, Zenon DEF MemTypes
<1>4. MemTypes'  BY <1>1, <1>2, <1>3 DEF MemTypes, Step
<1>5. \A q \in Procs : q # p /\ q # c => Same(q)  BY <1>1, <1>2, Zenon DEF Same, MemTypes, Step
<1>6. ProcAt(p)'  BY <1>1, <1>2, <1>3 DEF ProcInv, ProcAt, ProcOk, MemTypes, Step, Live
<1>7. ProcAt(c)'  BY <1>1, <1>2, Zenon DEF ProcInv, ProcAt, ProcOk, MemTypes, Step
<1>8. at'[p] = at[p] + 1 /\ pt'[c] = t /\ \A q \in Procs : q # c => pt'[q] = pt[q]  BY <1>1, <1>2, Zenon DEF MemTypes, Step
<1>9. \A q \in Procs : q # p => at'[q] = at[q]  BY <1>1, Zenon DEF MemTypes, Step
<1>10. ASSUME NEW q \in Procs, pc[q] = "fork" PROVE state[child[q]] = "used" /\ Below(pt'[child[q]], at'[q])
  <2>1. state[child[q]] = "used" /\ Below(pt[child[q]], at[q]) /\ child[q] \in Procs
    BY <1>1, <1>10, Zenon DEF ForkInv, MemTypes
  <2>2. CASE q = p  BY <1>8, <2>1, <2>2, Zenon
  <2>3. CASE q # p
    <3>1. pt'[child[q]] = pt[child[q]] /\ at'[q] = at[q]  BY <1>2, <1>8, <1>9, <1>10, <2>1, <2>3, Zenon
    <3> QED BY <2>1, <3>1, Zenon
  <2> QED BY <2>2, <2>3, Zenon
<1>11. pc' = pc /\ child' = child /\ state' = state  BY Zenon DEF Step
<1>12. ForkInv'  BY <1>1, <1>10, <1>11 DEF ForkInv
<1> QED BY <1>1, <1>2, <1>4, <1>5, <1>6, <1>7, <1>12, PairOk, ZenonT(60)

LEMMA ForkSkipInv ==
  ASSUME MemInv, NEW p \in Procs, ForkSkip(p)
  PROVE  MemInv'
<1>1. /\ Live(p, "fork") /\ at[p] < Vp(sz[p]) /\ Step(p)
      /\ UNCHANGED <<free, sz, pt, trapframe, state, npt, arg, child>>
  BY Zenon DEF ForkSkip, table
<1>2. PICK c : c = child[p]  BY Zenon
<1>3. c \in Procs /\ Below(pt[c], at[p])  BY <1>1, <1>2, ForkChild, Zenon DEF Live
<1>4. pt[c] \in Tables /\ Rooted(pt[c]) /\ at[p] \in Nat  BY <1>3, Zenon DEF MemInv, MemTypes, ProcInv, ProcAt, ProcOk
<1>5. Below(pt[c], at[p] + 1)  BY <1>3, <1>4 DEF Below, VPages
<1>6. pt' = [pt EXCEPT ![c] = pt[c]]  BY <1>1, <1>3, Zenon DEF MemInv, MemTypes
<1>7. MemTypes' /\ ProcInv' /\ ForkInv'  BY <1>1, <1>2, <1>4, <1>5, <1>6, ForkRoundOk, Zenon
<1> QED BY <1>1, <1>7, OwnSame, Zenon DEF MemInv

\* The page uvmcopy() comes to is not mapped in the child.
LEMMA ForkAt ==
  ASSUME MemInv, NEW p \in Procs, Live(p, "fork"), at[p] < Vp(sz[p]), pt[p].leaf[at[p]] # 0,
         NEW c, c = child[p], NEW x, x = pt[p].perm[at[p]]
  PROVE  /\ at[p] \in VPages /\ at[p] \in Nat /\ c \in Procs /\ pt[c].leaf[at[p]] = 0 /\ x \in Perms /\ x # "none"
         /\ Apart(pt[c], free) /\ free \in SUBSET Pages /\ Rooted(pt[c]) /\ Below(pt[c], at[p])
<1>1. MemTypes /\ MemOwn /\ ProcInv /\ NVPAGES \in Nat  BY MemAssumption, Zenon DEF MemInv
<1>2. c \in Procs /\ Below(pt[c], at[p])  BY ForkChild, Zenon DEF Live
<1>3. /\ at[p] \in Nat /\ sz[p] \in Nat /\ Vp(sz[p]) \in Nat /\ Vp(sz[p]) <= NVPAGES /\ pt[p] \in Tables
      /\ Rooted(pt[p]) /\ Rooted(pt[c])
  BY <1>1, <1>2, VpNat, Zenon DEF MemTypes, ProcInv, ProcAt, ProcOk
<1>4. at[p] \in VPages  BY <1>1, <1>3 DEF VPages
<1>5. x \in Perms  BY <1>3, <1>4, Zenon DEF Tables
<1>6. x # "none"  BY <1>3, <1>4, Zenon DEF Rooted
<1>7. pt[c].leaf[at[p]] = 0  BY <1>2, <1>3, <1>4 DEF Below
<1> QED BY <1>1, <1>2, <1>3, <1>4, <1>5, <1>6, <1>7, MemApart, Zenon

LEMMA ForkPageInv ==
  ASSUME MemInv, NEW p \in Procs, ForkPage(p)
  PROVE  MemInv'
<1>1. PICK c, x : c = child[p] /\ x = pt[p].perm[at[p]]  BY Zenon
<1>2. PICK r : r = AddPage(pt[c], free, at[p], x)  BY Zenon
<1>3. /\ Live(p, "fork") /\ at[p] < Vp(sz[p]) /\ pt[p].leaf[at[p]] # 0 /\ pt' = [pt EXCEPT ![c] = r.t]
      /\ free' = r.free /\ Step(p) /\ UNCHANGED <<sz, trapframe, state, npt, arg, child>>
  BY <1>1, <1>2, Zenon DEF ForkPage
<1>4. /\ at[p] \in VPages /\ at[p] \in Nat /\ c \in Procs /\ pt[c].leaf[at[p]] = 0 /\ x \in Perms /\ x # "none"
      /\ Apart(pt[c], free) /\ free \in SUBSET Pages /\ Rooted(pt[c]) /\ Below(pt[c], at[p])
  BY <1>1, <1>3, ForkAt, Zenon
<1>5. Added(pt[c], free, r.t, r.free, r.ok, at[p], x)  BY <1>2, <1>4, AddPageOk, Zenon
<1>6. Below(pt[c], at[p] + 1)  BY <1>4 DEF Below, VPages
<1>7. Rooted(r.t) /\ Below(r.t, at[p] + 1)  BY <1>4, <1>5, <1>6, AddedShape
<1>8. Moves(pt[c], free, r.t, r.free) /\ r.t \in Tables  BY <1>5, Zenon DEF Added, Moves, Apart
<1>9. MemOwn'  BY <1>3, <1>4, <1>8, PtStep, Zenon DEF MemInv
<1>10. MemTypes' /\ ProcInv' /\ ForkInv'  BY <1>1, <1>3, <1>7, <1>8, ForkRoundOk, Zenon
<1> QED BY <1>9, <1>10, Zenon DEF MemInv

\* The fork of p is over, one way or the other: its child is no longer "used".
LEMMA ForkOverOk ==
  ASSUME MemInv, NEW p \in Procs, pc[p] = "fork", End(p), NEW c, c = child[p],
         NEW st, st # "used", state' = [state EXCEPT ![c] = st], child' = [child EXCEPT ![p] = p],
         \A q \in Procs : q # c => pt'[q] = pt[q]
  PROVE  ForkInv'
<1>1. MemTypes /\ ForkInv  BY Zenon DEF MemInv
<1>2. c \in Procs /\ \A q \in Procs : q # p /\ pc[q] = "fork" => child[q] # c  BY ForkChild
<1>3. /\ pc'[p] = "user" /\ state'[c] = st /\ \A q \in Procs : q # c => state'[q] = state[q]
      /\ \A q \in Procs : q # p => pc'[q] = pc[q] /\ child'[q] = child[q] /\ at'[q] = at[q]
  BY <1>1, <1>2, Zenon DEF MemTypes, End, Begin
<1>4. ASSUME NEW q \in Procs, pc'[q] = "fork" PROVE state'[child'[q]] = "used" /\ Below(pt'[child'[q]], at'[q])
  <2>1. q # p /\ pc[q] = "fork"  BY <1>3, <1>4, Zenon
  <2>2. state[child[q]] = "used" /\ Below(pt[child[q]], at[q]) /\ child[q] \in Procs /\ child[q] # c
    BY <1>1, <1>2, <2>1, Zenon DEF ForkInv, MemTypes
  <2> QED BY <1>3, <2>1, <2>2
<1>5. ASSUME NEW q \in Procs, state'[q] = "used" PROVE \E x \in Procs : pc'[x] = "fork" /\ child'[x] = q
  <2>1. q # c /\ state[q] = "used"  BY <1>3, <1>5, Zenon
  <2>2. PICK x \in Procs : pc[x] = "fork" /\ child[x] = q  BY <1>1, <2>1, Zenon DEF ForkInv
  <2> QED BY <1>3, <2>1, <2>2, Zenon
<1>6. ASSUME NEW x \in Procs, NEW y \in Procs, pc'[x] = "fork", pc'[y] = "fork", child'[x] = child'[y]
      PROVE  x = y
  <2>1. pc[x] = "fork" /\ pc[y] = "fork" /\ child[x] = child[y]  BY <1>3, <1>6, Zenon
  <2> QED BY <1>1, <2>1, Zenon DEF ForkInv
<1> QED BY <1>4, <1>5, <1>6, Zenon DEF ForkInv

LEMMA ForkFailsInv ==
  ASSUME MemInv, NEW p \in Procs, ForkFails(p)
  PROVE  MemInv'
<1>1. PICK c, x : c = child[p] /\ x = pt[p].perm[at[p]]  BY Zenon
<1>2. PICK r : r = AddPage(pt[c], free, at[p], x)  BY Zenon
<1>3. PICK u : u = uvmunmap(r.t, r.free, 0, at[p])  BY Zenon
<1>4. /\ Live(p, "fork") /\ at[p] < Vp(sz[p]) /\ pt[p].leaf[at[p]] # 0 /\ ~r.ok
      /\ free' = freeproc(c, u.t, u.free, sz[c])
      /\ pt' = [pt EXCEPT ![c] = NoTable] /\ trapframe' = [trapframe EXCEPT ![c] = 0]
      /\ state' = [state EXCEPT ![c] = "unused"] /\ child' = [child EXCEPT ![p] = p]
      /\ End(p) /\ UNCHANGED <<sz, npt, arg>>
  BY <1>1, <1>2, <1>3, Zenon DEF ForkFails
<1>5. MemTypes /\ MemOwn /\ ProcInv /\ pc[p] = "fork"  BY <1>4, Zenon DEF MemInv, Live
<1>6. /\ at[p] \in VPages /\ at[p] \in Nat /\ c \in Procs /\ pt[c].leaf[at[p]] = 0 /\ x \in Perms
      /\ Apart(pt[c], free) /\ free \in SUBSET Pages /\ Below(pt[c], at[p])
  BY <1>1, <1>4, ForkAt, Zenon
<1>7. c # p /\ state[c] = "used" /\ pc[c] = "user"  BY <1>1, <1>5, ForkChild, Zenon
<1>8. sz[c] = 0 /\ trapframe[c] # 0  BY <1>5, <1>6, <1>7, Zenon DEF ProcInv, ProcAt, ProcOk
<1>9. Added(pt[c], free, r.t, r.free, r.ok, at[p], x)  BY <1>2, <1>6, AddPageOk, Zenon
<1>10. Below(r.t, at[p])
  <2>1. \A n \in Nat : Below(pt[c], n) /\ (r.ok => at[p] < n) => Below(r.t, n)  BY <1>6, <1>9, AddedShape, Zenon
  <2> QED BY <1>4, <1>6, <2>1, Zenon
<1>11. Moves(pt[c], free, r.t, r.free) /\ Apart(r.t, r.free)  BY <1>9, ZenonT(60) DEF Added, Moves
<1>12. Moves(r.t, r.free, u.t, u.free) /\ Cleared(r.t, u.t, 0, at[p])  BY <1>3, <1>6, <1>11, UnmapOk
<1>13. Moves(pt[c], free, u.t, u.free)  BY <1>11, <1>12, MovesTrans, Zenon
<1>14. Vp(0) = 0 /\ 0 <= NVPAGES /\ Rooted(NoTable) /\ Below(NoTable, 0)  BY EmptyOk, ZenonT(60)
<1>15. Below(u.t, Vp(sz[c]))  BY <1>6, <1>8, <1>10, <1>12, <1>14 DEF Below, Cleared, VPages
<1>16. sz[c] \in Nat  BY <1>8
<1>17. MemOwn' /\ pt' \in [Procs -> Tables] /\ trapframe' \in [Procs -> Frames]
  BY <1>4, <1>5, <1>6, <1>8, <1>13, <1>15, <1>16, FreeProcOwn, ZenonT(60)
<1>18. MemTypes'  BY <1>4, <1>5, <1>6, <1>17, Zenon DEF MemTypes, End, Begin
<1>19. \A q \in Procs : q # p /\ q # c => Same(q)  BY <1>4, <1>5, <1>6, Zenon DEF Same, MemTypes, End, Begin
<1>20. ProcAt(p)'  BY <1>4, <1>5, <1>6, <1>7, ZenonT(60) DEF ProcInv, ProcAt, ProcOk, MemTypes, End, Begin, Live
<1>21. ProcAt(c)'
  <2>1. npt[c] = NoTable /\ arg[c] = 0  BY <1>5, <1>6, <1>7, ZenonT(60) DEF ProcInv, ProcAt, ProcOk
  <2>2. /\ pt'[c] = NoTable /\ npt'[c] = NoTable /\ trapframe'[c] = 0 /\ arg'[c] = 0
        /\ sz'[c] = 0 /\ state'[c] = "unused" /\ pc'[c] = "user"
    BY <1>4, <1>5, <1>6, <1>7, <1>8, <2>1 DEF MemTypes, End, Begin
  <2> QED BY <1>14, <2>2 DEF ProcAt, ProcOk
<1>22. \A q \in Procs : q # c => pt'[q] = pt[q]  BY <1>4, <1>5, <1>6, Zenon DEF MemTypes
<1>23. ForkInv'  BY <1>1, <1>4, <1>5, <1>22, ForkOverOk, Zenon
<1> QED BY <1>5, <1>6, <1>17, <1>18, <1>19, <1>20, <1>21, <1>23, PairOk, ZenonT(60) DEF MemInv

LEMMA ForkDoneInv ==
  ASSUME MemInv, NEW p \in Procs, ForkDone(p)
  PROVE  MemInv'
<1>1. PICK c : c = child[p]  BY Zenon
<1>2. /\ Live(p, "fork") /\ at[p] >= Vp(sz[p]) /\ sz' = [sz EXCEPT ![c] = sz[p]]
      /\ state' = [state EXCEPT ![c] = "live"] /\ child' = [child EXCEPT ![p] = p]
      /\ End(p) /\ UNCHANGED <<free, pt, trapframe, npt, arg>>
  BY <1>1, Zenon DEF ForkDone
<1>3. MemTypes /\ MemOwn /\ ProcInv /\ pc[p] = "fork" /\ state[p] = "live"  BY <1>2, Zenon DEF MemInv, Live
<1>4. c \in Procs /\ c # p /\ state[c] = "used" /\ pc[c] = "user" /\ Below(pt[c], at[p])
  BY <1>1, <1>3, ForkChild, Zenon
<1>5. at[p] \in Nat /\ sz[p] \in Nat /\ Vp(sz[p]) \in Nat  BY <1>3, VpNat, ZenonT(60) DEF MemTypes
<1>6. at[p] = Vp(sz[p])  BY <1>2, <1>3, <1>5 DEF ProcInv, ProcAt, ProcOk
<1>7. MemTypes'  BY <1>2, <1>3, <1>4, Zenon DEF MemTypes, End, Begin
<1>8. \A q \in Procs : q # p /\ q # c => Same(q)  BY <1>2, <1>3, <1>4, Zenon DEF Same, MemTypes, End, Begin
<1>9. ProcAt(p)'  BY <1>2, <1>3, <1>4, Zenon DEF ProcInv, ProcAt, ProcOk, MemTypes, End, Begin
<1>10. Rooted(pt[c]) /\ Rooted(npt[c]) /\ trapframe[c] # 0 /\ npt[c] = NoTable /\ arg[c] = 0 /\ Vp(sz[p]) <= NVPAGES
  BY <1>3, <1>4, Zenon DEF ProcInv, ProcAt, ProcOk
<1>11. /\ pt'[c] = pt[c] /\ npt'[c] = npt[c] /\ trapframe'[c] = trapframe[c] /\ arg'[c] = arg[c]
       /\ sz'[c] = sz[p] /\ state'[c] = "live" /\ pc'[c] = "user"
  BY <1>2, <1>3, <1>4, Zenon DEF MemTypes, End, Begin
<1>12. ProcAt(c)'  BY <1>4, <1>6, <1>10, <1>11, Zenon DEF ProcAt, ProcOk
<1>13. ForkInv'  BY <1>1, <1>2, <1>3, ForkOverOk, Zenon
<1> QED BY <1>2, <1>3, <1>4, <1>7, <1>8, <1>9, <1>12, <1>13, OwnSame, PairOk, ZenonT(60) DEF MemInv

---------------------------------------------------------------------------
(* exec() *)

\* Pages that only change holders stay owned.
LEMMA OwnRename ==
  ASSUME NEW P, NEW f, Own(P, f), NEW Q, NEW k \in [Holders -> Holders],
         \A h \in Holders : k[k[h]] = h, \A h \in Holders : Q[h] = P[k[h]]
  PROVE  Own(Q, f)
<1>1. \A h \in Holders : k[h] \in Holders  BY Zenon
<1>2. \A h \in Holders : Q[h] \in Frames /\ Q[h] \notin f  BY <1>1, Zenon DEF Own
<1>3. ASSUME NEW h \in Holders, NEW j \in Holders, Q[h] = Q[j], Q[h] # 0 PROVE h = j
  <2>1. P[k[h]] = P[k[j]] /\ P[k[h]] # 0  BY <1>3, Zenon
  <2>2. k[h] = k[j]  BY <1>1, <2>1, Zenon DEF Own
  <2> QED BY <2>2, Zenon
<1>4. ASSUME NEW x \in Pages, x \notin f PROVE \E h \in Holders : Q[h] = x
  <2>1. PICK h \in Holders : P[h] = x  BY <1>4, Zenon DEF Own
  <2>2. k[h] \in Holders /\ Q[k[h]] = x  BY <1>1, <2>1, Zenon
  <2> QED BY <2>2, Zenon
<1> QED BY <1>2, <1>3, <1>4, Zenon DEF Own

\* The new table takes the place of the old one.
Crossed(p) ==
  [h \in Holders |-> IF h[1] = "pt" /\ h[2] = p THEN <<"npt", p, h[3]>>
                     ELSE IF h[1] = "npt" /\ h[2] = p THEN <<"pt", p, h[3]>> ELSE h]

LEMMA OwnCross ==
  ASSUME NEW a \in [Procs -> Tables], NEW b \in [Procs -> Tables], NEW c, NEW d, NEW f,
         Own(Uses(a, b, c, d), f), NEW p \in Procs, a[p] = NoTable,
         NEW u \in Tables, \A s \in Places : Page(u, s) = Page(b[p], s),
         NEW e, e = [a EXCEPT ![p] = u], NEW i, i = [b EXCEPT ![p] = NoTable]
  PROVE  Own(Uses(e, i, c, d), f)
<1>1. PICK P, Q, k : P = Uses(a, b, c, d) /\ Q = Uses(e, i, c, d) /\ k = Crossed(p)  BY Zenon
<1>2. IsUses(P, a, b, c, d) /\ IsUses(Q, e, i, c, d)  BY <1>1, UsesIs, Zenon
<1>3. e[p] = u /\ i[p] = NoTable /\ \A q \in Procs : q # p => e[q] = a[q] /\ i[q] = b[q]  BY Zenon
<1>4. /\ k \in [Holders -> Holders] /\ \A h \in Holders : k[k[h]] = h
  <2>1. ASSUME NEW h \in Holders PROVE Crossed(p)[h] \in Holders /\ Crossed(p)[Crossed(p)[h]] = h
    BY DEF Crossed, Holders
  <2>2. k = [h \in Holders |-> k[h]]  BY <1>1, Zenon DEF Crossed
  <2> QED BY <1>1, <2>1, <2>2, ZenonT(60)
<1>5. ASSUME NEW h \in Holders PROVE Q[h] = P[k[h]]
  <2>0. PICK y : y = P[k[h]]  BY Zenon
  <2>1. PICK q \in Procs : \/ \E s \in Places : h = <<"pt", q, s>> \/ h = <<"npt", q, s>>
                           \/ h = Cell("tf", q) \/ h = Cell("arg", q)
    BY HolderCases, Zenon
  <2>2. ASSUME NEW s \in Places, h = <<"pt", q, s>> PROVE Q[h] = y
    <3>1. Q[h] = Page(e[q], s) /\ P[h] = Page(a[q], s)  BY <1>2, <2>2, ZenonT(60) DEF IsUses
    <3>3. P[<<"npt", q, s>>] = Page(b[q], s)  BY <1>2, ZenonT(60) DEF IsUses
    <3>2. k[h] = IF q = p THEN <<"npt", q, s>> ELSE h  BY <1>1, <2>2, Zenon DEF Crossed
    <3> QED BY <1>3, <2>0, <3>1, <3>2, <3>3, Zenon
  <2>3. ASSUME NEW s \in Places, h = <<"npt", q, s>> PROVE Q[h] = y
    <3>1. Q[h] = Page(i[q], s) /\ P[h] = Page(b[q], s)  BY <1>2, <2>3, ZenonT(60) DEF IsUses
    <3>3. P[<<"pt", q, s>>] = Page(a[q], s)  BY <1>2, ZenonT(60) DEF IsUses
    <3>2. k[h] = IF q = p THEN <<"pt", q, s>> ELSE h  BY <1>1, <2>3, Zenon DEF Crossed
    <3> QED BY <1>3, <2>0, <3>1, <3>2, <3>3, Zenon
  <2>4. ASSUME h = Cell("tf", q) PROVE Q[h] = y
    <3>1. P[h] = c[q] /\ Q[h] = c[q]  BY <1>2, <2>4, Zenon DEF IsUses
    <3>2. k[h] = h  BY <1>1, <2>4, Zenon DEF Crossed, Cell
    <3> QED BY <2>0, <3>1, <3>2, Zenon
  <2>5. ASSUME h = Cell("arg", q) PROVE Q[h] = y
    <3>1. P[h] = d[q] /\ Q[h] = d[q]  BY <1>2, <2>5, Zenon DEF IsUses
    <3>2. k[h] = h  BY <1>1, <2>5, Zenon DEF Crossed, Cell
    <3> QED BY <2>0, <3>1, <3>2, Zenon
  <2>6. Q[h] = y  BY <2>1, <2>2, <2>3, <2>4, <2>5, Zenon
  <2> QED BY <2>0, <2>6, Zenon
<1>6. Own(P, f) /\ (\A h \in Holders : Q[h] = P[k[h]])  BY <1>1, <1>5, Zenon
<1>7. Own(Q, f)  BY <1>4, <1>6, OwnRename
<1> QED BY <1>1, <1>7, Zenon

LEMMA ExecStartInv ==
  ASSUME MemInv, NEW p \in Procs, ExecStart(p)
  PROVE  MemInv'
<1>1. PICK m, h : m = (IF pc[p] = "boot" THEN 0 ELSE Min(free)) /\ h = free \ {m}  BY Zenon
<1>2. PICK r : r = proc_pagetable(h)  BY Zenon
<1>3. /\ Live(p, "user") \/ Live(p, "boot")
      /\ free # {} /\ arg' = [arg EXCEPT ![p] = m] /\ npt' = [npt EXCEPT ![p] = r.t] /\ free' = r.free
      /\ Begin(p, "exec", 0, 0) /\ UNCHANGED <<sz, pt, trapframe, state, child>>
  BY <1>1, <1>2, Zenon DEF ExecStart, table
<1>4. MemTypes /\ MemOwn /\ ProcInv /\ ForkInv  BY Zenon DEF MemInv
<1>5. npt[p] = NoTable /\ arg[p] = 0  BY <1>3, <1>4, Zenon DEF ProcInv, ProcAt, ProcOk, Live
<1>6. free \in SUBSET Pages /\ 0 \notin free  BY <1>4, MemApart, NotAPage, Zenon
<1>7. m \in Frames /\ h \in SUBSET Pages /\ ((m = 0 /\ h = free) \/ m \in free)
  BY <1>1, <1>3, <1>6, MinIn, Zenon DEF Frames
<1>8. Swaps(arg[p], free, m, h)  BY <1>1, <1>5, <1>7, Zenon DEF Swaps
<1>9. Own(Uses(pt, npt, trapframe, arg'), h)
  BY <1>3, <1>4, <1>7, <1>8, OwnArg, Zenon DEF MemTypes, MemOwn
<1>10. Moves(NoTable, h, r.t, r.free) /\ Below(r.t, 0) /\ Rooted(r.t)  BY <1>2, <1>7, NewTableOk, Zenon
<1>11. Own(Uses(pt, npt', trapframe, arg'), r.free)
  BY <1>3, <1>4, <1>5, <1>9, <1>10, OwnNpt, ZenonT(60) DEF MemTypes
<1>12. MemOwn'  BY <1>3, <1>11, Zenon DEF MemOwn
<1>13. r.t \in Tables  BY <1>10, Zenon DEF Moves, Apart
<1>14. MemTypes'  BY <1>3, <1>4, <1>7, <1>13, Zenon DEF MemTypes, Begin
<1>15. Quiet(p)  BY <1>3, <1>4, Zenon DEF Quiet, Same, MemTypes, Begin, Live
<1>16. ProcAt(p)'  BY <1>3, <1>4, <1>10, Zenon DEF ProcInv, ProcAt, ProcOk, MemTypes, Begin, Live
<1> QED BY <1>4, <1>12, <1>14, <1>15, <1>16, QuietOk, Zenon DEF MemInv

\* uvmalloc() of the new image: its next page is a user page and not mapped.
LEMMA ExecAt ==
  ASSUME MemInv, NEW p \in Procs, Live(p, "exec"), at[p] < Target(p)
  PROVE  /\ at[p] \in VPages /\ at[p] \in Nat /\ npt[p].leaf[at[p]] = 0
         /\ Apart(npt[p], free) /\ free \in SUBSET Pages /\ Rooted(npt[p]) /\ Below(npt[p], at[p])
<1>1. MemTypes /\ MemOwn /\ at[p] \in Nat /\ NVPAGES \in Nat /\ TEXT \in Nat /\ TEXT + 2 <= NVPAGES
  BY MemAssumption, Zenon DEF MemInv, MemTypes
<1>2. Rooted(npt[p]) /\ Below(npt[p], at[p])  BY Zenon DEF MemInv, ProcInv, ProcAt, ProcOk, Live
<1>3. at[p] \in VPages  BY <1>1 DEF VPages, Target
<1>4. npt[p].leaf[at[p]] = 0  BY <1>1, <1>2, <1>3 DEF Below
<1> QED BY <1>1, <1>2, <1>3, <1>4, MemApart, Zenon

LEMMA ExecPageInv ==
  ASSUME MemInv, NEW p \in Procs, ExecPage(p)
  PROVE  MemInv'
<1>1. PICK x : x = flags2perm(at[p])  BY Zenon
<1>2. PICK r : r = AddPage(npt[p], free, at[p], x)  BY Zenon
<1>3. /\ Live(p, "exec") /\ at[p] < Target(p) /\ npt' = [npt EXCEPT ![p] = r.t] /\ free' = r.free
      /\ Step(p) /\ UNCHANGED <<sz, pt, trapframe, state, arg, child>>
  BY <1>1, <1>2, Zenon DEF ExecPage, table
<1>4. MemTypes /\ MemOwn /\ ProcInv /\ ForkInv  BY Zenon DEF MemInv
<1>5. /\ at[p] \in VPages /\ at[p] \in Nat /\ npt[p].leaf[at[p]] = 0
      /\ Apart(npt[p], free) /\ free \in SUBSET Pages /\ Rooted(npt[p]) /\ Below(npt[p], at[p])
  BY <1>3, ExecAt, Zenon
<1>6. x \in Perms /\ x # "none"  BY <1>1, Zenon DEF flags2perm, Perms
<1>7. Added(npt[p], free, r.t, r.free, r.ok, at[p], x)  BY <1>2, <1>5, <1>6, AddPageOk, ZenonT(60)
<1>8. Below(npt[p], at[p] + 1)  BY <1>5 DEF Below, VPages
<1>9. Rooted(r.t) /\ Below(r.t, at[p] + 1)  BY <1>5, <1>6, <1>7, <1>8, AddedShape
<1>10. MemOwn' /\ npt' \in [Procs -> Tables]  BY <1>3, <1>4, <1>7, NptStep, ZenonT(60) DEF Added
<1>11. MemTypes'  BY <1>3, <1>4, <1>5, <1>10 DEF MemTypes, Step
<1>12. Quiet(p)  BY <1>3, <1>4, Zenon DEF Quiet, Same, MemTypes, Step, Live
<1>13. ProcAt(p)'  BY <1>3, <1>4, <1>9, Zenon DEF ProcInv, ProcAt, ProcOk, MemTypes, Step, Live
<1> QED BY <1>4, <1>10, <1>11, <1>12, <1>13, QuietOk, Zenon DEF MemInv

LEMMA ExecLoadInv ==
  ASSUME MemInv, NEW p \in Procs, ExecLoad(p)
  PROVE  MemInv'
<1> USE DEF MemInv, ExecLoad, Live, table
<1>1. MemTypes /\ ProcInv /\ ForkInv /\ TEXT * PG \in Nat  BY MemAssumption, VpNat, Zenon
<1>2. MemTypes'  BY <1>1, Zenon DEF MemTypes
<1>3. Quiet(p)  BY <1>1, Zenon DEF Quiet, Same, MemTypes
<1>4. ProcAt(p)'  BY <1>1, Zenon DEF ProcInv, ProcAt, ProcOk, MemTypes
<1> QED BY <1>1, <1>2, <1>3, <1>4, OwnSame, QuietOk, ZenonT(60)

\* A failed exec frees what it allocated, when s is above all leaves.
LEMMA ExecEndInv ==
  ASSUME MemInv, NEW p \in Procs, Live(p, "exec"), NEW t, NEW f, Moves(npt[p], free, t, f),
         NEW s \in Nat, Below(t, Vp(s)), ExecEnd(p, t, f, s)
  PROVE  MemInv'
<1>1. PICK g, x : g = proc_freepagetable(t, f, s) /\ x = arg[p]  BY Zenon
<1>2. /\ free' = g \cup ({x} \ {0}) /\ npt' = [npt EXCEPT ![p] = NoTable] /\ arg' = [arg EXCEPT ![p] = 0]
      /\ End(p) /\ UNCHANGED <<sz, pt, trapframe, state, child>>
  BY <1>1, Zenon DEF ExecEnd, table
<1>3. MemTypes /\ MemOwn /\ ProcInv /\ ForkInv  BY Zenon DEF MemInv
<1>4. Apart(t, f) /\ NoTable \in Tables /\ Rooted(NoTable)  BY NoTableIs, Zenon DEF Moves
<1>5. Moves(npt[p], free, NoTable, g)  BY <1>1, <1>4, FreeTableOk, MovesTrans, ZenonT(60)
<1>6. Own(Uses(pt, npt', trapframe, arg), g)  BY <1>2, <1>3, <1>5, OwnNpt, Zenon DEF MemTypes, MemOwn
<1>7. 0 \in Frames  BY Zenon DEF Frames
<1>8. Swaps(x, g, 0, free')  BY <1>2, Zenon DEF Swaps
<1>9. Own(Uses(pt, npt', trapframe, arg'), free')
  BY <1>1, <1>2, <1>3, <1>6, <1>7, <1>8, OwnArg, ZenonT(60) DEF MemTypes
<1>10. MemOwn'  BY <1>2, <1>9, Zenon DEF MemOwn
<1>11. MemTypes'  BY <1>2, <1>3, <1>4, <1>7, Zenon DEF MemTypes, End, Begin
<1>12. Quiet(p)  BY <1>2, <1>3, Zenon DEF Quiet, Same, MemTypes, End, Begin, Live
<1>13. ProcAt(p)'  BY <1>2, <1>3, <1>4, Zenon DEF ProcInv, ProcAt, ProcOk, MemTypes, End, Begin, Live
<1> QED BY <1>3, <1>10, <1>11, <1>12, <1>13, QuietOk, ZenonT(60) DEF MemInv

LEMMA ExecFailsInv ==
  ASSUME MemInv, NEW p \in Procs, ExecFails(p)
  PROVE  MemInv'
<1>1. PICK r : r = AddPage(npt[p], free, at[p], "rw")  BY Zenon
<1>2. PICK u : u = uvmdealloc(r.t, r.free, at[p] * PG, nsz[p])  BY Zenon
<1>3. Live(p, "exec") /\ at[p] < Target(p) /\ ~r.ok /\ ExecEnd(p, u.t, u.free, nsz[p])
  BY <1>1, <1>2, Zenon DEF ExecFails
<1>4. /\ at[p] \in VPages /\ at[p] \in Nat /\ npt[p].leaf[at[p]] = 0
      /\ Apart(npt[p], free) /\ free \in SUBSET Pages /\ Below(npt[p], at[p])
  BY <1>3, ExecAt, Zenon
<1>5. nsz[p] \in Nat /\ at[p] * PG \in Nat /\ Vp(at[p] * PG) = at[p]  BY <1>4, VpNat, VpFacts, Zenon DEF MemInv, MemTypes
<1>6. Added(npt[p], free, r.t, r.free, r.ok, at[p], "rw")  BY <1>1, <1>4, AddPageOk, Zenon DEF Perms
<1>7. Below(r.t, at[p])
  <2>1. \A n \in Nat : Below(npt[p], n) /\ (r.ok => at[p] < n) => Below(r.t, n)  BY <1>4, <1>6, AddedShape, Zenon
  <2> QED BY <1>3, <1>4, <2>1, Zenon
<1>8. Moves(npt[p], free, r.t, r.free) /\ Apart(r.t, r.free)  BY <1>6, Zenon DEF Added, Moves
<1>9. Moves(r.t, r.free, u.t, u.free) /\ Below(u.t, Vp(nsz[p]))
  BY <1>2, <1>5, <1>7, <1>8, DeallocOk, ZenonT(60)
<1>10. Moves(npt[p], free, u.t, u.free)  BY <1>8, <1>9, MovesTrans, Zenon
<1> QED BY <1>3, <1>5, <1>9, <1>10, ExecEndInv, ZenonT(60)

LEMMA ExecBadInv ==
  ASSUME MemInv, NEW p \in Procs, ExecBad(p)
  PROVE  MemInv'
<1>1. Live(p, "exec") /\ ExecEnd(p, npt[p], free, at[p] * PG)  BY Zenon DEF ExecBad
<1>2. at[p] \in Nat /\ at[p] * PG \in Nat /\ Vp(at[p] * PG) = at[p]  BY VpNat, VpFacts, ZenonT(60) DEF MemInv, MemTypes
<1>3. Below(npt[p], Vp(at[p] * PG))  BY <1>1, <1>2, ZenonT(60) DEF MemInv, ProcInv, ProcAt, ProcOk, Live
<1>4. Apart(npt[p], free)  BY MemApart, ZenonT(60) DEF MemInv
<1>5. Moves(npt[p], free, npt[p], free)  BY <1>4, MovesSame, Zenon DEF Apart
<1> QED BY <1>1, <1>2, <1>3, <1>5, ExecEndInv, ZenonT(60)

\* The new image replaces the old one, whose pages are all freed.
LEMMA ExecCommitInv ==
  ASSUME MemInv, NEW p \in Procs, ExecCommit(p)
  PROVE  MemInv'
<1>1. PICK t, g, x : t = uvmclear(npt[p], TEXT) /\ g = proc_freepagetable(pt[p], free, sz[p]) /\ x = arg[p]  BY Zenon
<1>2. /\ Live(p, "exec") /\ at[p] = TEXT + 2 /\ pt' = [pt EXCEPT ![p] = t] /\ npt' = [npt EXCEPT ![p] = NoTable]
      /\ sz' = [sz EXCEPT ![p] = (TEXT + 2) * PG] /\ free' = g \cup ({x} \ {0})
      /\ arg' = [arg EXCEPT ![p] = 0] /\ End(p) /\ UNCHANGED <<trapframe, state, child>>
  BY <1>1, ZenonT(60) DEF ExecCommit
<1>3. MemTypes /\ MemOwn /\ ProcInv /\ ForkInv  BY Zenon DEF MemInv
<1>4. /\ TEXT + 2 \in Nat /\ (TEXT + 2) * PG \in Nat /\ Vp((TEXT + 2) * PG) = TEXT + 2
      /\ NVPAGES \in Nat /\ TEXT + 2 <= NVPAGES /\ TEXT \in VPages /\ sz[p] \in Nat
  <2>1. /\ TEXT \in Nat /\ TEXT + 2 \in Nat /\ NVPAGES \in Nat /\ TEXT + 2 <= NVPAGES /\ sz[p] \in Nat
    BY <1>3, MemAssumption DEF MemTypes
  <2>2. (TEXT + 2) * PG \in Nat /\ Vp((TEXT + 2) * PG) = TEXT + 2  BY <2>1, VpNat, VpFacts, Zenon
  <2> QED BY <2>1, <2>2 DEF VPages
<1>5. /\ Below(npt[p], TEXT + 2) /\ Rooted(npt[p]) /\ Below(pt[p], Vp(sz[p])) /\ trapframe[p] # 0
  BY <1>2, <1>3, Zenon DEF ProcInv, ProcAt, ProcOk, Live
<1>6. Apart(pt[p], free) /\ npt[p] \in Tables /\ NoTable \in Tables /\ Rooted(NoTable) /\ 0 \in Frames
  BY <1>3, MemApart, NoTableIs, Zenon DEF MemTypes, Frames
<1>7. /\ t \in Tables /\ t.root = npt[p].root /\ t.node = npt[p].node /\ t.leaf = npt[p].leaf
      /\ \A v \in VPages : t.perm[v] = npt[p].perm[v] \/ t.perm[v] = "guard"
  BY <1>1, <1>4, <1>6, ZenonT(60) DEF uvmclear, Tables, Perms
<1>8. Below(t, TEXT + 2) /\ Rooted(t)  BY <1>5, <1>7, ZenonT(60) DEF Below, Rooted
<1>9. \A s \in Places : Page(t, s) = Page(npt[p], s)  BY <1>7, Zenon DEF Page
<1>10. Moves(pt[p], free, NoTable, g)  BY <1>1, <1>4, <1>5, <1>6, FreeTableOk, ZenonT(60)
<1>11. PICK a : a = [pt EXCEPT ![p] = NoTable]  BY Zenon
<1>12. Own(Uses(a, npt, trapframe, arg), g)  BY <1>3, <1>10, <1>11, OwnPt, Zenon DEF MemTypes, MemOwn
<1>13. Swaps(x, g, 0, free')  BY <1>2, Zenon DEF Swaps
<1>14. Own(Uses(a, npt, trapframe, arg'), free')
  BY <1>1, <1>2, <1>3, <1>6, <1>12, <1>13, OwnArg, ZenonT(60) DEF MemTypes
<1>15. a \in [Procs -> Tables] /\ a[p] = NoTable /\ pt' = [a EXCEPT ![p] = t]
  BY <1>2, <1>3, <1>6, <1>11, Zenon DEF MemTypes
<1>16. Own(Uses(pt', npt', trapframe, arg'), free')
  <2>1. npt \in [Procs -> Tables]  BY <1>3, Zenon DEF MemTypes
  <2>2. PICK e, i, d, f : e = pt' /\ i = npt' /\ d = arg' /\ f = free'  BY Zenon
  <2>3. e = [a EXCEPT ![p] = t] /\ i = [npt EXCEPT ![p] = NoTable] /\ Own(Uses(a, npt, trapframe, d), f)
    BY <1>2, <1>14, <1>15, <2>2, Zenon
  <2>4. Own(Uses(e, i, trapframe, d), f)  BY <1>7, <1>9, <1>15, <2>1, <2>3, OwnCross, ZenonT(60)
  <2> QED BY <2>2, <2>4, Zenon
<1>17. MemOwn'  BY <1>2, <1>16, Zenon DEF MemOwn
<1>18. MemTypes'  BY <1>2, <1>3, <1>4, <1>6, <1>7, ZenonT(60) DEF MemTypes, End, Begin
<1>19. Quiet(p)  BY <1>2, <1>3, Zenon DEF Quiet, Same, MemTypes, End, Begin, Live
<1>20. ProcAt(p)'  BY <1>2, <1>3, <1>4, <1>5, <1>6, <1>8, ZenonT(60) DEF ProcInv, ProcAt, ProcOk, MemTypes, End, Begin, Live
<1> QED BY <1>3, <1>17, <1>18, <1>19, <1>20, QuietOk, Zenon DEF MemInv

---------------------------------------------------------------------------
(* The invariant holds.                                                     *)

\* The first process has a trapframe and a page table, or none when memory
\* is too small for it.
LEMMA MemInit == Init => MemInv
<1> SUFFICES ASSUME Init PROVE MemInv  BY Zenon
<1>1. PICK f, r : f = Pages \ {1} /\ r = proc_pagetable(f)  BY Zenon
<1>2. /\ free = r.free /\ pt = [p \in Procs |-> IF p = First THEN r.t ELSE NoTable]
      /\ trapframe = [p \in Procs |-> IF p = First THEN 1 ELSE 0]
      /\ state = [p \in Procs |-> IF p = First THEN "live" ELSE "unused"]
      /\ sz = [p \in Procs |-> 0] /\ nsz = [p \in Procs |-> 0] /\ at = [p \in Procs |-> 0]
      /\ pc = [p \in Procs |-> IF p = First THEN "boot" ELSE "user"]
      /\ npt = [p \in Procs |-> NoTable] /\ arg = [p \in Procs |-> 0] /\ child = [p \in Procs |-> p]
  BY <1>1, Zenon DEF Init
<1>3. Moves(NoTable, f, r.t, r.free) /\ Below(r.t, 0) /\ Rooted(r.t) /\ r.t \in Tables
  <2>1. f \in SUBSET Pages  BY <1>1, Zenon
  <2>2. Moves(NoTable, f, r.t, r.free) /\ Below(r.t, 0) /\ Rooted(r.t)  BY <1>1, <2>1, NewTableOk, Zenon
  <2> QED BY <2>2, Zenon DEF Moves, Apart
<1>4. /\ NoTable \in Tables /\ Rooted(NoTable) /\ Below(NoTable, 0) /\ Vp(0) = 0 /\ 0 <= NVPAGES
      /\ \A s \in Places : Page(NoTable, s) = 0
  BY EmptyOk, NoTableIs, ZenonT(60)
<1>5. 1 \in Pages /\ First \in Procs /\ 0 \in Frames /\ 1 \in Frames  BY MemAssumption DEF Pages, Frames
<1>6. MemTypes  BY <1>2, <1>3, <1>4, <1>5, ZenonT(60) DEF MemTypes
<1>7. ProcInv  BY <1>2, <1>3, <1>4 DEF ProcInv, ProcAt, ProcOk
<1>8. ForkInv  BY <1>2, Zenon DEF ForkInv
<1>9. MemOwn
  <2>1. PICK a, b, c, P : /\ a = [p \in Procs |-> NoTable] /\ b = [p \in Procs |-> 0]
                          /\ c = [b EXCEPT ![First] = 1] /\ P = Uses(a, a, b, b)
    BY Zenon
  <2>2. a \in [Procs -> Tables] /\ b \in [Procs -> Frames] /\ \A p \in Procs : a[p] = NoTable /\ b[p] = 0
    BY <1>4, <1>5, <2>1, Zenon
  <2>3. IsUses(P, a, a, b, b)  BY <2>1, UsesIs, Zenon
  <2>4. ASSUME NEW h \in Holders PROVE P[h] = 0
    <3>1. PICK p \in Procs : \/ \E s \in Places : h = <<"pt", p, s>> \/ h = <<"npt", p, s>>
                             \/ h = Cell("tf", p) \/ h = Cell("arg", p)
      BY HolderCases, Zenon
    <3>2. ASSUME NEW s \in Places, h = <<"pt", p, s>> \/ h = <<"npt", p, s>> PROVE P[h] = 0
      <4>1. P[h] = Page(a[p], s)  BY <2>3, <3>2, Zenon DEF IsUses
      <4> QED BY <1>4, <2>2, <4>1, Zenon
    <3>3. CASE h = Cell("tf", p) \/ h = Cell("arg", p)
      <4>1. P[h] = b[p]  BY <2>3, <3>3, Zenon DEF IsUses
      <4> QED BY <2>2, <4>1, Zenon
    <3> QED BY <3>1, <3>2, <3>3, Zenon
  <2>5. Own(P, Pages)  BY <2>4, <1>5, NotAPage, Zenon DEF Own
  <2>6. Swaps(b[First], Pages, 1, f)  BY <1>1, <1>5, <2>2, Zenon DEF Swaps
  <2>7. Own(Uses(a, a, c, b), f)  BY <1>5, <2>1, <2>2, <2>5, <2>6, OwnTrapframe, ZenonT(60)
  <2>8. pt = [a EXCEPT ![First] = r.t] /\ npt = a /\ trapframe = c /\ arg = b  BY <1>2, <2>1, Zenon
  <2>9. Moves(a[First], f, r.t, r.free)  BY <1>3, <1>5, <2>2, Zenon
  <2>10. Own(Uses(pt, a, c, b), r.free)  BY <1>5, <2>2, <2>7, <2>8, <2>9, OwnPt, ZenonT(60)
  <2> QED BY <1>2, <2>8, <2>10, Zenon DEF MemOwn
<1> QED BY <1>6, <1>7, <1>8, <1>9, Zenon DEF MemInv

LEMMA MemNext == MemInv /\ [Next]_vars => MemInv'
<1> SUFFICES ASSUME MemInv, [Next]_vars PROVE MemInv'  BY Zenon
<1>1. ASSUME NEW p \in Procs, Sbrk(p) PROVE MemInv'
  BY <1>1, SbrkGrowInv, SbrkLazyInv, SbrkShrinkInv, GrowPageInv, GrowFailsInv, GrowDoneInv, ZenonT(60) DEF Sbrk
<1>2. ASSUME NEW p \in Procs, NEW v \in VPages, Store(p, v) PROVE MemInv'
  <2>1. UNCHANGED <<free, sz, pt, trapframe, state, pc, at, nsz, npt, arg, child>>
    BY <1>2, Zenon DEF Store, table, local
  <2> QED BY <2>1, Zenon DEF MemInv, MemTypes, MemOwn, ProcInv, ProcAt, ForkInv
<1>3. ASSUME NEW p \in Procs, Touch(p) PROVE MemInv'  BY <1>2, <1>3, VmFaultInv, Zenon DEF Touch
<1>4. ASSUME NEW p \in Procs, Fork(p) PROVE MemInv'
  BY <1>4, ForkStartInv, ForkSkipInv, ForkPageInv, ForkFailsInv, ForkDoneInv, ZenonT(60) DEF Fork
<1>5. ASSUME NEW p \in Procs, Exec(p) PROVE MemInv'
  BY <1>5, ExecStartInv, ExecPageInv, ExecLoadInv, ExecFailsInv, ExecBadInv, ExecCommitInv, ZenonT(60) DEF Exec
<1>6. CASE UNCHANGED vars
  <2>1. UNCHANGED <<free, sz, pt, trapframe, state, pc, at, nsz, npt, arg, child>>
    BY <1>6, Zenon DEF vars, table, local
  <2> QED BY <2>1, Zenon DEF MemInv, MemTypes, MemOwn, ProcInv, ProcAt, ForkInv
<1> QED BY <1>1, <1>3, <1>4, <1>5, <1>6, ExitInv, ReapInv, ZenonT(60) DEF Next

LEMMA MemInvHolds == Spec => []MemInv
BY MemInit, MemNext, PTL DEF Spec

LEMMA OwnedNow == MemInv => PagesOwned
<1> SUFFICES ASSUME MemInv PROVE PagesOwned  BY Zenon
<1>1. PICK P : P = Uses(pt, npt, trapframe, arg)  BY Zenon
<1>2. ASSUME NEW h \in Holders PROVE PageAt(h) = P[h]
  <2>1. PICK p \in Procs : \/ \E s \in Places : h = <<"pt", p, s>> \/ h = <<"npt", p, s>>
                           \/ h = Cell("tf", p) \/ h = Cell("arg", p)
    BY HolderCases, Zenon
  <2>2. IsUses(P, pt, npt, trapframe, arg)  BY <1>1, UsesIs, Zenon
  <2>3. ASSUME NEW s \in Places, h = <<"pt", p, s>> PROVE PageAt(h) = P[h]
    <3>1. PageAt(h) = Page(pt[p], s)  BY <2>3, Zenon DEF PageAt
    <3> QED BY <2>2, <2>3, <3>1, Zenon DEF IsUses
  <2>4. ASSUME NEW s \in Places, h = <<"npt", p, s>> PROVE PageAt(h) = P[h]
    <3>1. PageAt(h) = Page(npt[p], s)  BY <2>4, Zenon DEF PageAt
    <3> QED BY <2>2, <2>4, <3>1, Zenon DEF IsUses
  <2>5. ASSUME h = Cell("tf", p) PROVE PageAt(h) = P[h]
    <3>1. PageAt(h) = trapframe[p]  BY <2>5, Zenon DEF PageAt, Cell
    <3> QED BY <2>2, <2>5, <3>1, Zenon DEF IsUses
  <2>6. ASSUME h = Cell("arg", p) PROVE PageAt(h) = P[h]
    <3>1. PageAt(h) = arg[p]  BY <2>6, Zenon DEF PageAt, Cell
    <3> QED BY <2>2, <2>6, <3>1, Zenon DEF IsUses
  <2> QED BY <2>1, <2>3, <2>4, <2>5, <2>6, ZenonT(60)
<1>3. Own(P, free)  BY <1>1, Zenon DEF MemInv, MemOwn
<1>4. ASSUME NEW x \in Pages \ free PROVE \E h \in Held : PageAt(h) = x
  <2>1. x \in Pages /\ x \notin free /\ x # 0  BY <1>4, NotAPage
  <2>2. PICK h \in Holders : P[h] = x  BY <1>3, <2>1, Zenon DEF Own
  <2>3. h \in Held /\ PageAt(h) = x  BY <1>2, <2>1, <2>2 DEF Held
  <2> QED BY <2>3, Zenon
<1>5. ASSUME NEW h \in Held PROVE PageAt(h) \in Pages \ free
  <2>1. h \in Holders /\ PageAt(h) # 0  BY <1>5 DEF Held
  <2>2. PageAt(h) \in Frames /\ PageAt(h) \notin free  BY <1>2, <1>3, <2>1 DEF Own
  <2> QED BY <2>1, <2>2 DEF Frames
<1>6. ASSUME NEW h \in Held, NEW k \in Held, PageAt(h) = PageAt(k) PROVE h = k
  <2>1. h \in Holders /\ k \in Holders /\ PageAt(h) # 0  BY <1>6 DEF Held
  <2>2. P[h] = P[k] /\ P[h] # 0  BY <1>2, <1>6, <2>1
  <2> QED BY <1>3, <2>1, <2>2, Zenon DEF Own
<1>7. {PageAt(h) : h \in Held} = Pages \ free  BY <1>4, <1>5
<1> QED BY <1>6, <1>7, Zenon DEF PagesOwned

LEMMA InsideNow == MemInv => LeavesInside
<1> SUFFICES ASSUME MemInv, NEW p \in Procs
             PROVE  LET last == CASE pc[p] = "grow" -> at[p] [] OTHER -> Vp(sz[p])
                        made == \E q \in Procs : pc[q] = "fork" /\ child[q] = p
                    IN  /\ \A v \in VPages : pt[p].leaf[v] # 0 =>
                             /\ IF made THEN \E q \in Procs : child[q] = p /\ pc[q] = "fork" /\ v < at[q]
                                ELSE v < last
                             /\ pt[p].node[l1] # 0 /\ pt[p].node[v \div EPT] # 0
                             /\ pt[p].perm[v] # "none"
                        /\ \A v \in VPages : npt[p].leaf[v] # 0 => v < at[p] /\ pc[p] = "exec"
  BY Zenon DEF LeavesInside
<1>1. ProcAt(p) /\ ForkInv /\ MemTypes  BY Zenon DEF MemInv, ProcInv
<1>2. Rooted(pt[p])  BY <1>1, Zenon DEF ProcAt, ProcOk
<1>3. ASSUME NEW v \in VPages, pt[p].leaf[v] # 0, NEW q \in Procs, pc[q] = "fork", child[q] = p PROVE v < at[q]
  BY <1>1, <1>3, Zenon DEF ForkInv, Below
<1>4. ASSUME NEW v \in VPages, pt[p].leaf[v] # 0, ~\E q \in Procs : pc[q] = "fork" /\ child[q] = p
      PROVE  v < (CASE pc[p] = "grow" -> at[p] [] OTHER -> Vp(sz[p]))
  <2>1. state[p] # "used"  BY <1>1, <1>4, Zenon DEF ForkInv
  <2>2. CASE pc[p] = "grow"
    <3>1. Below(pt[p], at[p])  BY <1>1, <2>2, Zenon DEF ProcAt, ProcOk
    <3> QED BY <1>4, <2>2, <3>1, Zenon DEF Below
  <2>3. CASE pc[p] # "grow"
    <3>1. Below(pt[p], Vp(sz[p]))  BY <1>1, <2>1, <2>3, Zenon DEF ProcAt, ProcOk
    <3> QED BY <1>4, <2>3, <3>1, Zenon DEF Below
  <2> QED BY <2>2, <2>3, Zenon
<1>5. ASSUME NEW v \in VPages, npt[p].leaf[v] # 0 PROVE v < at[p] /\ pc[p] = "exec"
  <2>1. pc[p] = "exec"  BY <1>1, <1>5 DEF ProcAt, ProcOk, NoTable
  <2>2. Below(npt[p], at[p])  BY <1>1, <2>1, Zenon DEF ProcAt, ProcOk
  <2> QED BY <1>5, <2>1, <2>2, ZenonT(60) DEF Below
<1> QED BY <1>2, <1>3, <1>4, <1>5, Zenon DEF Rooted

\* kalloc() and kfree(): wherever a grow, a fork or an exec runs out of
\* memory, and whatever others allocate and free between two of its pages, no
\* page is lost, shared or freed twice.
THEOREM EveryPageOwned == Spec => []PagesOwned
BY MemInvHolds, OwnedNow, PTL

\* uvmdealloc(), proc_freepagetable() and freewalk(): a page table has no
\* leaf above the size it is freed with, mappages() never meets a mapping,
\* and every leaf hangs from nodes that are there.
THEOREM NoLeafIsMissed == Spec => []LeavesInside
BY MemInvHolds, InsideNow, PTL
=============================================================================
