--------------------------- MODULE SnapTreeProofs ---------------------------
(***************************************************************************)
(* The walk over the snapshot metadata tree (SnapTree), for all trees.     *)
(*                                                                         *)
(* WalkInv says what a walk has visited and passed on, and what is ahead   *)
(* of it: the node it is called with and, of every pending call, the       *)
(* entries from the next one on.  In a well-formed tree a block is entered *)
(* once, and a leaf's records are passed on when it is.                    *)
(***************************************************************************)
EXTENDS SnapTree, FiniteSetTheorems, WellFoundedInduction, TLAPS

\* A nonempty set of naturals has a least element.
LEMMA LeastElement ==
  ASSUME NEW T \in SUBSET Nat, T # {}
  PROVE  \E x \in T : \A y \in T : x <= y
<1> DEFINE R == OpToRel(<, Nat)
<1>1. IsWellFoundedOn(R, Nat)
  BY NatLessThanWellFounded, Zenon
<1>2. \A x, y \in Nat : x < y => <<x, y>> \in R
  BY DEF OpToRel
<1> HIDE DEF R
<1>3. PICK x \in T : \A y \in T : ~(<<y, x>> \in R)
  BY <1>1, WFMin, Zenon
<1>4. x \in Nat /\ \A y \in T : y \in Nat /\ ~(y < x)
  BY <1>2, <1>3, Zenon
<1> QED
  BY <1>4

\* A nonempty bounded set of naturals has a greatest element.
LEMMA GreatestElement ==
  ASSUME NEW T \in SUBSET Nat, T # {}, NEW n \in Nat, \A x \in T : x <= n
  PROVE  \E x \in T : \A y \in T : y <= x
<1> DEFINE U == {n - x : x \in T}
<1>0. \A x \in T : n - x \in Nat
  OBVIOUS
<1>1. U \in SUBSET Nat /\ U # {}
  BY <1>0, Zenon
<1>2. PICK u \in U : \A y \in U : u <= y
  BY <1>1, LeastElement, Zenon
<1>3. PICK x \in T : u = n - x
  BY <1>2
<1>4. \A y \in T : n - x <= n - y
  BY <1>2, <1>3
<1> QED
  BY <1>3, <1>4

----------------------------------------------------------------------------
\* The parts of a tree v: its root's block, the entries and the level of a block, the
\* block of a node, and the pending calls of a walk.
Root(v) == v.snap_meta_tree_oid
Entries(v, p) == v.blocks[p].entries
Level(v, p) == v.blocks[p].level
AddrOf(v, o) == v.omap[o].paddr
Frame(v) == [paddr : v.paddrs, next : Nat \ {0}]

----------------------------------------------------------------------------
\* The oids a walk has entered, and the blocks it has read; the root is in the
\* visited set under its block number.
Within(v, vis) == vis \ {Root(v)}
Entered(v, vis, p) ==
  \/ p = Root(v) /\ Root(v) \in vis
  \/ \E o \in Within(v, vis) : o \in v.oids /\ AddrOf(v, o) = p

\* What was passed to the visitor is from verified leaves that were entered.
FromLeaves(v, vis, sn) ==
  \A k \in DOMAIN sn :
    \E p \in v.paddrs : /\ v.blocks[p].cksum /\ is_leaf(v.blocks[p]) /\ Entered(v, vis, p)
                        /\ \E j \in DOMAIN Entries(v, p) : sn[k] = Entries(v, p)[j]

\* The pending calls are on index nodes that were entered, one level apart.
Frames(v, st, vis) ==
  \A f \in DOMAIN st : /\ Entered(v, vis, st[f].paddr)
                       /\ Level(v, st[f].paddr) > 0
                       /\ Level(v, st[f].paddr) = Level(v, Root(v)) - f + 1

\* Child j of block p has been called, and the call has returned or is pending with a
\* node that was entered; the child of the top frame that is being called (calling)
\* has not been entered yet.
WasCalled(st, calling, p, j) ==
  \A f \in DOMAIN st : st[f].paddr = p =>
    j < st[f].next /\ ~(calling /\ f = Len(st) /\ j = st[f].next - 1)

\* In a well-formed tree the oids entered are the children called so far, and the
\* records of the leaves entered have been passed on.
ChildrenCalled(v, calling, st, vis) ==
  \A p \in v.paddrs : Entered(v, vis, p) /\ Level(v, p) > 0 =>
    \A j \in DOMAIN Entries(v, p) : WasCalled(st, calling, p, j) <=> Entries(v, p)[j].ref \in Within(v, vis)

ParentsEntered(v, vis) ==
  \A o \in Within(v, vis) :
    /\ o \in v.oids
    /\ \E p \in v.paddrs : Entered(v, vis, p) /\ Level(v, p) > 0 /\ \E j \in DOMAIN Entries(v, p) : Entries(v, p)[j].ref = o

LeavesRead(v, vis, sn) ==
  \A p \in v.paddrs : Entered(v, vis, p) /\ Level(v, p) = 0 =>
    \A j \in DOMAIN Entries(v, p) : \E k \in DOMAIN sn : sn[k] = Entries(v, p)[j]

NextIs(v, o, st) ==
  LET top == st[Len(st)]
  IN  top.next - 1 \in DOMAIN Entries(v, top.paddr) /\ Entries(v, top.paddr)[top.next - 1].ref = o

Progress(v, calling, o, st, vis, sn) ==
  /\ Frames(v, st, vis)
  /\ ChildrenCalled(v, calling, st, vis)
  /\ ParentsEntered(v, vis)
  /\ LeavesRead(v, vis, sn)
  /\ calling /\ st # << >> => NextIs(v, o, st)

\* No two records of snapshot metadata have the same xid.
XidsDiffer(sn) == \A j, k \in MetadataIn(sn) : sn[j].xid = sn[k].xid => j = k

WalkTyped ==
  /\ walk \in {"idle", "start", "enter", "loop", "done", "failed"}
  /\ asked \in Names \cup {NoName}
  /\ walk # "idle" => IsTree(tree)
  /\ node \in Nat
  /\ stack \in Seq(Frame(tree))
  /\ seen \in Seq(Rec) /\ result \in Seq(Rec)

WalkInv ==
  /\ WalkTyped
  /\ walk \in {"idle", "start"} => stack = << >> /\ visited = {} /\ seen = << >>
  /\ walk = "enter" /\ stack = << >> => node = Root(tree) /\ visited = {} /\ seen = << >>
  /\ stack # << >> \/ walk = "loop" => Root(tree) \in visited
  /\ FromLeaves(tree, visited, seen)
  /\ walk # "idle" /\ WellFormed(tree) => XidsDiffer(seen)
  /\ walk \in {"enter", "loop"} /\ WellFormed(tree) => Progress(tree, walk = "enter", node, stack, visited, seen)
  /\ ListsEverySnapshot
  /\ NameResolves
  /\ SoundTreeIsRead

----------------------------------------------------------------------------
\* The top frame of a stack, one child further.
Advanced(st) == [st EXCEPT ![Len(st)] = [paddr |-> st[Len(st)].paddr, next |-> st[Len(st)].next + 1]]

\* A record was passed to the visitor.
PassedOn(sn, r) == \E k \in DOMAIN sn : sn[k] = r

----------------------------------------------------------------------------
\* Every step of a walk.
LEMMA WalkStep ==
  WalkInv /\ WalkNext => WalkInv'

\* What the blocks of a tree are.
<1>TreeTypes.
  ASSUME NEW v, IsTree(v)
  PROVE  /\ Root(v) \in Nat
         /\ \A o \in v.oids : o \in Nat /\ AddrOf(v, o) \in Nat
         /\ \A p \in v.paddrs : Level(v, p) \in Nat /\ Entries(v, p) \in Seq(Rec)
         /\ \A p \in v.paddrs : \A j \in DOMAIN Entries(v, p) : Entries(v, p)[j] \in Rec /\ Entries(v, p)[j].ref \in Nat
  <2>1. Root(v) \in Nat /\ v.oids \subseteq Nat
    BY <1>TreeTypes DEF IsTree, Root
  <2>2. \A o \in v.oids : v.omap[o] \in Mapping
    BY <1>TreeTypes DEF IsTree
  <2>3. \A p \in v.paddrs : v.blocks[p] \in TreeNode
    BY <1>TreeTypes DEF IsTree
  <2>4. \A m \in Mapping : m.paddr \in Nat
    BY DEF Mapping
  <2>5. \A n \in TreeNode : n.level \in Nat /\ n.entries \in Seq(Rec)
    BY DEF TreeNode
  <2>6. \A s \in Seq(Rec) : \A j \in DOMAIN s : s[j] \in Rec
    OBVIOUS
  <2>7. \A r \in Rec : r.ref \in Nat
    BY DEF Rec
  <2>8. \A p \in v.paddrs : Level(v, p) \in Nat /\ Entries(v, p) \in Seq(Rec)
    BY <2>3, <2>5, Zenon DEF Level, Entries
  <2> QED
    BY <2>1, <2>2, <2>4, <2>6, <2>7, <2>8, Zenon DEF AddrOf

\* What a well-formed tree is made of.
<1>WellFormedTree.
  ASSUME NEW v, IsTree(v), WellFormed(v)
  PROVE  /\ Root(v) \in v.paddrs
         /\ \A p \in v.paddrs : p = Root(v) \/ \E o \in v.oids : AddrOf(v, o) = p
         /\ \A o \in v.oids : AddrOf(v, o) \in v.paddrs /\ AddrOf(v, o) # Root(v)
         /\ \A o, q \in v.oids : AddrOf(v, o) = AddrOf(v, q) => o = q
         /\ \A p \in v.paddrs : Level(v, p) < MaxSnapTreeDepth /\ (is_leaf(v.blocks[p]) <=> Level(v, p) = 0)
    BY <1>WellFormedTree, Zenon DEF WellFormed, Root, AddrOf, Level, is_leaf

\* How the nodes of a well-formed tree hang together.
<1>OneParent.
  ASSUME NEW v, IsTree(v), WellFormed(v)
  PROVE  /\ \A p \in v.paddrs : Level(v, p) > 0 => \A j \in DOMAIN Entries(v, p) :
              Entries(v, p)[j].ref \in v.oids /\ Level(v, AddrOf(v, Entries(v, p)[j].ref)) = Level(v, p) - 1
         /\ \A p, q \in v.paddrs : Level(v, p) > 0 /\ Level(v, q) > 0 =>
              \A j \in DOMAIN Entries(v, p), k \in DOMAIN Entries(v, q) :
                Entries(v, p)[j].ref = Entries(v, q)[k].ref => p = q /\ j = k
         /\ \A o \in v.oids : \E p \in v.paddrs : Level(v, p) > 0 /\ \E j \in DOMAIN Entries(v, p) : Entries(v, p)[j].ref = o
  <2>1. \A p : Children(v, p) = {Entries(v, p)[j].ref : j \in DOMAIN Entries(v, p)}
    BY Zenon DEF Children, Entries
  <2>2. \A p \in v.paddrs : Level(v, p) > 0 =>
          /\ Children(v, p) \subseteq v.oids
          /\ \A j, k \in DOMAIN Entries(v, p) : Entries(v, p)[j].ref = Entries(v, p)[k].ref => j = k
          /\ \A o \in Children(v, p) : Level(v, AddrOf(v, o)) = Level(v, p) - 1
    BY <1>OneParent, Zenon DEF WellFormed, Level, Entries, AddrOf
  <2>3. \A p, q \in v.paddrs : Level(v, p) > 0 /\ Level(v, q) > 0 /\ p # q => Children(v, p) \cap Children(v, q) = {}
    BY <1>OneParent, Zenon DEF WellFormed, Level
  <2>4. \A o \in v.oids : \E p \in v.paddrs : Level(v, p) > 0 /\ o \in Children(v, p)
    BY <1>OneParent, Zenon DEF WellFormed, Level
  <2>5. \A p : \A j \in DOMAIN Entries(v, p) : Entries(v, p)[j].ref \in Children(v, p)
    BY <2>1, Zenon
  <2>6. \A p \in v.paddrs : Level(v, p) > 0 => \A j \in DOMAIN Entries(v, p) :
          Entries(v, p)[j].ref \in v.oids /\ Level(v, AddrOf(v, Entries(v, p)[j].ref)) = Level(v, p) - 1
    BY <2>2, <2>5, Zenon
  <2>7. ASSUME NEW p \in v.paddrs, NEW q \in v.paddrs, Level(v, p) > 0, Level(v, q) > 0,
               NEW j \in DOMAIN Entries(v, p), NEW k \in DOMAIN Entries(v, q),
               Entries(v, p)[j].ref = Entries(v, q)[k].ref
        PROVE  p = q /\ j = k
    <3>1. Entries(v, p)[j].ref \in Children(v, p) \cap Children(v, q)
      BY <2>5, <2>7
    <3>2. p = q
      BY <2>3, <2>7, <3>1
    <3> QED
      BY <2>2, <2>7, <3>2
  <2>8. \A o \in v.oids : \E p \in v.paddrs : Level(v, p) > 0 /\ \E j \in DOMAIN Entries(v, p) : Entries(v, p)[j].ref = o
    <3>1. \A p : \A o \in Children(v, p) : \E j \in DOMAIN Entries(v, p) : Entries(v, p)[j].ref = o
      BY <2>1
    <3> QED
      BY <2>4, <3>1, Zenon
  <2> QED
    BY <2>6, <2>7, <2>8, SMT

\* The root is entered first, and nothing with it.
<1>RootEntered.
  ASSUME NEW v
  PROVE  Within(v, {Root(v)}) = {} /\ \A p : Entered(v, {Root(v)}, p) <=> p = Root(v)
  <2>1. Within(v, {Root(v)}) = {}
    BY DEF Within
  <2> QED
    BY <2>1, Zenon DEF Entered

\* One more oid is one more block.
<1>OneMoreEntered.
  ASSUME NEW v, NEW vis, NEW o \in v.oids, o # Root(v)
  PROVE  /\ Within(v, vis \cup {o}) = Within(v, vis) \cup {o}
         /\ \A p : Entered(v, vis \cup {o}, p) <=> Entered(v, vis, p) \/ p = AddrOf(v, o)
  <2>1. Within(v, vis \cup {o}) = Within(v, vis) \cup {o}
    BY <1>OneMoreEntered DEF Within
  <2>2. Root(v) \in vis \cup {o} <=> Root(v) \in vis
    BY <1>OneMoreEntered
  <2>3. ASSUME NEW p
        PROVE  (\E q \in Within(v, vis \cup {o}) : q \in v.oids /\ AddrOf(v, q) = p) <=>
               (\E q \in Within(v, vis) : q \in v.oids /\ AddrOf(v, q) = p) \/ p = AddrOf(v, o)
    BY <2>1
  <2> QED
    BY <2>1, <2>2, <2>3, Zenon DEF Entered

\* A pending call is at a block of the tree.
<1>FrameTypes.
  ASSUME NEW v, NEW st \in Seq(Frame(v))
  PROVE  /\ Len(st) \in Nat /\ DOMAIN st = 1 .. Len(st)
         /\ \A f \in DOMAIN st : st[f].paddr \in v.paddrs /\ st[f].next \in Nat /\ st[f].next > 0
         /\ st # << >> => Len(st) \in DOMAIN st
  <2>1. Len(st) \in Nat /\ DOMAIN st = 1 .. Len(st) /\ (st # << >> => Len(st) > 0)
    OBVIOUS
  <2>2. \A f \in DOMAIN st : st[f] \in Frame(v)
    BY <2>1
  <2>3. \A fr \in Frame(v) : fr.paddr \in v.paddrs /\ fr.next \in Nat /\ fr.next > 0
    BY DEF Frame
  <2> QED
    BY <2>1, <2>2, <2>3

\* No block is on the stack twice.
<1>FramesDiffer.
  ASSUME NEW v, IsTree(v), NEW st \in Seq(Frame(v)), NEW vis, Frames(v, st, vis), Root(v) \in v.paddrs,
         NEW f \in DOMAIN st, NEW g \in DOMAIN st, st[f].paddr = st[g].paddr
  PROVE  f = g
  <2>1. Level(v, Root(v)) \in Nat /\ f \in Nat /\ g \in Nat
    BY <1>FramesDiffer, <1>TreeTypes, <1>FrameTypes
  <2>2. Level(v, Root(v)) - f + 1 = Level(v, Root(v)) - g + 1
    BY <1>FramesDiffer DEF Frames
  <2> QED
    BY <2>1, <2>2

\* The stack of a walk is no deeper than its tree.
<1>StackBound.
  ASSUME NEW v, IsTree(v), WellFormed(v), NEW st \in Seq(Frame(v)), NEW vis, Frames(v, st, vis)
  PROVE  Len(st) < MaxSnapTreeDepth
  <2>1. Level(v, Root(v)) \in Nat /\ Level(v, Root(v)) < MaxSnapTreeDepth /\ Len(st) \in Nat /\ MaxSnapTreeDepth \in Nat \ {0}
    BY <1>StackBound, <1>TreeTypes, <1>WellFormedTree, <1>FrameTypes, SnapTreeAssumption
  <2>2. CASE st = << >>
    BY <2>1, <2>2
  <2>3. CASE st # << >>
    <3>1. Len(st) \in DOMAIN st
      BY <2>3, <1>FrameTypes
    <3>2. Level(v, Root(v)) - Len(st) + 1 > 0
      BY <1>StackBound, <3>1 DEF Frames
    <3> QED
      BY <2>1, <3>2
  <2> QED
    BY <2>2, <2>3

\* What the node that is being called is: a child of the block on top of the stack,
\* and of no other, that was not entered.
<1>NodeCalled.
  ASSUME NEW v, IsTree(v), WellFormed(v), NEW st \in Seq(Frame(v)), st # << >>,
         NEW o, NEW vis, NEW sn, Progress(v, TRUE, o, st, vis, sn)
  PROVE  LET top == st[Len(st)] IN
         /\ o \in v.oids /\ o \notin Within(v, vis)
         /\ Level(v, AddrOf(v, o)) = Level(v, top.paddr) - 1
         /\ top.paddr \in v.paddrs /\ Level(v, top.paddr) > 0 /\ top.next - 1 \in DOMAIN Entries(v, top.paddr)
         /\ Entries(v, top.paddr)[top.next - 1].ref = o
         /\ \A p \in v.paddrs : Level(v, p) > 0 => \A j \in DOMAIN Entries(v, p) :
              Entries(v, p)[j].ref = o <=> p = top.paddr /\ j = top.next - 1
  <2> DEFINE N == Len(st)
             top == st[N]
             j0 == top.next - 1
  <2>1. N \in DOMAIN st /\ top.paddr \in v.paddrs /\ top.next \in Nat
    BY <1>NodeCalled, <1>FrameTypes
  <2>2. j0 \in DOMAIN Entries(v, top.paddr) /\ Entries(v, top.paddr)[j0].ref = o
    BY <1>NodeCalled, Zenon DEF Progress, NextIs
  <2>3. Level(v, top.paddr) > 0 /\ Entered(v, vis, top.paddr)
    BY <1>NodeCalled, <2>1 DEF Progress, Frames
  <2>4. ~WasCalled(st, TRUE, top.paddr, j0)
    BY <2>1, Zenon DEF WasCalled
  <2>5. o \notin Within(v, vis)
    BY <1>NodeCalled, <2>1, <2>2, <2>3, <2>4, Zenon DEF Progress, ChildrenCalled
  <2> DEFINE t == top.paddr
  <2> HIDE DEF top, j0, t
  <2>a. t \in v.paddrs /\ Level(v, t) > 0 /\ j0 \in DOMAIN Entries(v, t) /\ Entries(v, t)[j0].ref = o
    BY <2>1, <2>2, <2>3, Zenon DEF t
  <2>6. o \in v.oids /\ Level(v, AddrOf(v, o)) = Level(v, t) - 1
    <3>1. \A j \in DOMAIN Entries(v, t) :
            Entries(v, t)[j].ref \in v.oids /\ Level(v, AddrOf(v, Entries(v, t)[j].ref)) = Level(v, t) - 1
      BY <1>NodeCalled, <2>a, <1>OneParent
    <3> QED
      BY <2>a, <3>1
  <2>7. \A p \in v.paddrs : Level(v, p) > 0 => \A j \in DOMAIN Entries(v, p) :
          Entries(v, p)[j].ref = o <=> p = t /\ j = j0
    <3> SUFFICES ASSUME NEW p \in v.paddrs, Level(v, p) > 0, NEW j \in DOMAIN Entries(v, p)
                 PROVE  Entries(v, p)[j].ref = o <=> p = t /\ j = j0
      BY Zenon
    <3>1. Entries(v, p)[j].ref = Entries(v, t)[j0].ref => p = t /\ j = j0
      BY <1>NodeCalled, <2>a, <1>OneParent
    <3> QED
      BY <2>a, <3>1
  <2> QED
    BY <2>a, <2>5, <2>6, <2>7, Zenon DEF t, top, j0

\* When the node that is being called is entered, its call counts.
<1>CallCounts.
  ASSUME NEW v, IsTree(v), WellFormed(v), NEW st \in Seq(Frame(v)), st # << >>, NEW vis, Frames(v, st, vis),
         NEW p, NEW j
  PROVE  WasCalled(st, FALSE, p, j) <=>
         WasCalled(st, TRUE, p, j) \/ (p = st[Len(st)].paddr /\ j = st[Len(st)].next - 1)
  <2> DEFINE N == Len(st)
  <2>1. N \in DOMAIN st /\ st[N].next \in Nat
    BY <1>CallCounts, <1>FrameTypes
  <2>2. \A f \in DOMAIN st : st[f].paddr = st[N].paddr => f = N
    BY <1>CallCounts, <2>1, <1>FramesDiffer, <1>WellFormedTree, Zenon
  <2>3. st[N].next - 1 < st[N].next
    BY <2>1
  <2> HIDE DEF N
  <2>4. ASSUME p = st[N].paddr, j = st[N].next - 1
        PROVE  WasCalled(st, FALSE, p, j)
    BY <2>2, <2>3, <2>4, Zenon DEF WasCalled
  <2>5. ASSUME WasCalled(st, TRUE, p, j)
        PROVE  WasCalled(st, FALSE, p, j)
    BY <2>5, Zenon DEF WasCalled
  <2>6. ASSUME WasCalled(st, FALSE, p, j), ~(p = st[N].paddr /\ j = st[N].next - 1)
        PROVE  WasCalled(st, TRUE, p, j)
    BY <2>6, Zenon DEF WasCalled, N
  <2> QED
    BY <2>4, <2>5, <2>6, Zenon DEF N

\* A frame that is pushed holds back the children of its own block only.
<1>PushedFrame.
  ASSUME NEW v, NEW st \in Seq(Frame(v)), NEW fr \in Frame(v), NEW p, NEW j
  PROVE  WasCalled(Append(st, fr), FALSE, p, j) <=> WasCalled(st, FALSE, p, j) /\ (fr.paddr = p => j < fr.next)
  <2> DEFINE ts == Append(st, fr)
  <2>1. Len(st) \in Nat /\ DOMAIN st = 1 .. Len(st)
    BY <1>FrameTypes
  <2>2. DOMAIN ts = DOMAIN st \cup {Len(st) + 1} /\ ts[Len(st) + 1] = fr /\ \A f \in DOMAIN st : ts[f] = st[f]
    BY <2>1
  <2> HIDE DEF ts
  <2>3. (\A f \in DOMAIN ts : ts[f].paddr = p => j < ts[f].next) <=>
        (\A f \in DOMAIN st : st[f].paddr = p => j < st[f].next) /\ (fr.paddr = p => j < fr.next)
    BY <2>2, Zenon
  <2> QED
    BY <2>3, Zenon DEF WasCalled, ts

\* What entering a node other than the root does to the sets.
<1>NodeEntered.
  ASSUME NEW v, IsTree(v), WellFormed(v), NEW st \in Seq(Frame(v)), st # << >>,
         NEW o, NEW vis, NEW sn, Progress(v, TRUE, o, st, vis, sn), o \notin vis, Root(v) \in vis
  PROVE  LET ob == AddrOf(v, o) IN
         /\ o \in v.oids /\ o # Root(v) /\ ob \in v.paddrs
         /\ Within(v, vis \cup {o}) = Within(v, vis) \cup {o}
         /\ \A p : Entered(v, vis \cup {o}, p) <=> Entered(v, vis, p) \/ p = ob
         /\ ~Entered(v, vis, ob)
         /\ \A p \in v.paddrs : Entered(v, vis, p) /\ Level(v, p) > 0 =>
              \A j \in DOMAIN Entries(v, p) : WasCalled(st, FALSE, p, j) <=> Entries(v, p)[j].ref \in Within(v, vis \cup {o})
         /\ ParentsEntered(v, vis \cup {o})
  <2> DEFINE ob == AddrOf(v, o)
             ws == vis \cup {o}
             t == st[Len(st)].paddr
             j0 == st[Len(st)].next - 1
  <2>1. o # Root(v)
    BY <1>NodeEntered
  <2>2. /\ o \in v.oids /\ t \in v.paddrs /\ Level(v, t) > 0
        /\ j0 \in DOMAIN Entries(v, t) /\ Entries(v, t)[j0].ref = o
        /\ \A p \in v.paddrs : Level(v, p) > 0 => \A j \in DOMAIN Entries(v, p) :
             Entries(v, p)[j].ref = o <=> p = t /\ j = j0
    BY <1>NodeEntered, <1>NodeCalled, Zenon
  <2>3. Within(v, ws) = Within(v, vis) \cup {o} /\ \A p : Entered(v, ws, p) <=> Entered(v, vis, p) \/ p = ob
    <3>1. o \in v.oids
      BY <2>2
    <3> HIDE DEF t, j0
    <3>2. /\ Within(v, vis \cup {o}) = Within(v, vis) \cup {o}
          /\ \A p : Entered(v, vis \cup {o}, p) <=> Entered(v, vis, p) \/ p = AddrOf(v, o)
      BY <2>1, <3>1, <1>OneMoreEntered, Zenon
    <3> QED
      BY <3>2, Zenon
  <2>4. ob \in v.paddrs /\ ob # Root(v) /\ \A q \in v.oids : AddrOf(v, q) = ob => q = o
    BY <1>NodeEntered, <2>2, <1>WellFormedTree, Zenon
  <2>5. o \notin Within(v, vis)
    BY <1>NodeEntered DEF Within
  <2>6. ~Entered(v, vis, ob)
    BY <2>4, <2>5, Zenon DEF Entered
  <2>7. /\ Frames(v, st, vis) /\ ChildrenCalled(v, TRUE, st, vis) /\ ParentsEntered(v, vis)
    BY <1>NodeEntered, Zenon DEF Progress
  <2>8. Entered(v, vis, t)
    BY <1>NodeEntered, <2>7, <1>FrameTypes DEF Frames
  <2> HIDE DEF ws, ob
  <2>9. ASSUME NEW p \in v.paddrs, Entered(v, vis, p), Level(v, p) > 0, NEW j \in DOMAIN Entries(v, p)
        PROVE  WasCalled(st, FALSE, p, j) <=> Entries(v, p)[j].ref \in Within(v, ws)
    <3>1. WasCalled(st, FALSE, p, j) <=> WasCalled(st, TRUE, p, j) \/ (p = t /\ j = j0)
      BY <1>NodeEntered, <2>7, <1>CallCounts, Zenon
    <3>2. WasCalled(st, TRUE, p, j) <=> Entries(v, p)[j].ref \in Within(v, vis)
      BY <2>7, <2>9, Zenon DEF ChildrenCalled
    <3>3. Entries(v, p)[j].ref = o <=> p = t /\ j = j0
      BY <2>2, <2>9, Zenon
    <3> QED
      BY <2>3, <3>1, <3>2, <3>3, Zenon
  <2> HIDE DEF t, j0
  <2>10. ParentsEntered(v, ws)
    <3> SUFFICES ASSUME NEW q \in Within(v, ws)
                 PROVE  /\ q \in v.oids
                        /\ \E p \in v.paddrs : /\ Entered(v, ws, p) /\ Level(v, p) > 0
                                               /\ \E j \in DOMAIN Entries(v, p) : Entries(v, p)[j].ref = q
      BY Zenon DEF ParentsEntered
    <3>1. CASE q = o
      BY <2>2, <2>3, <2>8, <3>1, Zenon
    <3>2. CASE q \in Within(v, vis)
      BY <2>3, <2>7, <3>2, Zenon DEF ParentsEntered
    <3> QED
      BY <2>3, <3>1, <3>2, Zenon
  <2> QED
    BY <2>1, <2>2, <2>3, <2>4, <2>6, <2>9, <2>10, Zenon DEF ob, ws

\* The frames on the stack stay entered when more is entered.
<1>FramesKept.
  ASSUME NEW v, NEW st, NEW vis, NEW ws, Frames(v, st, vis),
         \A p : Entered(v, vis, p) => Entered(v, ws, p)
  PROVE  Frames(v, st, ws)
    BY <1>FramesKept, Zenon DEF Frames

\* A leaf is entered: its records have been passed on.
<1>LeafEntered.
  ASSUME NEW v, IsTree(v), WellFormed(v), NEW st \in Seq(Frame(v)), st # << >>,
         NEW o, NEW vis, NEW sn \in Seq(Rec), Progress(v, TRUE, o, st, vis, sn), o \notin vis, Root(v) \in vis,
         Level(v, AddrOf(v, o)) = 0
  PROVE  Progress(v, FALSE, o, st, vis \cup {o}, sn \o Entries(v, AddrOf(v, o)))
  <2> DEFINE ob == AddrOf(v, o)
             ws == vis \cup {o}
             e == Entries(v, ob)
             ns == sn \o e
  <2>1. /\ ob \in v.paddrs
        /\ \A p : Entered(v, ws, p) <=> Entered(v, vis, p) \/ p = ob
        /\ \A p \in v.paddrs : Entered(v, vis, p) /\ Level(v, p) > 0 =>
                \A j \in DOMAIN Entries(v, p) : WasCalled(st, FALSE, p, j) <=> Entries(v, p)[j].ref \in Within(v, ws)
        /\ ParentsEntered(v, ws)
    BY <1>LeafEntered, <1>NodeEntered, Zenon
  <2>2. Frames(v, st, vis) /\ LeavesRead(v, vis, sn)
    BY <1>LeafEntered, Zenon DEF Progress
  <2>3. ~(Level(v, ob) > 0)
    BY <1>LeafEntered
  <2>4. e \in Seq(Rec)
    BY <1>LeafEntered, <2>1, <1>TreeTypes
  <2>5. /\ \A k \in DOMAIN sn : k \in DOMAIN ns /\ ns[k] = sn[k]
        /\ \A j \in DOMAIN e : \E k \in DOMAIN ns : ns[k] = e[j]
    <3> HIDE DEF e
    <3>1. /\ Len(sn) \in Nat /\ Len(e) \in Nat /\ DOMAIN sn = 1 .. Len(sn) /\ DOMAIN e = 1 .. Len(e)
          /\ DOMAIN ns = 1 .. Len(sn) + Len(e)
          /\ \A k \in 1 .. Len(sn) + Len(e) : ns[k] = IF k <= Len(sn) THEN sn[k] ELSE e[k - Len(sn)]
      BY <2>4
    <3> HIDE DEF ns
    <3>2. \A j \in DOMAIN e : Len(sn) + j \in DOMAIN ns /\ ns[Len(sn) + j] = e[j]
      BY <3>1
    <3>3. \A k \in DOMAIN sn : k \in DOMAIN ns /\ ns[k] = sn[k]
      BY <3>1
    <3> QED
      BY <3>2, <3>3, Zenon
  <2> HIDE DEF ws, ob, e, ns
  <2>6. ChildrenCalled(v, FALSE, st, ws)
    BY <2>1, <2>3, Zenon DEF ChildrenCalled
  <2>7. LeavesRead(v, ws, ns)
    <3> SUFFICES ASSUME NEW p \in v.paddrs, Entered(v, ws, p), Level(v, p) = 0, NEW j \in DOMAIN Entries(v, p)
                 PROVE  \E k \in DOMAIN ns : ns[k] = Entries(v, p)[j]
      BY Zenon DEF LeavesRead
    <3>1. CASE p = ob
      BY <2>5, <3>1, Zenon DEF e
    <3>2. CASE Entered(v, vis, p)
      <4>1. PICK k \in DOMAIN sn : sn[k] = Entries(v, p)[j]
        BY <2>2, <3>2, Zenon DEF LeavesRead
      <4> QED
        BY <2>5, <4>1, Zenon
    <3> QED
      BY <2>1, <3>1, <3>2, Zenon
  <2>8. Frames(v, st, ws)
    BY <2>1, <2>2, <1>FramesKept, Zenon
  <2> QED
    BY <2>1, <2>6, <2>7, <2>8, Zenon DEF Progress, ws, ob, e, ns

\* An index node is entered: none of its children has been called.
<1>IndexEntered.
  ASSUME NEW v, IsTree(v), WellFormed(v), NEW st \in Seq(Frame(v)), st # << >>,
         NEW o, NEW vis, NEW sn, Progress(v, TRUE, o, st, vis, sn), o \notin vis, Root(v) \in vis,
         Level(v, AddrOf(v, o)) > 0
  PROVE  Progress(v, FALSE, o, Append(st, [paddr |-> AddrOf(v, o), next |-> 1]), vis \cup {o}, sn)
  <2> DEFINE ob == AddrOf(v, o)
             ws == vis \cup {o}
             fr == [paddr |-> ob, next |-> 1]
             ts == Append(st, fr)
             N == Len(st)
  <2>1. /\ ob \in v.paddrs /\ o \in v.oids
        /\ Within(v, ws) = Within(v, vis) \cup {o}
        /\ \A p : Entered(v, ws, p) <=> Entered(v, vis, p) \/ p = ob
        /\ ~Entered(v, vis, ob)
        /\ \A p \in v.paddrs : Entered(v, vis, p) /\ Level(v, p) > 0 =>
                \A j \in DOMAIN Entries(v, p) : WasCalled(st, FALSE, p, j) <=> Entries(v, p)[j].ref \in Within(v, ws)
        /\ ParentsEntered(v, ws)
    BY <1>IndexEntered, <1>NodeEntered, Zenon
  <2>2. Frames(v, st, vis) /\ LeavesRead(v, vis, sn) /\ ParentsEntered(v, vis)
    BY <1>IndexEntered, Zenon DEF Progress
  <2>3. fr \in Frame(v) /\ fr.paddr = ob /\ fr.next = 1
    BY <2>1 DEF Frame
  <2>4. N \in Nat /\ DOMAIN st = 1 .. N /\ N \in DOMAIN st
    BY <1>IndexEntered, <1>FrameTypes
  <2>5. DOMAIN ts = DOMAIN st \cup {N + 1} /\ ts[N + 1] = fr /\ \A f \in DOMAIN st : ts[f] = st[f]
    BY <2>3, <2>4
  <2>6. Level(v, ob) \in Nat /\ Level(v, ob) > 0 /\ Level(v, Root(v)) \in Nat
    BY <1>IndexEntered, <2>1, <1>TreeTypes, <1>WellFormedTree
  <2>7. Level(v, ob) = Level(v, st[N].paddr) - 1
    BY <1>IndexEntered, <1>NodeCalled, Zenon
  <2>8. Level(v, st[N].paddr) = Level(v, Root(v)) - N + 1
    BY <2>2, <2>4 DEF Frames
  <2>9. Level(v, ob) = Level(v, Root(v)) - (N + 1) + 1
    BY <2>4, <2>6, <2>7, <2>8
  <2> HIDE DEF ws, ob, fr, ts, N
  <2>10. Frames(v, ts, ws)
    <3>1. Frames(v, st, ws)
      BY <2>1, <2>2, <1>FramesKept, Zenon
    <3>2. Entered(v, ws, fr.paddr) /\ Level(v, fr.paddr) > 0 /\ Level(v, fr.paddr) = Level(v, Root(v)) - (N + 1) + 1
      BY <2>1, <2>3, <2>6, <2>9, Zenon
    <3>3. ASSUME NEW f \in DOMAIN ts
          PROVE  /\ Entered(v, ws, ts[f].paddr) /\ Level(v, ts[f].paddr) > 0
                 /\ Level(v, ts[f].paddr) = Level(v, Root(v)) - f + 1
      <4>1. CASE f \in DOMAIN st
        BY <2>5, <3>1, <4>1, Zenon DEF Frames
      <4>2. CASE f = N + 1
        BY <2>5, <3>2, <4>2, Zenon
      <4> QED
        BY <2>5, <4>1, <4>2, Zenon
    <3> QED
      BY <3>3, Zenon DEF Frames
  <2>11. \A j \in DOMAIN Entries(v, ob) : Entries(v, ob)[j].ref \notin Within(v, ws) /\ ~(j < 1)
    <3> SUFFICES ASSUME NEW j \in DOMAIN Entries(v, ob)
                 PROVE  Entries(v, ob)[j].ref \notin Within(v, ws) /\ ~(j < 1)
      OBVIOUS
    <3>1. ~(j < 1)
      BY <2>1, <1>TreeTypes
    <3>2. Entries(v, ob)[j].ref # o
      <4>1. Level(v, AddrOf(v, Entries(v, ob)[j].ref)) = Level(v, ob) - 1
        BY <1>IndexEntered, <2>1, <2>6, <1>OneParent
      <4>2. Level(v, ob) # Level(v, ob) - 1
        BY <2>6
      <4> QED
        BY <4>1, <4>2 DEF ob
    <3>3. ASSUME Entries(v, ob)[j].ref \in Within(v, vis)
          PROVE  FALSE
      <4>1. PICK p \in v.paddrs : /\ Entered(v, vis, p) /\ Level(v, p) > 0
                                  /\ \E k \in DOMAIN Entries(v, p) : Entries(v, p)[k].ref = Entries(v, ob)[j].ref
        BY <2>2, <3>3, Zenon DEF ParentsEntered
      <4>2. p = ob
        BY <1>IndexEntered, <2>1, <2>6, <4>1, <1>OneParent
      <4> QED
        BY <2>1, <4>1, <4>2
    <3> QED
      BY <2>1, <3>1, <3>2, <3>3
  <2>12. ChildrenCalled(v, FALSE, ts, ws)
    <3> SUFFICES ASSUME NEW p \in v.paddrs, Entered(v, ws, p), Level(v, p) > 0, NEW j \in DOMAIN Entries(v, p)
                 PROVE  WasCalled(ts, FALSE, p, j) <=> Entries(v, p)[j].ref \in Within(v, ws)
      BY Zenon DEF ChildrenCalled
    <3>1. WasCalled(ts, FALSE, p, j) <=> WasCalled(st, FALSE, p, j) /\ (fr.paddr = p => j < fr.next)
      BY <2>3, <1>PushedFrame, Zenon DEF ts
    <3>2. CASE p = ob
      BY <2>3, <2>11, <3>1, <3>2, Zenon
    <3>3. CASE p # ob
      BY <2>1, <2>3, <3>1, <3>3, Zenon
    <3> QED
      BY <3>2, <3>3, Zenon
  <2>13. LeavesRead(v, ws, sn)
    <3>1. ~(Level(v, ob) = 0)
      BY <2>6
    <3> QED
      BY <2>1, <2>2, <3>1, Zenon DEF LeavesRead
  <2> QED
    BY <2>1, <2>10, <2>12, <2>13, Zenon DEF Progress, ws, ob, fr, ts

\* The root is a leaf.
<1>RootLeafEntered.
  ASSUME NEW v, IsTree(v), WellFormed(v), NEW o, Level(v, Root(v)) = 0
  PROVE  Progress(v, FALSE, o, << >>, {Root(v)}, << >> \o Entries(v, Root(v)))
  <2> DEFINE e == Entries(v, Root(v))
             ws == {Root(v)}
  <2>1. Within(v, ws) = {} /\ \A p : Entered(v, ws, p) <=> p = Root(v)
    BY <1>RootEntered, Zenon
  <2>2. << >> \o e = e /\ ~(Level(v, Root(v)) > 0)
    <3>1. e \in Seq(Rec)
      BY <1>RootLeafEntered, <1>TreeTypes, <1>WellFormedTree
    <3> HIDE DEF e
    <3> QED
      BY <1>RootLeafEntered, <3>1
  <2> HIDE DEF ws, e
  <2>3. Frames(v, << >>, ws)
    BY DEF Frames
  <2>4. ChildrenCalled(v, FALSE, << >>, ws) /\ ParentsEntered(v, ws)
    BY <2>1, <2>2, Zenon DEF ChildrenCalled, ParentsEntered
  <2>5. LeavesRead(v, ws, e)
    <3>1. \A j \in DOMAIN Entries(v, Root(v)) : \E k \in DOMAIN e : e[k] = Entries(v, Root(v))[j]
      BY Zenon DEF e
    <3>2. \A p \in v.paddrs : Entered(v, ws, p) => \A j \in DOMAIN Entries(v, p) : \E k \in DOMAIN e : e[k] = Entries(v, p)[j]
      BY <2>1, <3>1
    <3> QED
      BY <3>2, Zenon DEF LeavesRead
  <2> QED
    BY <2>2, <2>3, <2>4, <2>5, Zenon DEF Progress, ws, e

\* The root is an index node.
<1>RootIndexEntered.
  ASSUME NEW v, IsTree(v), WellFormed(v), NEW o, Level(v, Root(v)) > 0
  PROVE  Progress(v, FALSE, o, Append(<< >>, [paddr |-> Root(v), next |-> 1]), {Root(v)}, << >>)
  <2> DEFINE fr == [paddr |-> Root(v), next |-> 1]
             ws == {Root(v)}
             ts == Append(<< >>, fr)
  <2>1. Within(v, ws) = {} /\ \A p : Entered(v, ws, p) <=> p = Root(v)
    BY <1>RootEntered, Zenon
  <2>2. fr \in Frame(v) /\ fr.paddr = Root(v) /\ fr.next = 1
    BY <1>RootIndexEntered, <1>WellFormedTree DEF Frame
  <2>3. ts = <<fr>> /\ DOMAIN ts = {1} /\ ts[1] = fr
    OBVIOUS
  <2>4. Level(v, Root(v)) \in Nat /\ ~(Level(v, Root(v)) = 0) /\ Level(v, Root(v)) = Level(v, Root(v)) - 1 + 1
    <3>1. Level(v, Root(v)) \in Nat
      BY <1>RootIndexEntered, <1>TreeTypes, <1>WellFormedTree
    <3> QED
      BY <1>RootIndexEntered, <3>1
  <2> HIDE DEF ws, fr, ts
  <2>5. Frames(v, ts, ws)
    BY <1>RootIndexEntered, <2>1, <2>2, <2>3, <2>4, Zenon DEF Frames
  <2>6. ChildrenCalled(v, FALSE, ts, ws)
    <3> SUFFICES ASSUME NEW p \in v.paddrs, Entered(v, ws, p), NEW j \in DOMAIN Entries(v, p)
                 PROVE  WasCalled(ts, FALSE, p, j) <=> Entries(v, p)[j].ref \in Within(v, ws)
      BY Zenon DEF ChildrenCalled
    <3>1. p = Root(v) /\ ~(j < 1)
      BY <1>RootIndexEntered, <2>1, <1>TreeTypes
    <3>2. ~WasCalled(ts, FALSE, p, j)
      BY <2>2, <2>3, <3>1, Zenon DEF WasCalled
    <3> QED
      BY <2>1, <3>2, Zenon
  <2>7. ParentsEntered(v, ws) /\ LeavesRead(v, ws, << >>)
    BY <2>1, <2>4, Zenon DEF ParentsEntered, LeavesRead
  <2> QED
    BY <2>5, <2>6, <2>7, Zenon DEF Progress, ws, fr, ts

\* The next child is called.
<1>ChildCalled.
  ASSUME NEW v, IsTree(v), WellFormed(v), NEW st \in Seq(Frame(v)), st # << >>,
         NEW o, NEW vis, NEW sn, Progress(v, FALSE, o, st, vis, sn),
         st[Len(st)].next <= Len(Entries(v, st[Len(st)].paddr))
  PROVE  Progress(v, TRUE, Entries(v, st[Len(st)].paddr)[st[Len(st)].next].ref, Advanced(st), vis, sn)
  <2> DEFINE N == Len(st)
             t == st[N].paddr
             n == st[N].next
             fr == [paddr |-> t, next |-> n + 1]
             ts == Advanced(st)
  <2>1. N \in Nat /\ DOMAIN st = 1 .. N /\ N \in DOMAIN st /\ t \in v.paddrs /\ n \in Nat /\ n > 0
    BY <1>ChildCalled, <1>FrameTypes
  <2>2. fr.paddr = t /\ fr.next = n + 1
    OBVIOUS
  <2>3. DOMAIN ts = DOMAIN st /\ Len(ts) = N /\ ts[N] = fr /\ \A f \in DOMAIN st : f # N => ts[f] = st[f]
    BY <2>1 DEF Advanced
  <2>4. \A f \in DOMAIN st : ts[f].paddr = st[f].paddr
    BY <2>2, <2>3
  <2>5. Frames(v, st, vis) /\ ChildrenCalled(v, FALSE, st, vis) /\ ParentsEntered(v, vis) /\ LeavesRead(v, vis, sn)
    BY <1>ChildCalled, Zenon DEF Progress
  <2>6. Entries(v, t) \in Seq(Rec)
    BY <1>ChildCalled, <2>1, <1>TreeTypes
  <2>7. n \in DOMAIN Entries(v, t)
    BY <1>ChildCalled, <2>1, <2>6
  <2>8. ts # << >>
    BY <2>1, <2>3
  <2>9. \A f \in DOMAIN st : st[f].paddr = t => f = N
    BY <1>ChildCalled, <2>1, <2>5, <1>FramesDiffer, <1>WellFormedTree, Zenon
  <2> HIDE DEF ts, fr, t, n
  <2>10. Frames(v, ts, vis)
    BY <2>3, <2>4, <2>5, Zenon DEF Frames
  <2>11. ASSUME NEW p \in v.paddrs, NEW j \in DOMAIN Entries(v, p)
         PROVE  WasCalled(ts, TRUE, p, j) <=> WasCalled(st, FALSE, p, j)
    <3>1. j \in Nat
      BY <1>TreeTypes
    <3>2. ASSUME NEW f \in DOMAIN st
          PROVE  (ts[f].paddr = p => j < ts[f].next /\ ~(f = Len(ts) /\ j = ts[f].next - 1))
                 <=> (st[f].paddr = p => j < st[f].next)
      <4>1. CASE f = N
        <5>1. /\ ts[f].paddr = st[f].paddr /\ ts[f].next = n + 1 /\ st[f].next = n
              /\ f = Len(ts)
          BY <2>1, <2>2, <2>3, <2>4, <4>1, Zenon DEF n
        <5>2. j < ts[f].next /\ ~(j = ts[f].next - 1) <=> j < st[f].next
          BY <2>1, <3>1, <5>1
        <5> QED
          BY <5>1, <5>2, Zenon
      <4>2. CASE f # N
        BY <2>3, <4>2, Zenon
      <4> QED
        BY <4>1, <4>2
    <3> QED
      BY <2>3, <3>2, Zenon DEF WasCalled
  <2>12. ChildrenCalled(v, TRUE, ts, vis)
    BY <2>5, <2>11, Zenon DEF ChildrenCalled
  <2>13. NextIs(v, Entries(v, t)[n].ref, ts)
    <3>1. ts[Len(ts)].paddr = t /\ ts[Len(ts)].next - 1 = n
      BY <2>1, <2>2, <2>3
    <3> QED
      BY <2>7, <3>1, Zenon DEF NextIs
  <2> QED
    BY <2>5, <2>10, <2>12, <2>13, Zenon DEF Progress, t, n, ts

\* A call returns when all the children have been called.
<1>CallReturned.
  ASSUME NEW v, IsTree(v), WellFormed(v), NEW st \in Seq(Frame(v)), st # << >>,
         NEW o, NEW vis, NEW sn, Progress(v, FALSE, o, st, vis, sn),
         st[Len(st)].next > Len(Entries(v, st[Len(st)].paddr))
  PROVE  Progress(v, FALSE, o, SubSeq(st, 1, Len(st) - 1), vis, sn)
  <2> DEFINE N == Len(st)
             t == st[N].paddr
             ts == SubSeq(st, 1, N - 1)
  <2>1. N \in Nat /\ DOMAIN st = 1 .. N /\ N \in DOMAIN st /\ t \in v.paddrs /\ st[N].next \in Nat
    BY <1>CallReturned, <1>FrameTypes
  <2>2. DOMAIN ts = DOMAIN st \ {N} /\ \A f \in DOMAIN ts : ts[f] = st[f]
    BY <2>1
  <2>3. Frames(v, st, vis) /\ ChildrenCalled(v, FALSE, st, vis) /\ ParentsEntered(v, vis) /\ LeavesRead(v, vis, sn)
    BY <1>CallReturned, Zenon DEF Progress
  <2>4. \A j \in DOMAIN Entries(v, t) : j < st[N].next
    <3>1. Entries(v, t) \in Seq(Rec)
      BY <1>CallReturned, <2>1, <1>TreeTypes
    <3>2. DOMAIN Entries(v, t) = 1 .. Len(Entries(v, t)) /\ Len(Entries(v, t)) \in Nat
      BY <3>1
    <3> QED
      BY <1>CallReturned, <2>1, <3>2
  <2> HIDE DEF ts, t, N
  <2>5. Frames(v, ts, vis)
    BY <2>2, <2>3, Zenon DEF Frames
  <2>6. ASSUME NEW p \in v.paddrs, NEW j \in DOMAIN Entries(v, p)
        PROVE  WasCalled(ts, FALSE, p, j) <=> WasCalled(st, FALSE, p, j)
    <3>1. st[N].paddr = p => j < st[N].next
      BY <2>4, <2>6 DEF t
    <3>2. (\A f \in DOMAIN ts : ts[f].paddr = p => j < ts[f].next) <=> (\A f \in DOMAIN st : st[f].paddr = p => j < st[f].next)
      BY <2>2, <3>1
    <3> QED
      BY <3>2, Zenon DEF WasCalled
  <2>7. ChildrenCalled(v, FALSE, ts, vis)
    BY <2>3, <2>6, Zenon DEF ChildrenCalled
  <2> QED
    BY <2>3, <2>5, <2>7, Zenon DEF Progress, ts, N

\* The records after a leaf are those before it and the leaf's.
<1>Joined.
  ASSUME NEW sn \in Seq(Rec), NEW e \in Seq(Rec)
  PROVE  /\ sn \o e \in Seq(Rec)
         /\ \A k \in DOMAIN (sn \o e) : \/ k \in DOMAIN sn /\ (sn \o e)[k] = sn[k]
                                        \/ \E i \in DOMAIN e : k = Len(sn) + i /\ (sn \o e)[k] = e[i]
  <2> DEFINE ns == sn \o e
  <2>1. /\ Len(sn) \in Nat /\ Len(e) \in Nat /\ DOMAIN sn = 1 .. Len(sn) /\ DOMAIN e = 1 .. Len(e)
        /\ DOMAIN ns = 1 .. Len(sn) + Len(e) /\ ns \in Seq(Rec)
        /\ \A k \in 1 .. Len(sn) + Len(e) : ns[k] = IF k <= Len(sn) THEN sn[k] ELSE e[k - Len(sn)]
    OBVIOUS
  <2> HIDE DEF ns
  <2>2. ASSUME NEW k \in DOMAIN ns
        PROVE  \/ k \in DOMAIN sn /\ ns[k] = sn[k]
               \/ \E i \in DOMAIN e : k = Len(sn) + i /\ ns[k] = e[i]
    <3>1. CASE k <= Len(sn)
      BY <2>1, <3>1
    <3>2. CASE ~(k <= Len(sn))
      <4>1. k - Len(sn) \in DOMAIN e /\ k = Len(sn) + (k - Len(sn)) /\ ns[k] = e[k - Len(sn)]
        BY <2>1, <3>2
      <4> QED
        BY <4>1, Zenon
    <3> QED
      BY <3>1, <3>2
  <2> QED
    BY <2>1, <2>2, Zenon DEF ns

\* A leaf's records come from a verified leaf that was entered.
<1>LeafPassedOn.
  ASSUME NEW v, IsTree(v), NEW sn \in Seq(Rec), NEW vis, NEW ws, NEW p \in v.paddrs,
         v.blocks[p].cksum, is_leaf(v.blocks[p]), FromLeaves(v, vis, sn), Entered(v, ws, p),
         \A q : Entered(v, vis, q) => Entered(v, ws, q)
  PROVE  sn \o Entries(v, p) \in Seq(Rec) /\ FromLeaves(v, ws, sn \o Entries(v, p))
  <2> DEFINE e == Entries(v, p)
             ns == sn \o e
  <2>1. e \in Seq(Rec)
    BY <1>LeafPassedOn, <1>TreeTypes
  <2> HIDE DEF e
  <2>2. /\ ns \in Seq(Rec)
        /\ \A k \in DOMAIN ns : (k \in DOMAIN sn /\ ns[k] = sn[k]) \/ \E i \in DOMAIN e : ns[k] = e[i]
    BY <2>1, <1>Joined, Zenon
  <2> HIDE DEF ns
  <2>3. ASSUME NEW k \in DOMAIN ns
        PROVE  \E q \in v.paddrs : /\ v.blocks[q].cksum /\ is_leaf(v.blocks[q]) /\ Entered(v, ws, q)
                                   /\ \E j \in DOMAIN Entries(v, q) : ns[k] = Entries(v, q)[j]
    <3>1. CASE k \in DOMAIN sn /\ ns[k] = sn[k]
      BY <1>LeafPassedOn, <3>1, Zenon DEF FromLeaves
    <3>2. CASE \E i \in DOMAIN e : ns[k] = e[i]
      BY <1>LeafPassedOn, <3>2, Zenon DEF e
    <3> QED
      BY <2>2, <3>1, <3>2, Zenon
  <2> QED
    BY <2>2, <2>3, Zenon DEF FromLeaves, ns, e

\* A well-formed tree has no two metadata records of the same xid.
<1>KeysDiffer.
  ASSUME NEW v, WellFormed(v), NEW p \in v.paddrs, NEW q \in v.paddrs, Level(v, p) = 0, Level(v, q) = 0,
         NEW j \in DOMAIN Entries(v, p), NEW k \in DOMAIN Entries(v, q),
         IsMetadata(Entries(v, p)[j]), IsMetadata(Entries(v, q)[k]), Entries(v, p)[j].xid = Entries(v, q)[k].xid
  PROVE  p = q /\ j = k
  <2> DEFINE S == {b \in v.paddrs : v.blocks[b].level = 0}
  <2>1. \A x, y \in S : \A m \in DOMAIN v.blocks[x].entries, n \in DOMAIN v.blocks[y].entries :
          /\ IsMetadata(v.blocks[x].entries[m]) /\ IsMetadata(v.blocks[y].entries[n])
          /\ v.blocks[x].entries[m].xid = v.blocks[y].entries[n].xid
          => x = y /\ m = n
    BY <1>KeysDiffer, Zenon DEF WellFormed
  <2>2. p \in S /\ q \in S
    BY <1>KeysDiffer DEF Level
  <2> HIDE DEF S
  <2> QED
    BY <1>KeysDiffer, <2>1, <2>2, Zenon DEF Entries

\* So a leaf that was not entered before adds other xids.
<1>XidsStayDifferent.
  ASSUME NEW v, IsTree(v), WellFormed(v), NEW sn \in Seq(Rec), NEW vis, NEW p \in v.paddrs, Level(v, p) = 0,
         ~Entered(v, vis, p), FromLeaves(v, vis, sn), XidsDiffer(sn)
  PROVE  XidsDiffer(sn \o Entries(v, p))
  <2> DEFINE e == Entries(v, p)
             ns == sn \o e
  <2>1. e \in Seq(Rec)
    BY <1>XidsStayDifferent, <1>TreeTypes
  <2>2. \A k \in DOMAIN ns : (k \in DOMAIN sn /\ ns[k] = sn[k]) \/ \E i \in DOMAIN e : k = Len(sn) + i /\ ns[k] = e[i]
    BY <2>1, <1>Joined, Zenon
  <2> HIDE DEF ns
  <2>3. ASSUME NEW k \in DOMAIN sn, IsMetadata(sn[k]), NEW i \in DOMAIN e, IsMetadata(e[i]), sn[k].xid = e[i].xid
        PROVE  FALSE
    <3>1. PICK q \in v.paddrs : /\ is_leaf(v.blocks[q]) /\ Entered(v, vis, q)
                                /\ \E j \in DOMAIN Entries(v, q) : sn[k] = Entries(v, q)[j]
      BY <1>XidsStayDifferent, Zenon DEF FromLeaves
    <3>2. PICK j \in DOMAIN Entries(v, q) : sn[k] = Entries(v, q)[j]
      BY <3>1
    <3>3. Level(v, q) = 0
      BY <1>XidsStayDifferent, <3>1, <1>WellFormedTree, Zenon
    <3>4. p = q
      BY <1>XidsStayDifferent, <2>3, <3>2, <3>3, <1>KeysDiffer, Zenon
    <3> QED
      BY <1>XidsStayDifferent, <3>1, <3>4
  <2>4. ASSUME NEW i \in DOMAIN e, IsMetadata(e[i]), NEW j \in DOMAIN e, IsMetadata(e[j]), e[i].xid = e[j].xid
        PROVE  i = j
    BY <1>XidsStayDifferent, <2>4, <1>KeysDiffer, Zenon
  <2> HIDE DEF e
  <2>5. ASSUME NEW a \in DOMAIN ns, NEW b \in DOMAIN ns, IsMetadata(ns[a]), IsMetadata(ns[b]), ns[a].xid = ns[b].xid
        PROVE  a = b
    <3>1. CASE a \in DOMAIN sn /\ ns[a] = sn[a] /\ b \in DOMAIN sn /\ ns[b] = sn[b]
      BY <1>XidsStayDifferent, <2>5, <3>1, Zenon DEF XidsDiffer, MetadataIn
    <3>2. CASE /\ \E i \in DOMAIN e : a = Len(sn) + i /\ ns[a] = e[i]
               /\ \E i \in DOMAIN e : b = Len(sn) + i /\ ns[b] = e[i]
      BY <2>4, <2>5, <3>2, Zenon
    <3>3. CASE a \in DOMAIN sn /\ ns[a] = sn[a] /\ \E i \in DOMAIN e : ns[b] = e[i]
      BY <2>3, <2>5, <3>3, Zenon
    <3>4. CASE b \in DOMAIN sn /\ ns[b] = sn[b] /\ \E i \in DOMAIN e : ns[a] = e[i]
      BY <2>3, <2>5, <3>4, Zenon
    <3> QED
      BY <2>2, <3>1, <3>2, <3>3, <3>4, Zenon
  <2> QED
    BY <2>5, Zenon DEF XidsDiffer, MetadataIn, ns, e

\* A walk that is not over keeps its invariant if its parts do.
<1>StillWalking.
  ASSUME WalkInv, tree' = tree, asked' = asked, result' = result, walk \in {"start", "enter", "loop"},
         walk' \in {"enter", "loop"}, node' \in Nat, stack' \in Seq(Frame(tree)), seen' \in Seq(Rec),
         walk' = "enter" /\ stack' = << >> => node' = Root(tree) /\ visited' = {} /\ seen' = << >>,
         stack' # << >> \/ walk' = "loop" => Root(tree) \in visited',
         FromLeaves(tree, visited', seen'),
         WellFormed(tree) => XidsDiffer(seen') /\ Progress(tree, walk' = "enter", node', stack', visited', seen')
  PROVE  WalkInv'
  <2>1. walk' \notin {"idle", "start", "done", "failed"} /\ walk' # "idle" /\ walk' # "done" /\ walk' # "failed"
    BY <1>StillWalking
  <2>2. WalkTyped'
    <3>1. asked \in Names \cup {NoName} /\ IsTree(tree) /\ result \in Seq(Rec)
      BY <1>StillWalking DEF WalkInv, WalkTyped
    <3> QED
      BY <1>StillWalking, <3>1 DEF WalkTyped
  <2>3. ListsEverySnapshot' /\ NameResolves' /\ SoundTreeIsRead'
    BY <2>1 DEF ListsEverySnapshot, NameResolves, SoundTreeIsRead
  <2> QED
    BY <1>StillWalking, <2>1, <2>2, <2>3, Zenon DEF WalkInv

\* A refusal keeps the invariant if a sound tree gives no reason for it.
<1>RefusalOK.
  ASSUME WalkInv, NEW kind, WalkFails(kind), walk \in {"start", "enter", "loop"},
         WellFormed(tree) /\ Sound(tree) /\ tree.snap_meta_tree_oid \notin tree.oids => kind = "Io"
  PROVE  WalkInv'
  <2>1. walk' = "failed" /\ walk_error' = kind /\ UNCHANGED <<tree, asked, node, stack, visited, seen, result>>
    BY <1>RefusalOK DEF WalkFails
  <2>2. walk # "idle"
    BY <1>RefusalOK
  <2>3. WalkTyped'
    BY <1>RefusalOK, <2>1, <2>2 DEF WalkInv, WalkTyped
  <2>4. ListsEverySnapshot' /\ NameResolves'
    BY <2>1 DEF ListsEverySnapshot, NameResolves
  <2>5. SoundTreeIsRead'
    BY <1>RefusalOK, <2>1 DEF SoundTreeIsRead
  <2>6. /\ stack # << >> => Root(tree) \in visited
        /\ FromLeaves(tree, visited, seen)
        /\ WellFormed(tree) => XidsDiffer(seen)
    BY <1>RefusalOK, <2>2, Zenon DEF WalkInv
  <2>7. /\ stack' # << >> \/ walk' = "loop" => Root(tree') \in visited'
        /\ FromLeaves(tree', visited', seen')
        /\ WellFormed(tree') => XidsDiffer(seen')
    BY <2>1, <2>6
  <2> QED
    BY <2>1, <2>3, <2>4, <2>5, <2>7, Zenon DEF WalkInv

\* for_each_snap_record begins.
<1>BeginOK.
  ASSUME WalkInv, BeginWalk
  PROVE  WalkInv'
  <2>1. walk = "start" /\ walk \in {"start", "enter", "loop"}
    BY <1>BeginOK DEF BeginWalk
  <2>2. CASE WalkFails("Io")
    BY <1>BeginOK, <2>1, <2>2, <1>RefusalOK
  <2>3. CASE tree.omap_header # "ok" /\ WalkFails(tree.omap_header)
    BY <1>BeginOK, <2>1, <2>3, <1>RefusalOK DEF Sound
  <2>4. CASE ~WalkFails("Io") /\ ~(tree.omap_header # "ok" /\ WalkFails(tree.omap_header))
    <3>1. /\ walk' = "enter" /\ node' = Root(tree)
          /\ UNCHANGED <<tree, asked, stack, visited, seen, result, walk_error>>
      BY <1>BeginOK, <2>4, Zenon DEF BeginWalk, Root
    <3>2. stack = << >> /\ visited = {} /\ seen = << >> /\ IsTree(tree) /\ FromLeaves(tree, visited, seen)
      BY <1>BeginOK, <2>1, Zenon DEF WalkInv, WalkTyped
    <3>3. Root(tree) \in Nat
      BY <3>2, <1>TreeTypes
    <3>4. << >> \in Seq(Frame(tree)) /\ << >> \in Seq(Rec) /\ XidsDiffer(<< >>)
      BY DEF XidsDiffer, MetadataIn
    <3>5. Progress(tree, TRUE, Root(tree), << >>, {}, << >>)
      <4>1. Within(tree, {}) = {} /\ \A p : ~Entered(tree, {}, p)
        BY DEF Within, Entered
      <4>2. Frames(tree, << >>, {})
        BY DEF Frames
      <4> QED
        BY <4>1, <4>2, Zenon DEF Progress, ChildrenCalled, ParentsEntered, LeavesRead
    <3>6. /\ walk' \in {"enter", "loop"} /\ node' \in Nat /\ stack' \in Seq(Frame(tree)) /\ seen' \in Seq(Rec)
          /\ stack' = << >> /\ visited' = {} /\ seen' = << >> /\ walk' # "loop"
      BY <3>1, <3>2, <3>3, <3>4
    <3>7. FromLeaves(tree, visited', seen')
      BY <3>1, <3>2
    <3>8. Progress(tree, walk' = "enter", node', stack', visited', seen') /\ XidsDiffer(seen')
      BY <3>1, <3>2, <3>4, <3>5, Zenon
    <3> QED
      BY <1>BeginOK, <2>1, <3>1, <3>6, <3>7, <3>8, <1>StillWalking
  <2> QED
    BY <2>2, <2>3, <2>4

\* What the walk knows of the node it is called with.
<1>Entering.
  ASSUME WalkInv, walk = "enter"
  PROVE  /\ IsTree(tree) /\ stack \in Seq(Frame(tree)) /\ seen \in Seq(Rec)
         /\ stack = << >> => node = Root(tree) /\ visited = {} /\ seen = << >>
         /\ stack # << >> => Root(tree) \in visited
         /\ FromLeaves(tree, visited, seen)
         /\ WellFormed(tree) => XidsDiffer(seen) /\ Progress(tree, TRUE, node, stack, visited, seen)
  <2>1. walk # "idle" /\ walk \in {"enter", "loop"} /\ (walk = "enter") = TRUE
    BY <1>Entering
  <2>2. Progress(tree, walk = "enter", node, stack, visited, seen) => Progress(tree, TRUE, node, stack, visited, seen)
    BY <2>1, Zenon
  <2> QED
    BY <1>Entering, <2>1, <2>2, Zenon DEF WalkInv, WalkTyped

\* In a sound tree descend_snap has no reason to refuse.
<1>RefuseOK.
  ASSUME WalkInv, Refuse
  PROVE  WalkInv'
  <2>1. walk = "enter" /\ walk \in {"start", "enter", "loop"}
    BY <1>RefuseOK DEF Refuse, Called, Fresh, Readable
  <2> DEFINE Whole == WellFormed(tree) /\ Sound(tree) /\ tree.snap_meta_tree_oid \notin tree.oids
  <2>2. ASSUME Whole
        PROVE  /\ Called /\ node \notin visited /\ ~Unmapped /\ MapError = "None"
               /\ paddr \in tree.paddrs => tree.blocks[paddr].cksum
    <3>1. /\ IsTree(tree) /\ stack \in Seq(Frame(tree)) /\ Progress(tree, TRUE, node, stack, visited, seen)
          /\ stack = << >> => visited = {}
      BY <1>RefuseOK, <2>1, <2>2, <1>Entering, Zenon
    <3>2. Called
      BY <2>1, <2>2, <3>1, <1>StackBound, Zenon DEF Called, Progress
    <3>3. CASE stack = << >>
      BY <2>2, <3>1, <3>2, <3>3 DEF Unmapped, MapError, is_root, Sound
    <3>4. CASE stack # << >>
      <4>1. node \in tree.oids /\ node \notin Within(tree, visited)
        BY <2>2, <3>1, <3>4, <1>NodeCalled, Zenon
      <4>2. node \notin visited
        BY <2>2, <4>1 DEF Within, Root
      <4> QED
        BY <2>2, <3>2, <3>4, <4>1, <4>2 DEF Unmapped, MapError, is_root, Sound
    <3> QED
      BY <3>3, <3>4
  <2>3. \E kind : WalkFails(kind) /\ (Whole => kind = "Io")
    BY <1>RefuseOK, <2>2 DEF Refuse, Fresh, Readable, Verified
  <2> QED
    BY <1>RefuseOK, <2>1, <2>3, <1>RefusalOK, Zenon

\* The block that is read: the root's, or that of a node.
<1>BlockRead.
  ASSUME WalkInv, Verified
  PROVE  /\ walk = "enter" /\ node \notin visited /\ paddr \in tree.paddrs /\ tree.blocks[paddr].cksum
         /\ stack = << >> => paddr = Root(tree) /\ node = Root(tree)
         /\ stack # << >> => node \in tree.oids /\ node # Root(tree) /\ paddr = AddrOf(tree, node)
         /\ Entered(tree, visited \cup {node}, paddr) /\ Root(tree) \in visited \cup {node}
         /\ \A q : Entered(tree, visited, q) => Entered(tree, visited \cup {node}, q)
  <2>1. walk = "enter" /\ node \notin visited /\ ~Unmapped /\ paddr \in tree.paddrs /\ tree.blocks[paddr].cksum
    BY <1>BlockRead DEF Verified, Readable, Fresh, Called
  <2>2. CASE stack = << >>
    <3>1. paddr = Root(tree) /\ node = Root(tree) /\ visited = {}
      BY <1>BlockRead, <2>1, <2>2, <1>Entering DEF paddr, is_root
    <3>2. visited \cup {node} = {Root(tree)}
      BY <3>1
    <3>3. \A q : ~Entered(tree, {}, q)
      BY DEF Entered, Within
    <3> QED
      BY <2>1, <2>2, <3>1, <3>2, <3>3, <1>RootEntered, Zenon
  <2>3. CASE stack # << >>
    <3>1. node \in tree.oids /\ paddr = AddrOf(tree, node)
      BY <2>1, <2>3 DEF paddr, is_root, Unmapped, AddrOf
    <3>2. Root(tree) \in visited /\ node # Root(tree)
      BY <1>BlockRead, <2>1, <2>3, <1>Entering
    <3>3. \A q : Entered(tree, visited \cup {node}, q) <=> Entered(tree, visited, q) \/ q = AddrOf(tree, node)
      BY <3>1, <3>2, <1>OneMoreEntered, Zenon
    <3> QED
      BY <2>1, <2>3, <3>1, <3>2, <3>3, Zenon
  <2> QED
    BY <2>2, <2>3, Zenon

\* A leaf is read.
<1>VisitLeafOK.
  ASSUME WalkInv, VisitLeaf
  PROVE  WalkInv'
  <2>1. Verified /\ is_leaf(tree.blocks[paddr])
    BY <1>VisitLeafOK DEF VisitLeaf
  <2>2. /\ seen' = seen \o Entries(tree, paddr) /\ visited' = visited \cup {node} /\ walk' = "loop"
        /\ UNCHANGED <<tree, asked, node, stack, result, walk_error>>
    BY <1>VisitLeafOK DEF VisitLeaf, Entries
  <2>3. /\ walk = "enter" /\ node \notin visited /\ paddr \in tree.paddrs /\ tree.blocks[paddr].cksum
        /\ stack = << >> => paddr = Root(tree) /\ node = Root(tree)
        /\ stack # << >> => node \in tree.oids /\ node # Root(tree) /\ paddr = AddrOf(tree, node)
        /\ Entered(tree, visited \cup {node}, paddr) /\ Root(tree) \in visited \cup {node}
        /\ \A q : Entered(tree, visited, q) => Entered(tree, visited \cup {node}, q)
    BY <1>VisitLeafOK, <2>1, <1>BlockRead, Zenon
  <2>4. /\ IsTree(tree) /\ stack \in Seq(Frame(tree)) /\ seen \in Seq(Rec)
        /\ stack = << >> => visited = {} /\ seen = << >>
        /\ stack # << >> => Root(tree) \in visited
        /\ FromLeaves(tree, visited, seen)
        /\ WellFormed(tree) => XidsDiffer(seen) /\ Progress(tree, TRUE, node, stack, visited, seen)
    BY <1>VisitLeafOK, <2>3, <1>Entering, Zenon
  <2>5. seen' \in Seq(Rec) /\ FromLeaves(tree, visited', seen')
    BY <2>1, <2>2, <2>3, <2>4, <1>LeafPassedOn, Zenon
  <2>6. ASSUME WellFormed(tree)
        PROVE  XidsDiffer(seen') /\ Progress(tree, FALSE, node, stack, visited', seen')
    <3>1. Level(tree, paddr) = 0
      BY <2>1, <2>3, <2>4, <2>6, <1>WellFormedTree, Zenon
    <3>2. CASE stack = << >>
      <4>1. ~Entered(tree, visited, paddr)
        BY <2>4, <3>2 DEF Entered, Within
      <4>2. XidsDiffer(seen')
        BY <2>2, <2>3, <2>4, <2>6, <3>1, <4>1, <1>XidsStayDifferent, Zenon
      <4>3. visited' = {Root(tree)} /\ seen' = << >> \o Entries(tree, Root(tree)) /\ Level(tree, Root(tree)) = 0
        BY <2>2, <2>3, <2>4, <3>1, <3>2, Zenon
      <4> QED
        BY <2>4, <2>6, <3>2, <4>2, <4>3, <1>RootLeafEntered, Zenon
    <3>3. CASE stack # << >>
      <4>0. /\ Progress(tree, TRUE, node, stack, visited, seen) /\ Root(tree) \in visited /\ IsTree(tree)
            /\ node \notin visited /\ stack \in Seq(Frame(tree)) /\ paddr = AddrOf(tree, node)
        BY <2>3, <2>4, <2>6, <3>3, Zenon
      <4>1. ~Entered(tree, visited, paddr)
        BY <2>6, <3>3, <4>0, <1>NodeEntered, Zenon
      <4>2. XidsDiffer(seen')
        BY <2>2, <2>3, <2>4, <2>6, <3>1, <4>1, <1>XidsStayDifferent, Zenon
      <4> QED
        BY <2>2, <2>3, <2>4, <2>6, <3>1, <3>3, <4>2, <1>LeafEntered, Zenon
    <3> QED
      BY <3>2, <3>3, Zenon
  <2>7. (walk' = "enter") = FALSE /\ walk \in {"start", "enter", "loop"} /\ walk' \in {"enter", "loop"}
    BY <2>2, <2>3
  <2>8. /\ node' \in Nat /\ stack' \in Seq(Frame(tree)) /\ Root(tree) \in visited'
        /\ WellFormed(tree) => XidsDiffer(seen') /\ Progress(tree, walk' = "enter", node', stack', visited', seen')
    <3>1. node \in Nat
      BY <1>VisitLeafOK DEF WalkInv, WalkTyped
    <3> QED
      BY <2>2, <2>3, <2>4, <2>6, <2>7, <3>1, Zenon
  <2> QED
    BY <1>VisitLeafOK, <2>2, <2>5, <2>7, <2>8, <1>StillWalking, Zenon

\* An index node is read.
<1>EnterIndexOK.
  ASSUME WalkInv, EnterIndex
  PROVE  WalkInv'
  <2> DEFINE fr == [paddr |-> paddr, next |-> 1]
  <2>1. Verified /\ ~is_leaf(tree.blocks[paddr])
    BY <1>EnterIndexOK DEF EnterIndex
  <2>2. /\ stack' = Append(stack, fr) /\ visited' = visited \cup {node} /\ walk' = "loop"
        /\ UNCHANGED <<tree, asked, node, seen, result, walk_error>>
    BY <1>EnterIndexOK DEF EnterIndex
  <2>3. /\ walk = "enter" /\ node \notin visited /\ paddr \in tree.paddrs
        /\ stack = << >> => paddr = Root(tree) /\ node = Root(tree)
        /\ stack # << >> => paddr = AddrOf(tree, node)
        /\ Root(tree) \in visited \cup {node}
        /\ \A q : Entered(tree, visited, q) => Entered(tree, visited \cup {node}, q)
    BY <1>EnterIndexOK, <2>1, <1>BlockRead, Zenon
  <2>4. /\ IsTree(tree) /\ stack \in Seq(Frame(tree)) /\ seen \in Seq(Rec)
        /\ stack = << >> => visited = {} /\ seen = << >>
        /\ stack # << >> => Root(tree) \in visited
        /\ FromLeaves(tree, visited, seen)
        /\ WellFormed(tree) => XidsDiffer(seen) /\ Progress(tree, TRUE, node, stack, visited, seen)
    BY <1>EnterIndexOK, <2>3, <1>Entering, Zenon
  <2>5. FromLeaves(tree, visited', seen')
    <3>1. FromLeaves(tree, visited \cup {node}, seen)
      BY <2>3, <2>4, Zenon DEF FromLeaves
    <3> QED
      BY <2>2, <3>1, Zenon
  <2>6. ASSUME WellFormed(tree)
        PROVE  XidsDiffer(seen') /\ Progress(tree, FALSE, node, stack', visited', seen')
    <3>1. Level(tree, paddr) \in Nat /\ Level(tree, paddr) # 0
      BY <2>1, <2>3, <2>4, <2>6, <1>WellFormedTree, <1>TreeTypes
    <3>2. Level(tree, paddr) > 0
      BY <3>1
    <3>3. CASE stack = << >>
      <4>1. /\ visited' = {Root(tree)} /\ Level(tree, Root(tree)) > 0 /\ seen' = << >>
            /\ stack' = Append(<< >>, [paddr |-> Root(tree), next |-> 1])
        BY <2>2, <2>3, <2>4, <3>2, <3>3
      <4>2. Progress(tree, FALSE, node, stack', visited', seen')
        BY <2>4, <2>6, <4>1, <1>RootIndexEntered, Zenon
      <4> QED
        BY <2>2, <2>4, <2>6, <4>2, Zenon
    <3>4. CASE stack # << >>
      <4>1. /\ Progress(tree, TRUE, node, stack, visited, seen) /\ Root(tree) \in visited /\ IsTree(tree)
            /\ node \notin visited /\ stack \in Seq(Frame(tree)) /\ Level(tree, AddrOf(tree, node)) > 0
            /\ stack' = Append(stack, [paddr |-> AddrOf(tree, node), next |-> 1])
        BY <2>2, <2>3, <2>4, <2>6, <3>2, <3>4, Zenon
      <4>2. Progress(tree, FALSE, node, stack', visited \cup {node}, seen)
        BY <2>6, <3>4, <4>1, <1>IndexEntered, Zenon
      <4> QED
        BY <2>2, <2>4, <2>6, <4>2, Zenon
    <3> QED
      BY <3>3, <3>4, Zenon
  <2>7. (walk' = "enter") = FALSE /\ walk \in {"start", "enter", "loop"} /\ walk' \in {"enter", "loop"}
    BY <2>2, <2>3, Zenon
  <2>8. /\ node' \in Nat /\ stack' \in Seq(Frame(tree)) /\ seen' \in Seq(Rec) /\ Root(tree) \in visited'
        /\ WellFormed(tree) => XidsDiffer(seen') /\ Progress(tree, walk' = "enter", node', stack', visited', seen')
    <3>1. node \in Nat
      BY <1>EnterIndexOK DEF WalkInv, WalkTyped
    <3>2. fr \in Frame(tree)
      BY <2>3 DEF Frame
    <3>3. stack' \in Seq(Frame(tree))
      BY <2>2, <2>4, <3>2
    <3> QED
      BY <2>2, <2>3, <2>4, <2>6, <2>7, <3>1, <3>3, Zenon
  <2> QED
    BY <1>EnterIndexOK, <2>2, <2>5, <2>7, <2>8, <1>StillWalking, Zenon

\* What the walk knows in the loop of an index node.
<1>InTheLoop.
  ASSUME WalkInv, walk = "loop"
  PROVE  /\ IsTree(tree) /\ stack \in Seq(Frame(tree)) /\ seen \in Seq(Rec) /\ node \in Nat
         /\ Root(tree) \in visited
         /\ FromLeaves(tree, visited, seen)
         /\ WellFormed(tree) => XidsDiffer(seen) /\ Progress(tree, FALSE, node, stack, visited, seen)
  <2>1. walk # "idle" /\ walk \in {"enter", "loop"} /\ (walk = "enter") = FALSE
    BY <1>InTheLoop
  <2>2. Progress(tree, walk = "enter", node, stack, visited, seen) => Progress(tree, FALSE, node, stack, visited, seen)
    BY <2>1, Zenon
  <2> QED
    BY <1>InTheLoop, <2>1, <2>2, Zenon DEF WalkInv, WalkTyped

\* The next child is called, or the call returns.
<1>TurnOK.
  ASSUME WalkInv, Turn
  PROVE  WalkInv'
  <2> DEFINE top == stack[Len(stack)]
             e == Entries(tree, top.paddr)
  <2>1. walk = "loop" /\ stack # << >> /\ UNCHANGED <<tree, asked, visited, seen, result, walk_error>>
    BY <1>TurnOK DEF Turn
  <2>2. /\ IsTree(tree) /\ stack \in Seq(Frame(tree)) /\ seen \in Seq(Rec) /\ node \in Nat
        /\ Root(tree) \in visited
        /\ FromLeaves(tree, visited, seen)
        /\ WellFormed(tree) => XidsDiffer(seen) /\ Progress(tree, FALSE, node, stack, visited, seen)
    BY <1>TurnOK, <2>1, <1>InTheLoop, Zenon
  <2>3. Len(stack) \in DOMAIN stack /\ top.paddr \in tree.paddrs /\ top.next \in Nat /\ top.next > 0 /\ Len(stack) \in Nat
    BY <2>1, <2>2, <1>FrameTypes
  <2>4. \/ top.next <= Len(e) /\ node' = e[top.next].ref /\ stack' = Advanced(stack) /\ walk' = "enter"
        \/ top.next > Len(e) /\ stack' = SubSeq(stack, 1, Len(stack) - 1) /\ node' = node /\ walk' = walk
    BY <1>TurnOK, Zenon DEF Turn, Entries, Advanced
  <2>5. FromLeaves(tree, visited', seen') /\ seen' \in Seq(Rec) /\ Root(tree) \in visited' /\ walk \in {"start", "enter", "loop"}
    BY <2>1, <2>2, Zenon
  <2>6. CASE top.next <= Len(e) /\ node' = e[top.next].ref /\ stack' = Advanced(stack) /\ walk' = "enter"
    <3>1. e \in Seq(Rec)
      BY <2>2, <2>3, <1>TreeTypes
    <3>2. top.next \in DOMAIN e
      <4> HIDE DEF e, top
      <4> QED
        BY <2>3, <2>6, <3>1
    <3>3. node' \in Nat
      BY <2>2, <2>3, <2>6, <3>2, <1>TreeTypes, Zenon
    <3>4. stack' \in Seq(Frame(tree)) /\ stack' # << >>
      <4>1. [paddr |-> top.paddr, next |-> top.next + 1] \in Frame(tree)
        BY <2>3 DEF Frame
      <4> QED
        BY <2>2, <2>3, <2>6, <4>1 DEF Advanced
    <3>5. ASSUME WellFormed(tree)
          PROVE  XidsDiffer(seen') /\ Progress(tree, TRUE, node', stack', visited', seen')
      <4>1. Progress(tree, FALSE, node, stack, visited, seen) /\ XidsDiffer(seen)
        BY <2>2, <3>5, Zenon
      <4>2. Progress(tree, TRUE, node', stack', visited, seen)
        BY <2>1, <2>2, <2>6, <3>5, <4>1, <1>ChildCalled, Zenon
      <4> QED
        BY <2>1, <4>1, <4>2, Zenon
    <3>6. (walk' = "enter") = TRUE /\ walk' \in {"enter", "loop"}
      BY <2>6, Zenon
    <3>7. WellFormed(tree) => XidsDiffer(seen') /\ Progress(tree, walk' = "enter", node', stack', visited', seen')
      BY <3>5, <3>6, Zenon
    <3> QED
      BY <1>TurnOK, <2>1, <2>5, <3>3, <3>4, <3>6, <3>7, <1>StillWalking, Zenon
  <2>7. CASE top.next > Len(e) /\ stack' = SubSeq(stack, 1, Len(stack) - 1) /\ node' = node /\ walk' = walk
    <3>1. stack' \in Seq(Frame(tree))
      BY <2>2, <2>3, <2>7
    <3>2. ASSUME WellFormed(tree)
          PROVE  XidsDiffer(seen') /\ Progress(tree, FALSE, node', stack', visited', seen')
      <4>1. Progress(tree, FALSE, node, stack, visited, seen) /\ XidsDiffer(seen)
        BY <2>2, <3>2, Zenon
      <4>2. Progress(tree, FALSE, node, stack', visited, seen)
        BY <2>1, <2>2, <2>7, <3>2, <4>1, <1>CallReturned, Zenon
      <4> QED
        BY <2>1, <2>7, <4>1, <4>2, Zenon
    <3>3. (walk' = "enter") = FALSE /\ walk' \in {"enter", "loop"} /\ walk' # "enter"
      BY <2>1, <2>7, Zenon
    <3>4. WellFormed(tree) => XidsDiffer(seen') /\ Progress(tree, walk' = "enter", node', stack', visited', seen')
      BY <3>2, <3>3, Zenon
    <3>5. node' \in Nat
      BY <2>2, <2>7, Zenon
    <3> QED
      BY <1>TurnOK, <2>1, <2>5, <3>1, <3>3, <3>4, <3>5, <1>StillWalking, Zenon
  <2> QED
    BY <2>4, <2>6, <2>7, Zenon

\* A walk that is over has entered every block of a well-formed tree: a block that
\* was not entered, of the highest level, would have a parent that was.
<1>AllEntered.
  ASSUME NEW v, IsTree(v), WellFormed(v), NEW o, NEW vis, NEW sn, Progress(v, FALSE, o, << >>, vis, sn), Root(v) \in vis
  PROVE  \A p \in v.paddrs : Entered(v, vis, p)
  <2> DEFINE U == {p \in v.paddrs : ~Entered(v, vis, p)}
             T == {Level(v, p) : p \in U}
  <2> SUFFICES ASSUME U # {}
               PROVE  FALSE
    BY Zenon
  <2>1. T \in SUBSET Nat /\ T # {} /\ MaxSnapTreeDepth \in Nat
    BY <1>AllEntered, <1>TreeTypes, SnapTreeAssumption
  <2>2. \A x \in T : x <= MaxSnapTreeDepth
    <3>1. \A p \in v.paddrs : Level(v, p) < MaxSnapTreeDepth /\ Level(v, p) \in Nat
      BY <1>AllEntered, <1>WellFormedTree, <1>TreeTypes
    <3> QED
      BY <2>1, <3>1
  <2>3. PICK m \in T : \A x \in T : x <= m
    BY <2>1, <2>2, GreatestElement, Zenon
  <2>4. PICK p \in U : m = Level(v, p)
    BY <2>3
  <2>5. p \in v.paddrs /\ ~Entered(v, vis, p) /\ \A q \in U : Level(v, q) <= Level(v, p)
    BY <2>3, <2>4, Zenon
  <2> HIDE DEF T
  <2>6. PICK c \in v.oids : AddrOf(v, c) = p
    BY <1>AllEntered, <2>5, <1>WellFormedTree, Zenon DEF Entered
  <2>7. PICK q \in v.paddrs : Level(v, q) > 0 /\ \E j \in DOMAIN Entries(v, q) : Entries(v, q)[j].ref = c
    BY <1>AllEntered, <2>6, <1>OneParent
  <2>8. Level(v, p) = Level(v, q) - 1
    BY <1>AllEntered, <2>6, <2>7, <1>OneParent
  <2>9. Level(v, p) \in Nat /\ Level(v, q) \in Nat
    BY <1>AllEntered, <2>5, <1>TreeTypes
  <2>10. Entered(v, vis, q)
    <3>1. ~(Level(v, q) <= Level(v, p))
      BY <2>8, <2>9
    <3> QED
      BY <2>5, <3>1, Zenon
  <2>11. \A x, j : WasCalled(<< >>, FALSE, x, j)
    BY DEF WasCalled
  <2>12. c \in Within(v, vis)
    BY <1>AllEntered, <2>7, <2>10, <2>11, Zenon DEF Progress, ChildrenCalled
  <2> QED
    BY <2>5, <2>6, <2>12, Zenon DEF Entered

\* The records a leaf holds, and what a well-formed tree stores.
<1>StoredInLeaves.
  ASSUME NEW v, IsTree(v), WellFormed(v)
  PROVE  /\ \A r \in v.stored : \E p \in v.paddrs : Level(v, p) = 0 /\ \E j \in DOMAIN Entries(v, p) : r = Entries(v, p)[j]
         /\ \A p \in v.paddrs : Level(v, p) = 0 => \A j \in DOMAIN Entries(v, p) : Entries(v, p)[j] \in v.stored
  <2>1. v.stored = UNION {{Entries(v, p)[j] : j \in DOMAIN Entries(v, p)} : p \in {b \in v.paddrs : Level(v, b) = 0}}
    BY <1>StoredInLeaves, Zenon DEF WellFormed, Entries, Level
  <2> QED
    BY <2>1

\* What a walk that is over has passed on is what the tree stores.
<1>SeenIsStored.
  ASSUME NEW v, IsTree(v), WellFormed(v), NEW o, NEW st, st = << >>, NEW vis, NEW sn, Progress(v, FALSE, o, st, vis, sn),
         Root(v) \in vis, FromLeaves(v, vis, sn)
  PROVE  /\ \A k \in DOMAIN sn : sn[k] \in v.stored
         /\ \A r \in v.stored : PassedOn(sn, r)
  <2>1. ASSUME NEW k \in DOMAIN sn
        PROVE  sn[k] \in v.stored
    <3>1. PICK p \in v.paddrs : is_leaf(v.blocks[p]) /\ \E j \in DOMAIN Entries(v, p) : sn[k] = Entries(v, p)[j]
      BY <1>SeenIsStored, Zenon DEF FromLeaves
    <3>2. Level(v, p) = 0
      BY <1>SeenIsStored, <3>1, <1>WellFormedTree, Zenon
    <3> QED
      BY <1>SeenIsStored, <3>1, <3>2, <1>StoredInLeaves, Zenon
  <2>2. ASSUME NEW r \in v.stored
        PROVE  PassedOn(sn, r)
    <3>1. PICK p \in v.paddrs : Level(v, p) = 0 /\ \E j \in DOMAIN Entries(v, p) : r = Entries(v, p)[j]
      BY <1>SeenIsStored, <1>StoredInLeaves, Zenon
    <3>2. Entered(v, vis, p)
      BY <1>SeenIsStored, <1>AllEntered, Zenon
    <3> QED
      BY <1>SeenIsStored, <3>1, <3>2, Zenon DEF Progress, LeavesRead, PassedOn
  <2> QED
    BY <2>1, <2>2

\* A walk returns.
<1>ReturnOK.
  ASSUME WalkInv, WalkOver, NEW records \in Seq(Rec), Return(records), ListsEverySnapshot', NameResolves'
  PROVE  WalkInv'
  <2>1. walk = "loop" /\ stack = << >>
    BY <1>ReturnOK DEF WalkOver
  <2>2. walk' = "done" /\ result' = records /\ UNCHANGED <<tree, asked, node, stack, visited, seen, walk_error>>
    BY <1>ReturnOK DEF Return
  <2>3. WalkTyped'
    BY <1>ReturnOK, <2>1, <2>2 DEF WalkInv, WalkTyped
  <2>4. SoundTreeIsRead'
    BY <2>2 DEF SoundTreeIsRead
  <2>5. FromLeaves(tree, visited, seen) /\ (WellFormed(tree) => XidsDiffer(seen))
    BY <1>ReturnOK, <2>1, <1>InTheLoop, Zenon
  <2>6. FromLeaves(tree', visited', seen') /\ (WellFormed(tree') => XidsDiffer(seen'))
    BY <2>2, <2>5
  <2>7. walk' \notin {"idle", "start"} /\ walk' # "enter" /\ walk' # "loop" /\ stack' = << >> /\ walk' \notin {"enter", "loop"}
    BY <2>1, <2>2
  <2> QED
    BY <1>ReturnOK, <2>3, <2>4, <2>6, <2>7, Zenon DEF WalkInv

\* What has been passed on when the walk of a well-formed tree is over.
<1>AllPassedOn.
  ASSUME WalkInv, WalkOver, WellFormed(tree)
  PROVE  /\ XidsDiffer(seen)
         /\ \A k \in DOMAIN seen : seen[k] \in tree.stored
         /\ \A r \in tree.stored : \E k \in DOMAIN seen : seen[k] = r
  <2>1. walk = "loop" /\ stack = << >>
    BY <1>AllPassedOn DEF WalkOver
  <2>2. /\ IsTree(tree) /\ Root(tree) \in visited /\ FromLeaves(tree, visited, seen) /\ XidsDiffer(seen)
        /\ Progress(tree, FALSE, node, stack, visited, seen)
    BY <1>AllPassedOn, <2>1, <1>InTheLoop, Zenon
  <2>3. stack = << >> /\ IsTree(tree) /\ Root(tree) \in visited /\ FromLeaves(tree, visited, seen)
    BY <2>1, <2>2, Zenon
  <2>4. ASSUME NEW k \in DOMAIN seen
        PROVE  seen[k] \in tree.stored
    BY <1>AllPassedOn, <2>2, <2>3, <1>SeenIsStored, Zenon
  <2>5. ASSUME NEW r \in tree.stored
        PROVE  PassedOn(seen, r)
    BY <1>AllPassedOn, <2>2, <2>3, <1>SeenIsStored, Zenon
  <2> QED
    BY <2>2, <2>4, <2>5, Zenon DEF PassedOn

\* resolve_snapshot_xid returns.
<1>ResolveOK.
  ASSUME WalkInv, ResolveName
  PROVE  WalkInv'
  <2> DEFINE hits == {k \in DOMAIN seen : NameMatches(seen[k])}
  <2>1. /\ WalkOver /\ asked # NoName
        /\ (hits = {} /\ Return(<< >>)) \/ \E k \in hits : Return(<<seen[k]>>)
    BY <1>ResolveOK, Zenon DEF ResolveName
  <2>2. seen \in Seq(Rec)
    BY <1>ResolveOK DEF WalkInv, WalkTyped
  <2>3. PICK records \in Seq(Rec) : /\ Return(records)
                                    /\ (hits = {} /\ records = << >>) \/ \E k \in hits : records = <<seen[k]>>
    <3>1. CASE hits = {} /\ Return(<< >>)
      <4>1. << >> \in Seq(Rec)
        OBVIOUS
      <4> QED
        BY <3>1, <4>1, Zenon
    <3>2. CASE \E k \in hits : Return(<<seen[k]>>)
      <4>1. PICK k \in hits : Return(<<seen[k]>>)
        BY <3>2, Zenon
      <4>2. k \in DOMAIN seen /\ seen[k] \in Rec
        BY <2>2
      <4>3. <<seen[k]>> \in Seq(Rec)
        BY <4>2
      <4> QED
        BY <4>1, <4>3, Zenon
    <3> QED
      BY <2>1, <3>1, <3>2, Zenon
  <2>4. walk' = "done" /\ result' = records /\ tree' = tree /\ asked' = asked
    BY <2>3 DEF Return
  <2>5. ListsEverySnapshot'
    BY <2>1, <2>4 DEF ListsEverySnapshot
  <2>6. ASSUME WellFormed(tree)
        PROVE  LET named == {r \in tree.stored : r.type = "SnapName" /\ r.name = asked}
               IN  /\ records = << >> <=> named = {}
                   /\ records # << >> => records[1] \in named
    <3> DEFINE named == {r \in tree.stored : r.type = "SnapName" /\ r.name = asked}
    <3>1. /\ \A k \in DOMAIN seen : seen[k] \in tree.stored
          /\ \A r \in tree.stored : \E k \in DOMAIN seen : seen[k] = r
      BY <1>ResolveOK, <2>1, <2>6, <1>AllPassedOn, Zenon
    <3>2. \A k \in hits : seen[k] \in named
      BY <3>1 DEF NameMatches
    <3>3. \A r \in named : \E k \in hits : seen[k] = r
      BY <3>1 DEF NameMatches
    <3> HIDE DEF hits, named
    <3> DEFINE Resolved == (records = << >> <=> named = {}) /\ (records # << >> => records[1] \in named)
    <3>4. ASSUME hits = {}, records = << >>
          PROVE  Resolved
      BY <3>3, <3>4, Zenon
    <3>5. ASSUME \E k \in hits : records = <<seen[k]>>
          PROVE  Resolved
      <4>1. PICK k \in hits : records = <<seen[k]>>
        BY <3>5, Zenon
      <4>2. records # << >> /\ records[1] = seen[k]
        BY <4>1
      <4> QED
        BY <3>2, <4>1, <4>2, Zenon
    <3>6. Resolved
      BY <2>3, <3>4, <3>5, Zenon DEF hits
    <3> QED
      BY <3>6 DEF named
  <2>7. NameResolves'
    BY <2>4, <2>6 DEF NameResolves
  <2> QED
    BY <1>ResolveOK, <2>1, <2>3, <2>5, <2>7, <1>ReturnOK, Zenon

\* The records a listing is made of are counted by the visitor's positions.
<1>MetadataFinite.
  ASSUME NEW s \in Seq(Rec)
  PROVE  /\ IsFiniteSet(MetadataIn(s)) /\ Cardinality(MetadataIn(s)) \in Nat
         /\ \A k \in MetadataIn(s) : k \in DOMAIN s /\ k \in Nat /\ s[k].xid \in Nat /\ IsMetadata(s[k])
  <2>1. DOMAIN s = 1 .. Len(s) /\ Len(s) \in Nat
    OBVIOUS
  <2>2. IsFiniteSet(DOMAIN s)
    BY <2>1, FS_Interval
  <2>3. MetadataIn(s) \in SUBSET DOMAIN s
    BY DEF MetadataIn
  <2>4. \A k \in DOMAIN s : s[k] \in Rec /\ k \in Nat
    BY <2>1
  <2>5. \A r \in Rec : r.xid \in Nat
    BY DEF Rec
  <2>6. \A k \in MetadataIn(s) : IsMetadata(s[k])
    BY DEF MetadataIn
  <2> QED
    BY <2>2, <2>3, <2>4, <2>5, <2>6, FS_Subset, FS_CardinalityType, Zenon

\* The order of a listing is a strict total order.
<1>ListingOrder.
  ASSUME NEW s \in Seq(Rec), NEW i \in MetadataIn(s), NEW j \in MetadataIn(s), NEW k \in MetadataIn(s)
  PROVE  /\ ~Precedes(s, i, i)
         /\ Precedes(s, i, j) /\ Precedes(s, j, k) => Precedes(s, i, k)
         /\ Precedes(s, i, j) \/ Precedes(s, j, i) \/ i = j
  <2>1. /\ i \in Nat /\ j \in Nat /\ k \in Nat
        /\ s[i].xid \in Nat /\ s[j].xid \in Nat /\ s[k].xid \in Nat
    BY <1>MetadataFinite
  <2> QED
    BY <1>ListingOrder, <2>1 DEF Precedes

\* What comes earlier has fewer records before it.
<1>RankAscends.
  ASSUME NEW s \in Seq(Rec), NEW j \in MetadataIn(s), NEW k \in MetadataIn(s), Precedes(s, j, k)
  PROVE  Cardinality(Before(s, j)) < Cardinality(Before(s, k))
  <2>1. Before(s, j) \in SUBSET Before(s, k)
    BY <1>RankAscends, <1>ListingOrder, Zenon DEF Before
  <2>2. j \in Before(s, k) /\ j \notin Before(s, j)
    BY <1>RankAscends, <1>ListingOrder, Zenon DEF Before
  <2>3. \A x : IsFiniteSet(Before(s, x)) /\ Cardinality(Before(s, x)) \in Nat
    <3>1. \A x : Before(s, x) \in SUBSET MetadataIn(s)
      BY DEF Before
    <3> QED
      BY <3>1, <1>MetadataFinite, FS_Subset, FS_CardinalityType, Zenon
  <2>4. /\ Cardinality(Before(s, j)) <= Cardinality(Before(s, k))
        /\ Cardinality(Before(s, k)) = Cardinality(Before(s, j)) => Before(s, k) = Before(s, j)
    BY <2>1, <2>3, FS_Subset, Zenon
  <2>5. Before(s, k) # Before(s, j)
    BY <2>2
  <2> QED
    BY <2>3, <2>4, <2>5

\* Every place of a listing is taken by exactly one record.
<1>EveryRankTaken.
  ASSUME NEW s \in Seq(Rec)
  PROVE  /\ \A k \in MetadataIn(s) : Cardinality(Before(s, k)) + 1 \in 1 .. Cardinality(MetadataIn(s))
         /\ \A n \in 1 .. Cardinality(MetadataIn(s)) : \E k \in MetadataIn(s) : Cardinality(Before(s, k)) = n - 1
  <2> DEFINE M == MetadataIn(s)
             N == Cardinality(M)
             f == [k \in M |-> Cardinality(Before(s, k)) + 1]
  <2>1. IsFiniteSet(M) /\ N \in Nat
    BY <1>MetadataFinite
  <2>2. \A k \in M : Cardinality(Before(s, k)) \in Nat /\ Cardinality(Before(s, k)) < N
    <3> SUFFICES ASSUME NEW k \in M
                 PROVE  Cardinality(Before(s, k)) \in Nat /\ Cardinality(Before(s, k)) < N
      OBVIOUS
    <3>1. Before(s, k) \in SUBSET M /\ k \notin Before(s, k)
      BY <1>ListingOrder DEF Before
    <3>2. IsFiniteSet(Before(s, k)) /\ Cardinality(Before(s, k)) \in Nat
      BY <2>1, <3>1, FS_Subset, FS_CardinalityType, Zenon
    <3>3. Cardinality(Before(s, k)) <= N /\ (N = Cardinality(Before(s, k)) => M = Before(s, k))
      BY <2>1, <3>1, FS_Subset, Zenon
    <3> QED
      BY <2>1, <3>1, <3>2, <3>3
  <2> HIDE DEF N
  <2>3. f \in [M -> 1 .. N]
    BY <2>1, <2>2
  <2>4. \A j, k \in M : f[j] = f[k] => j = k
    <3> SUFFICES ASSUME NEW j \in M, NEW k \in M, f[j] = f[k], j # k
                 PROVE  FALSE
      OBVIOUS
    <3>1. Cardinality(Before(s, j)) = Cardinality(Before(s, k))
      BY <2>2
    <3>2. Precedes(s, j, k) \/ Precedes(s, k, j)
      BY <1>ListingOrder, Zenon
    <3>3. ~(Cardinality(Before(s, j)) < Cardinality(Before(s, k))) /\ ~(Cardinality(Before(s, k)) < Cardinality(Before(s, j)))
      BY <2>2, <3>1
    <3> QED
      BY <3>2, <3>3, <1>RankAscends, Zenon
  <2> HIDE DEF f
  <2>5. f \in Injection(M, 1 .. N)
    BY <2>3, <2>4 DEF Injection, IsInjective
  <2>6. IsFiniteSet(1 .. N) /\ Cardinality(1 .. N) = N
    BY <2>1, FS_Interval
  <2>7. f \in Surjection(M, 1 .. N)
    BY <2>5, <2>6, FS_Injection, Zenon DEF N
  <2>8. \A n \in 1 .. N : \E k \in M : f[k] = n
    BY <2>7 DEF Surjection
  <2>9. \A n \in 1 .. N : \E k \in M : Cardinality(Before(s, k)) = n - 1
    BY <2>2, <2>8 DEF f
  <2> QED
    BY <2>2, <2>1, <2>9 DEF N

\* A listing holds the metadata that was visited, nothing else, and in xid order
\* where no two records have the same xid.
<1>ListingIs.
  ASSUME NEW s \in Seq(Rec)
  PROVE  /\ Listed(s) \in Seq(Rec)
         /\ \A n \in DOMAIN Listed(s) : \E k \in MetadataIn(s) : Listed(s)[n] = s[k]
         /\ \A k \in MetadataIn(s) : \E n \in DOMAIN Listed(s) : Listed(s)[n] = s[k]
         /\ (\A j, k \in MetadataIn(s) : s[j].xid = s[k].xid => j = k) =>
              \A m, n \in DOMAIN Listed(s) : m < n => Listed(s)[m].xid < Listed(s)[n].xid
  <2> DEFINE M == MetadataIn(s)
             N == Cardinality(M)
             C(n) == CHOOSE k \in M : Cardinality(Before(s, k)) = n - 1
             L == Listed(s)
  <2>1. N \in Nat
    BY <1>MetadataFinite
  <2>2. DOMAIN L = 1 .. N /\ \A n \in 1 .. N : L[n] = s[C(n)]
    BY DEF Listed
  <2>3. \A n \in 1 .. N : C(n) \in M /\ Cardinality(Before(s, C(n))) = n - 1
    BY <1>EveryRankTaken, Zenon
  <2>4. L = [n \in 1 .. N |-> s[C(n)]]
    BY DEF Listed
  <2> HIDE DEF C, L, N
  <2>5. \A k \in M : s[k] \in Rec
    BY DEF MetadataIn
  <2>6. L \in Seq(Rec)
    <3>1. \A n \in 1 .. N : s[C(n)] \in Rec
      BY <2>3, <2>5
    <3> QED
      BY <2>1, <2>4, <3>1
  <2>7. \A k \in M : \E n \in 1 .. N : L[n] = s[k]
    <3> SUFFICES ASSUME NEW k \in M
                 PROVE  \E n \in 1 .. N : L[n] = s[k]
      OBVIOUS
    <3> DEFINE n == Cardinality(Before(s, k)) + 1
    <3>1. n \in 1 .. N
      BY <1>EveryRankTaken DEF N
    <3>2. Cardinality(Before(s, k)) \in Nat
      <4>1. Before(s, k) \in SUBSET M
        BY DEF Before
      <4> QED
        BY <4>1, <1>MetadataFinite, FS_Subset, FS_CardinalityType, Zenon
    <3>3. Cardinality(Before(s, C(n))) = Cardinality(Before(s, k)) /\ C(n) \in M
      BY <2>3, <3>1, <3>2
    <3>4. ~(Cardinality(Before(s, C(n))) < Cardinality(Before(s, k))) /\ ~(Cardinality(Before(s, k)) < Cardinality(Before(s, C(n))))
      BY <3>2, <3>3
    <3>5. C(n) = k
      BY <3>3, <3>4, <1>ListingOrder, <1>RankAscends, Zenon
    <3> QED
      BY <2>2, <3>1, <3>5
  <2>8. ASSUME \A j, k \in M : s[j].xid = s[k].xid => j = k,
               NEW m \in 1 .. N, NEW n \in 1 .. N, m < n
        PROVE  L[m].xid < L[n].xid
    <3>1. C(m) \in M /\ C(n) \in M /\ Cardinality(Before(s, C(m))) = m - 1 /\ Cardinality(Before(s, C(n))) = n - 1
      BY <2>3
    <3>2. ~(Cardinality(Before(s, C(n))) < Cardinality(Before(s, C(m)))) /\ C(m) # C(n)
      BY <2>1, <2>8, <3>1
    <3>3. Precedes(s, C(m), C(n))
      BY <3>1, <3>2, <1>ListingOrder, <1>RankAscends, Zenon
    <3>4. s[C(m)].xid \in Nat /\ s[C(n)].xid \in Nat /\ s[C(m)].xid # s[C(n)].xid
      BY <2>8, <3>1, <3>2, <1>MetadataFinite, Zenon
    <3> QED
      BY <2>2, <3>3, <3>4 DEF Precedes
  <2>9. \A n \in DOMAIN L : \E k \in M : L[n] = s[k]
    BY <2>2, <2>3, Zenon
  <2> QED
    BY <2>2, <2>6, <2>7, <2>8, <2>9 DEF L

\* list_snapshots returns.
<1>ListOK.
  ASSUME WalkInv, ListSnapshots
  PROVE  WalkInv'
  <2>1. WalkOver /\ asked = NoName /\ Return(Listed(seen))
    BY <1>ListOK DEF ListSnapshots
  <2>2. walk' = "done" /\ result' = Listed(seen) /\ tree' = tree /\ asked' = asked
    BY <2>1 DEF Return
  <2>3. seen \in Seq(Rec)
    BY <1>ListOK DEF WalkInv, WalkTyped
  <2>4. Listed(seen) \in Seq(Rec)
    BY <2>3, <1>ListingIs
  <2>5. NameResolves'
    BY <2>1, <2>2 DEF NameResolves
  <2>6. ASSUME WellFormed(tree)
        PROVE  /\ {Listed(seen)[k] : k \in DOMAIN Listed(seen)} = {r \in tree.stored : r.type = "SnapMetadata"}
               /\ \A j, k \in DOMAIN Listed(seen) : j < k => Listed(seen)[j].xid < Listed(seen)[k].xid
    <3>1. /\ \A j, k \in MetadataIn(seen) : seen[j].xid = seen[k].xid => j = k
          /\ \A k \in DOMAIN seen : seen[k] \in tree.stored
          /\ \A r \in tree.stored : \E k \in DOMAIN seen : seen[k] = r
      BY <1>ListOK, <2>1, <2>6, <1>AllPassedOn, Zenon DEF XidsDiffer
    <3>2. \A j, k \in DOMAIN Listed(seen) : j < k => Listed(seen)[j].xid < Listed(seen)[k].xid
      BY <2>3, <3>1, <1>ListingIs, Zenon
    <3>3. \A n \in DOMAIN Listed(seen) : Listed(seen)[n] \in tree.stored /\ Listed(seen)[n].type = "SnapMetadata"
      <4>1. \A n \in DOMAIN Listed(seen) : \E k \in MetadataIn(seen) : Listed(seen)[n] = seen[k]
        BY <2>3, <1>ListingIs, Zenon
      <4>2. \A k \in MetadataIn(seen) : seen[k] \in tree.stored /\ seen[k].type = "SnapMetadata"
        BY <3>1 DEF MetadataIn, IsMetadata
      <4> QED
        BY <4>1, <4>2, Zenon
    <3>4. ASSUME NEW r \in tree.stored, r.type = "SnapMetadata"
          PROVE  \E n \in DOMAIN Listed(seen) : Listed(seen)[n] = r
      <4>1. PICK k \in DOMAIN seen : seen[k] = r
        BY <3>1, Zenon
      <4>2. k \in MetadataIn(seen)
        BY <3>4, <4>1 DEF MetadataIn, IsMetadata
      <4> QED
        BY <2>3, <4>1, <4>2, <1>ListingIs, Zenon
    <3>5. {Listed(seen)[k] : k \in DOMAIN Listed(seen)} = {r \in tree.stored : r.type = "SnapMetadata"}
      <4> DEFINE res == Listed(seen)
      <4> HIDE DEF res
      <4>1. /\ \A n \in DOMAIN res : res[n] \in tree.stored /\ res[n].type = "SnapMetadata"
            /\ \A r \in tree.stored : r.type = "SnapMetadata" => \E n \in DOMAIN res : res[n] = r
        BY <3>3, <3>4, Zenon DEF res
      <4>2. {res[k] : k \in DOMAIN res} = {r \in tree.stored : r.type = "SnapMetadata"}
        BY <4>1
      <4> QED
        BY <4>2 DEF res
    <3> QED
      BY <3>2, <3>5, Zenon
  <2>7. ListsEverySnapshot'
    BY <2>2, <2>6 DEF ListsEverySnapshot
  <2> QED
    BY <1>ListOK, <2>1, <2>4, <2>5, <2>7, <1>ReturnOK, Zenon

<1> QED
  BY <1>BeginOK, <1>RefuseOK, <1>VisitLeafOK, <1>EnterIndexOK, <1>TurnOK, <1>ListOK, <1>ResolveOK, Zenon DEF WalkNext

\* An operation is called.
LEMMA CallOK ==
  ASSUME NEW v, IsTree(v), NEW nm \in Names \cup {NoName}, Call(v, nm)
  PROVE  WalkInv'
<1>1. /\ walk' = "start" /\ tree' = v /\ asked' = nm /\ node' = 0 /\ stack' = << >> /\ visited' = {}
      /\ seen' = << >> /\ result' = << >>
  BY DEF Call
<1>2. WalkTyped'
  BY <1>1 DEF WalkTyped
<1>3. FromLeaves(tree', visited', seen') /\ XidsDiffer(seen')
  BY <1>1 DEF FromLeaves, XidsDiffer, MetadataIn
<1>4. ListsEverySnapshot' /\ NameResolves' /\ SoundTreeIsRead'
  BY <1>1 DEF ListsEverySnapshot, NameResolves, SoundTreeIsRead
<1>5. walk' # "enter" /\ walk' # "loop" /\ walk' \notin {"enter", "loop"}
  BY <1>1
<1> QED
  BY <1>1, <1>2, <1>3, <1>4, <1>5, Zenon DEF WalkInv

\* Its answer is taken.
LEMMA TakenOK ==
  ASSUME Taken
  PROVE  WalkInv'
<1>1. /\ walk' = "idle" /\ asked' = NoName /\ node' = 0 /\ stack' = << >> /\ visited' = {}
      /\ seen' = << >> /\ result' = << >>
  BY DEF Taken
<1>2. WalkTyped'
  BY <1>1 DEF WalkTyped
<1>3. FromLeaves(tree', visited', seen') /\ XidsDiffer(seen')
  BY <1>1 DEF FromLeaves, XidsDiffer, MetadataIn
<1>4. ListsEverySnapshot' /\ NameResolves' /\ SoundTreeIsRead'
  BY <1>1 DEF ListsEverySnapshot, NameResolves, SoundTreeIsRead
<1>5. walk' # "enter" /\ walk' # "loop" /\ walk' \notin {"enter", "loop"}
  BY <1>1
<1> QED
  BY <1>1, <1>2, <1>3, <1>4, <1>5, Zenon DEF WalkInv

\* No walk goes on at the beginning, or that of a found tree has just been called.
LEMMA WalkInit ==
  ASSUME Idle \/ TreeInit
  PROVE  WalkInv
<1>1. /\ walk \in {"idle", "start"} /\ node = 0 /\ stack = << >> /\ visited = {}
      /\ seen = << >> /\ result = << >> /\ asked \in Names \cup {NoName} /\ (walk # "idle" => tree \in FoundTrees)
  BY DEF Idle, TreeInit, Cleared
<1>2. WalkTyped
  BY <1>1, SnapTreeAssumption DEF WalkTyped
<1>3. FromLeaves(tree, visited, seen) /\ XidsDiffer(seen)
  BY <1>1 DEF FromLeaves, XidsDiffer, MetadataIn
<1>4. ListsEverySnapshot /\ NameResolves /\ SoundTreeIsRead
  BY <1>1 DEF ListsEverySnapshot, NameResolves, SoundTreeIsRead
<1>5. walk # "enter" /\ walk # "loop" /\ walk \notin {"enter", "loop"}
  BY <1>1
<1> QED
  BY <1>1, <1>2, <1>3, <1>4, <1>5, Zenon DEF WalkInv

\* A step that leaves the walk alone.
LEMMA WalkKept ==
  ASSUME WalkInv, UNCHANGED walkvars
  PROVE  WalkInv'
<1>1. /\ tree' = tree /\ asked' = asked /\ walk' = walk /\ node' = node /\ stack' = stack /\ visited' = visited
      /\ seen' = seen /\ result' = result /\ walk_error' = walk_error
  BY DEF walkvars
<1>2. WalkTyped'
  BY <1>1 DEF WalkInv, WalkTyped
<1>3. ListsEverySnapshot' /\ NameResolves' /\ SoundTreeIsRead'
  BY <1>1 DEF WalkInv, ListsEverySnapshot, NameResolves, SoundTreeIsRead
<1> QED
  BY <1>1, <1>2, <1>3 DEF WalkInv
=============================================================================
