---------------------------- MODULE FsTreeProofs ----------------------------
(***************************************************************************)
(* For every volume, request and depth cap: the pruned walk of an ordered  *)
(* file-system tree misses no record, lists directories in order, resolves *)
(* paths and refuses only what is absent; a node it cannot use denies only *)
(* the objects the node holds or is next to.                               *)
(*                                                                         *)
(* The argument is about what the walk has ahead of it: the subtree it is  *)
(* about to enter, and in each pending call the children from the next one *)
(* on.  What it has seen is below everything ahead, and a record of the    *)
(* object it is keyed to is seen or ahead.                                 *)
(***************************************************************************)
EXTENDS FsTree, TLAPS

\* The parts of a volume v, of which the walk knows the nodes and not the contents.
Block(v, o) == v.blocks[v.omap[o].paddr]
Entries(v, o) == Block(v, o).entries
Level(v, o) == Block(v, o).level
Content(v, o) == v.content[o]
All(v) == v.content[v.root_tree_oid]
Frame(v) == [oid : v.oids, next : Nat \ {0}]

\* What a pending call has ahead of it; what the walk has: the subtree S it is about
\* to enter, if any, and the rest of the pending calls.
Left(v, frame, r) ==
  \E k \in DOMAIN Entries(v, frame.oid) : k >= frame.next /\ r \in Content(v, Entries(v, frame.oid)[k].ref)

Ahead(v, S, st, r) == r \in S \/ \E f \in DOMAIN st : Left(v, st[f], r)

Below(v, S, frame) == \A r \in S, q \in All(v) : Left(v, frame, q) => KeyLess(r, q)

\* The pending calls: one level down each, none below the cap, and everything below
\* one of them before what the calls above it have ahead.
FramesOK(v, st, vis) ==
  /\ \A f \in DOMAIN st :
       /\ st[f].oid \in vis
       /\ Level(v, st[f].oid) > 0 /\ f + Level(v, st[f].oid) <= MaxFstreeDepth
       /\ Content(v, st[f].oid) \subseteq All(v)
  /\ \A f, g \in DOMAIN st : g < f =>
       /\ Level(v, st[f].oid) < Level(v, st[g].oid)
       /\ Below(v, Content(v, st[f].oid), st[g])

\* A node that is about to be entered.
NodeOK(v, o, st, vis) ==
  /\ o \in v.oids /\ Content(v, o) \subseteq All(v)
  /\ Len(st) + Level(v, o) < MaxFstreeDepth
  /\ vis # {} => Content(v, o) # {}
  /\ \A f \in DOMAIN st : Level(v, o) < Level(v, st[f].oid) /\ Below(v, Content(v, o), st[f])

\* What is behind the walk is below what is ahead: the records sn it has seen, and
\* those below the nodes it has left.
Behind(v, S, st, vis, sn) ==
  /\ \A k \in DOMAIN sn : sn[k] \in All(v) /\ \A r \in All(v) : Ahead(v, S, st, r) => KeyLess(sn[k], r)
  /\ \A j, k \in DOMAIN sn : j < k => KeyLess(sn[j], sn[k])
  /\ \A o \in vis :
       \/ \E f \in DOMAIN st : st[f].oid = o
       \/ \A q \in Content(v, o), r \in All(v) : Ahead(v, S, st, r) => KeyLess(q, r)

\* No record of object c is lost.
Kept(v, S, st, sn, c) ==
  \A r \in All(v) : r.oid = c => Ahead(v, S, st, r) \/ \E k \in DOMAIN sn : sn[k] = r

WalkOK(v, S, st, vis, sn, c) ==
  FramesOK(v, st, vis) /\ Behind(v, S, st, vis, sn) /\ Kept(v, S, st, sn, c)

WalkInv ==
  /\ pc = "start" => stack = << >>
  /\ Ordered(vol) /\ pc = "enter" =>
       NodeOK(vol, node, stack, visited) /\ WalkOK(vol, Content(vol, node), stack, visited, seen, current)
  /\ Ordered(vol) /\ pc = "loop" => WalkOK(vol, {}, stack, visited, seen, current)

\* EntryNamed and Along, of a volume v and a path; n names of it lead to object c.
Named(v, o, name) ==
  {r \in All(v) : /\ r.oid = o /\ r.type = "drec" /\ r.name = name
                  /\ \A q \in All(v) : q.oid = o /\ q.type = "drec" /\ q.name = name => ~KeyLess(q, r)}

Leads(v, path, objects, n) ==
  /\ objects[0] = RootDir
  /\ \A j \in 1 .. n : \E r \in Named(v, objects[j - 1], path[j]) : objects[j] = r.ref

Ways(v, n) == [0 .. n -> {RootDir} \cup {r.ref : r \in All(v)}]

LeadsTo(v, path, n, c) == \E objects \in Ways(v, n) : Leads(v, path, objects, n) /\ objects[n] = c

\* The walk has come along the path to where it is.
PathInv == Ordered(vol) /\ req.op = "open_path" => LeadsTo(vol, req.path, taken, current)

\* PathResolution, in these terms.
Resolution ==
  Ordered(vol) /\ pc = "done" /\ req.op = "open_path" =>
    \E c : /\ LeadsTo(vol, req.path, Len(req.path), c)
           /\ result[1] \in All(vol) /\ result[1].oid = c /\ result[1].type = "inode"

\* Beside, of a volume v and an object c.
Near(v, o, c) ==
  \A r \in Content(v, o), q \in All(v) \ Content(v, o) :
    ~(KeyLess(r, q) /\ q.oid < c) /\ ~(KeyLess(q, r) /\ q.oid > c)

\* The walk is nowhere but near the object it is keyed to.
LocalInv ==
  /\ Ordered(vol) /\ pc = "enter" => Near(vol, node, current)
  /\ Ordered(vol) /\ pc \in {"enter", "loop"} => \A f \in DOMAIN stack : Near(vol, stack[f].oid, current)
  /\ FaultsStayLocal

\* Only open_path goes from object to object.
Keyed == req.op # "open_path" => current = req.oid

\* TypeOK but for result.
Typed ==
  /\ IsVolume(vol) /\ req \in Request
  /\ pc \in {"start", "enter", "loop", "done", "failed"}
  /\ current \in Nat /\ node \in Nat
  /\ taken \in 0 .. Len(req.path)
  /\ stack \in Seq(Frame(vol)) /\ Len(stack) <= MaxFstreeDepth
  /\ \A f \in DOMAIN stack : vol.omap[stack[f].oid].paddr \in vol.paddrs
  /\ visited \subseteq vol.oids
  /\ seen \in Seq(Rec)

IInv ==
  /\ Typed /\ WalkInv /\ PathInv /\ Resolution /\ RefusesOnlyAbsent /\ LocalInv
  /\ Keyed /\ ListingInOrder

----------------------------------------------------------------------------
\* The order of the records is strict and total on keys.
LEMMA KeyOrder ==
  ASSUME NEW a \in Rec, NEW b \in Rec, NEW c \in Rec
  PROVE  /\ ~KeyLess(a, a)
         /\ KeyLess(a, b) => ~KeyLess(b, a)
         /\ KeyLess(a, b) /\ KeyLess(b, c) => KeyLess(a, c)
         /\ KeyLess(a, b) /\ ~KeyLess(c, b) => KeyLess(a, c)
<1>1. \A r \in Rec : r.oid \in Nat /\ r.sub \in Nat
  BY DEF Rec
<1> QED
  BY <1>1 DEF KeyLess

\* It is first of all the order of the object ids.
LEMMA OidOrder ==
  ASSUME NEW a \in Rec, NEW b \in Rec
  PROVE  /\ a.oid \in Nat /\ b.oid \in Nat
         /\ KeyLess(a, b) => a.oid <= b.oid
         /\ ~KeyLess(a, b) => b.oid <= a.oid
<1>1. \A r \in Rec : r.oid \in Nat /\ r.sub \in Nat
  BY DEF Rec
<1> QED
  BY <1>1 DEF KeyLess

\* The parts of a node that can be read.
LEMMA NodeTypes ==
  ASSUME NEW v, IsVolume(v), NEW o \in v.oids
  PROVE  /\ Content(v, o) \subseteq Rec
         /\ v.omap[o].paddr \in v.paddrs =>
              /\ Block(v, o) \in Node /\ Level(v, o) \in Nat
              /\ Entries(v, o) \in Seq(Rec) /\ Len(Entries(v, o)) \in Nat
              /\ DOMAIN Entries(v, o) = 1 .. Len(Entries(v, o))
              /\ \A k \in DOMAIN Entries(v, o) : Entries(v, o)[k] \in Rec
<1>1. Content(v, o) \subseteq Rec
  BY DEF IsVolume, Content
<1>2. ASSUME v.omap[o].paddr \in v.paddrs PROVE Block(v, o) \in Node
  BY <1>2 DEF IsVolume, Block
<1>3. ASSUME v.omap[o].paddr \in v.paddrs PROVE Level(v, o) \in Nat /\ Entries(v, o) \in Seq(Rec)
  BY <1>2, <1>3 DEF Node, Level, Entries
<1> QED
  BY <1>1, <1>2, <1>3

\* What an ordered tree says of a node.
LEMMA OrderedTree ==
  ASSUME NEW v, IsVolume(v), Ordered(v), NEW o \in v.oids
  PROVE  /\ v.omap[o].paddr \in v.paddrs /\ Level(v, o) < MaxFstreeDepth
         /\ is_leaf(Block(v, o)) <=> Level(v, o) = 0
         /\ \A j, k \in DOMAIN Entries(v, o) : j < k => KeyLess(Entries(v, o)[j], Entries(v, o)[k])
         /\ Level(v, o) = 0 => Content(v, o) = {Entries(v, o)[k] : k \in DOMAIN Entries(v, o)}
         /\ Level(v, o) > 0 =>
              /\ Content(v, o) = UNION {Content(v, Entries(v, o)[k].ref) : k \in DOMAIN Entries(v, o)}
              /\ \A k \in DOMAIN Entries(v, o) :
                   /\ Entries(v, o)[k].ref \in v.oids /\ Content(v, Entries(v, o)[k].ref) # {}
                   /\ Level(v, Entries(v, o)[k].ref) = Level(v, o) - 1
                   /\ \A r \in Content(v, Entries(v, o)[k].ref) :
                        /\ ~KeyLess(r, Entries(v, o)[k])
                        /\ k < Len(Entries(v, o)) => KeyLess(r, Entries(v, o)[k + 1])
<1>1. OrderedNode(v, o)
  BY DEF Ordered
<1> QED
  BY <1>1, Zenon DEF OrderedNode, Block, Entries, Content, Level, is_leaf

\* The children of a node hold its records in order.
LEMMA ChildrenAscend ==
  ASSUME NEW v, IsVolume(v), Ordered(v), NEW o \in v.oids, Level(v, o) > 0,
         NEW j \in DOMAIN Entries(v, o), NEW k \in DOMAIN Entries(v, o), j < k,
         NEW r \in Content(v, Entries(v, o)[j].ref), NEW q \in Content(v, Entries(v, o)[k].ref)
  PROVE  KeyLess(r, q)
<1> DEFINE s == Entries(v, o)
<1>1. /\ \A n \in DOMAIN s : s[n] \in Rec
      /\ DOMAIN s = 1 .. Len(s) /\ Len(s) \in Nat
  BY OrderedTree, NodeTypes
<1>2. s[j].ref \in v.oids /\ s[k].ref \in v.oids
  BY OrderedTree
<1>3. r \in Rec /\ q \in Rec
  BY <1>2, NodeTypes
<1>4. j + 1 \in DOMAIN s /\ j < Len(s) /\ (j + 1 = k \/ j + 1 < k)
  BY <1>1
<1>5. KeyLess(r, s[j + 1]) /\ ~KeyLess(q, s[k])
  BY <1>4, OrderedTree, Zenon
<1>6. j + 1 < k => KeyLess(s[j + 1], s[k])
  BY <1>4, OrderedTree
<1>7. s[j + 1] \in Rec /\ s[k] \in Rec
  BY <1>1, <1>4
<1> HIDE DEF s
<1>8. KeyLess(r, s[k])
  BY ONLY <1>3, <1>4, <1>5, <1>6, <1>7, KeyOrder
<1> QED
  BY ONLY <1>3, <1>5, <1>7, <1>8, KeyOrder

\* The child an entry of an index node leads to.
LEMMA ChildOf ==
  ASSUME NEW v, IsVolume(v), Ordered(v), NEW o \in v.oids, Level(v, o) > 0,
         NEW k \in DOMAIN Entries(v, o)
  PROVE  /\ Entries(v, o)[k].ref \in v.oids /\ Content(v, Entries(v, o)[k].ref) # {}
         /\ Content(v, Entries(v, o)[k].ref) \subseteq Content(v, o)
         /\ Level(v, Entries(v, o)[k].ref) = Level(v, o) - 1 /\ Level(v, o) \in Nat
         /\ DOMAIN Entries(v, o) = 1 .. Len(Entries(v, o)) /\ Len(Entries(v, o)) \in Nat
<1>1. /\ Entries(v, o)[k].ref \in v.oids /\ Content(v, Entries(v, o)[k].ref) # {}
      /\ Level(v, Entries(v, o)[k].ref) = Level(v, o) - 1
      /\ Content(v, Entries(v, o)[k].ref) \subseteq Content(v, o)
  BY OrderedTree
<1>2. v.omap[o].paddr \in v.paddrs
  BY OrderedTree
<1>3. /\ Level(v, o) \in Nat
      /\ DOMAIN Entries(v, o) = 1 .. Len(Entries(v, o)) /\ Len(Entries(v, o)) \in Nat
  BY <1>2, NodeTypes
<1> QED
  BY <1>1, <1>3

\* A step leaves the volume and the request alone.
LEMMA Inputs == [Next]_vars => vol' = vol /\ req' = req
  BY DEF Next, vars, BeginWalk, TooDeep, Revisit, ResolveFails, ReadFails, BadChecksum, VisitLeaf, EnterIndex,
         Turn, ListDir, LookupChild, NextComponent, LoadInode, Return, Fail

\* The state stays well typed.
LEMMA TypedStep ==
  ASSUME Typed, [Next]_vars
  PROVE  Typed'
<1>1. vol' = vol /\ req' = req
  BY Inputs
<1>2. ASSUME NEW kind, Fail(kind) PROVE Typed'
  BY <1>1, <1>2 DEF Fail, Typed
<1>3. ASSUME NEW records, Return(records) PROVE Typed'
  BY <1>1, <1>3 DEF Return, Typed
<1>4. CASE BeginWalk
  <2>1. vol.root_tree_oid \in Nat
    BY DEF Typed, IsVolume
  <2>2. CASE Fail("Io") \/ Fail(vol.omap_header)
    BY <1>2, <2>2
  <2>3. CASE ~(Fail("Io") \/ Fail(vol.omap_header))
    <3>1. /\ pc' = "enter" /\ node' = vol.root_tree_oid /\ visited' = {} /\ seen' = << >>
          /\ UNCHANGED <<current, taken, stack>>
      BY <1>4, <2>3 DEF BeginWalk
    <3> QED
      BY <1>1, <2>1, <3>1 DEF Typed
  <2> QED
    BY <2>2, <2>3
<1>5. CASE TooDeep \/ Revisit \/ ResolveFails \/ ReadFails \/ BadChecksum
  BY <1>2, <1>5 DEF TooDeep, Revisit, ResolveFails, ReadFails, BadChecksum
<1>6. CASE VisitLeaf
  <2>1. node \in vol.oids /\ vol.omap[node].paddr \in vol.paddrs
    BY <1>6 DEF VisitLeaf, Verified, Readable, Resolved
  <2>2. BlockOf(node).entries \in Seq(Rec)
    BY <2>1, NodeTypes, Zenon DEF Typed, Entries, BlockOf, Block
  <2>3. seen' \in Seq(Rec) /\ visited' \subseteq vol.oids
    BY <1>6, <2>1, <2>2 DEF VisitLeaf, Typed
  <2> QED
    BY <1>1, <1>6, <2>3 DEF VisitLeaf, Typed
<1>7. CASE EnterIndex
  <2>1. node \in vol.oids /\ vol.omap[node].paddr \in vol.paddrs /\ Len(stack) < MaxFstreeDepth
    BY <1>7 DEF EnterIndex, Verified, Readable, Resolved, Fresh, Called
  <2> DEFINE frame == [oid |-> node, next |-> 1]
  <2>2. frame \in Frame(vol) /\ stack \in Seq(Frame(vol)) /\ stack' = Append(stack, frame) /\ frame.oid = node
    BY <1>7, <2>1 DEF EnterIndex, Typed, Frame
  <2>3. \A f \in DOMAIN stack : vol.omap[stack[f].oid].paddr \in vol.paddrs
    BY DEF Typed
  <2> HIDE DEF frame
  <2>4. stack' \in Seq(Frame(vol)) /\ Len(stack') = Len(stack) + 1 /\ Len(stack) \in Nat
        /\ \A f \in DOMAIN stack' : (f \in DOMAIN stack /\ stack'[f] = stack[f]) \/ stack'[f] = frame
    BY <2>2
  <2>5. \A f \in DOMAIN stack' : vol.omap[stack'[f].oid].paddr \in vol.paddrs
    BY <2>1, <2>2, <2>3, <2>4
  <2>6. Len(stack') <= MaxFstreeDepth
    BY <2>1, <2>4, FsTreeAssumption
  <2> QED
    BY <1>1, <1>7, <2>1, <2>4, <2>5, <2>6 DEF EnterIndex, Typed
<1>8. CASE Turn
  <2> DEFINE top == stack[Len(stack)]
             s == BlockOf(top.oid).entries
             frame == [oid |-> top.oid, next |-> top.next + 1]
  <2>1. stack \in Seq(Frame(vol)) /\ stack # << >> /\ Len(stack) \in Nat \ {0} /\ DOMAIN stack = 1 .. Len(stack)
    BY <1>8 DEF Turn, Typed
  <2>2. top \in Frame(vol) /\ vol.omap[top.oid].paddr \in vol.paddrs
    <3>1. Len(stack) \in DOMAIN stack
      BY <2>1
    <3>2. vol.omap[top.oid].paddr \in vol.paddrs
      BY <3>1 DEF Typed
    <3>3. top \in Frame(vol)
      BY <2>1, <3>1
    <3> QED
      BY <3>2, <3>3
  <2>3. s \in Seq(Rec) /\ top.oid \in vol.oids /\ top.next \in Nat \ {0}
    <3>1. top.oid \in vol.oids /\ top.next \in Nat \ {0}
      BY <2>2 DEF Frame
    <3> QED
      BY <2>2, <3>1, NodeTypes, Zenon DEF Typed, Entries, BlockOf, Block
  <2>4. frame \in Frame(vol) /\ frame.oid = top.oid
    BY <2>3 DEF Frame
  <2>5. \/ stack' = [stack EXCEPT ![Len(stack)] = frame]
        \/ stack' = SubSeq(stack, 1, Len(stack) - 1)
    BY <1>8 DEF Turn
  <2>6. node' = node \/ \E k \in 1 .. Len(s) : node' = s[k].ref
    <3>1. node' = node \/ (top.next <= Len(s) /\ node' = s[top.next].ref)
      BY <1>8 DEF Turn
    <3>2. top.next <= Len(s) => top.next \in 1 .. Len(s)
      BY ONLY <2>3
    <3> QED
      BY ONLY <3>1, <3>2
  <2>7. node' \in Nat
    <3>1. \A r \in Rec : r.ref \in Nat
      BY DEF Rec
    <3>2. \A k \in 1 .. Len(s) : s[k] \in Rec
      BY <2>3
    <3> QED
      BY <2>6, <3>1, <3>2 DEF Typed
  <2>8. /\ pc' \in {"enter", "loop"}
        /\ UNCHANGED <<current, taken, visited, seen>>
    BY <1>8 DEF Turn
  <2>9. \A f \in DOMAIN stack : vol.omap[stack[f].oid].paddr \in vol.paddrs
    BY DEF Typed
  <2> HIDE DEF top, s, frame
  <2>10. /\ stack' \in Seq(Frame(vol)) /\ Len(stack') <= Len(stack)
         /\ \A f \in DOMAIN stack' : f \in DOMAIN stack /\ (stack'[f] = stack[f] \/ stack'[f] = frame)
    BY <2>1, <2>4, <2>5
  <2>11. \A f \in DOMAIN stack' : vol.omap[stack'[f].oid].paddr \in vol.paddrs
    BY <2>2, <2>4, <2>9, <2>10
  <2>12. Len(stack') <= MaxFstreeDepth
    BY <2>1, <2>10, FsTreeAssumption DEF Typed
  <2> QED
    BY <1>1, <2>7, <2>8, <2>10, <2>11, <2>12 DEF Typed
<1>9. CASE ListDir \/ LookupChild \/ LoadInode
  BY <1>2, <1>3, <1>9, Zenon DEF ListDir, LookupChild, LoadInode
<1>10. CASE NextComponent
  <2>1. CASE Fail("OmapUnresolved")
    BY <1>2, <2>1
  <2>2. CASE ~Fail("OmapUnresolved")
    <3>1. PICK k \in DOMAIN seen : current' = seen[k].ref
      BY <1>10, <2>2 DEF NextComponent, Wanted, First
    <3>2. current' \in Nat
      <4>1. seen[k] \in Rec
        BY <3>1 DEF Typed
      <4> QED
        BY <3>1, <4>1 DEF Rec
    <3>3. taken' \in 0 .. Len(req.path)
      <4>1. req.path \in Seq(Nat)
        BY DEF Typed, Request
      <4>2. taken' = taken + 1 /\ taken < Len(req.path)
        BY <1>10, <2>2 DEF NextComponent
      <4> QED
        BY <4>1, <4>2 DEF Typed
    <3>4. pc' = "start" /\ UNCHANGED <<node, stack, visited, seen>>
      BY <1>10, <2>2 DEF NextComponent
    <3> QED
      BY <1>1, <3>2, <3>3, <3>4 DEF Typed
  <2> QED
    BY <2>1, <2>2
<1>11. CASE UNCHANGED vars
  BY <1>11 DEF vars, Typed
<1> QED
  BY <1>4, <1>5, <1>6, <1>7, <1>8, <1>9, <1>10, <1>11 DEF Next

----------------------------------------------------------------------------
\* What a pending call has ahead lies below its node.
LEMMA LeftBelow ==
  ASSUME NEW v, IsVolume(v), Ordered(v), NEW frame \in Frame(v), Level(v, frame.oid) > 0,
         NEW r, Left(v, frame, r)
  PROVE  r \in Content(v, frame.oid)
<1>1. frame.oid \in v.oids
  BY DEF Frame
<1>2. Content(v, frame.oid) = UNION {Content(v, Entries(v, frame.oid)[k].ref) : k \in DOMAIN Entries(v, frame.oid)}
  BY <1>1, OrderedTree
<1> QED
  BY <1>2 DEF Left

\* Less ahead keeps everything behind.
LEMMA BehindLess ==
  ASSUME NEW v, NEW S, NEW st, NEW vis, NEW sn, Behind(v, S, st, vis, sn), NEW T, NEW ts,
         \A r : Ahead(v, T, ts, r) => Ahead(v, S, st, r),
         \A f \in DOMAIN st : \E g \in DOMAIN ts : ts[g].oid = st[f].oid
  PROVE  Behind(v, T, ts, vis, sn)
  BY DEF Behind

\* The elements of two sequences put together.
LEMMA Joined ==
  ASSUME NEW R, NEW a \in Seq(R), NEW b \in Seq(R)
  PROVE  /\ DOMAIN (a \o b) = 1 .. (Len(a) + Len(b)) /\ Len(a) \in Nat /\ Len(b) \in Nat
         /\ DOMAIN a = 1 .. Len(a) /\ DOMAIN b = 1 .. Len(b)
         /\ \A k \in 1 .. Len(a) : (a \o b)[k] = a[k]
         /\ \A k \in 1 .. Len(b) : (a \o b)[Len(a) + k] = b[k]
  OBVIOUS

\* At a leaf the walk takes all records there are below it.
LEMMA AtLeaf ==
  ASSUME NEW v, IsVolume(v), Ordered(v), NEW o, NEW st, NEW vis, NEW sn \in Seq(Rec), NEW c,
         NodeOK(v, o, st, vis), WalkOK(v, Content(v, o), st, vis, sn, c), Level(v, o) = 0
  PROVE  WalkOK(v, {}, st, vis \cup {o}, sn \o Entries(v, o), c)
<1> DEFINE s == Entries(v, o)
           N == Len(sn)
           ss == sn \o s
<1>1. o \in v.oids /\ s \in Seq(Rec)
  BY OrderedTree, NodeTypes DEF NodeOK
<1>2. /\ Content(v, o) = {s[k] : k \in DOMAIN s} /\ Content(v, o) \subseteq All(v)
      /\ \A j, k \in DOMAIN s : j < k => KeyLess(s[j], s[k])
  BY <1>1, OrderedTree DEF NodeOK
<1>3. \A r : Ahead(v, {}, st, r) => Ahead(v, Content(v, o), st, r)
  BY DEF Ahead
<1>4. \A q \in Content(v, o), r \in All(v) : Ahead(v, {}, st, r) => KeyLess(q, r)
  BY DEF NodeOK, Below, Ahead
<1> HIDE DEF s
<1>5. /\ DOMAIN ss = 1 .. (N + Len(s)) /\ N \in Nat /\ Len(s) \in Nat
      /\ DOMAIN sn = 1 .. N /\ DOMAIN s = 1 .. Len(s)
      /\ \A k \in 1 .. N : ss[k] = sn[k]
      /\ \A k \in 1 .. Len(s) : ss[N + k] = s[k]
  BY ONLY <1>1, sn \in Seq(Rec), Joined
<1> HIDE DEF ss, N
<1>6. \A k \in DOMAIN ss : k \in DOMAIN sn \/ (k - N \in DOMAIN s /\ ss[k] = s[k - N] /\ N < k)
  <2>1. SUFFICES ASSUME NEW k \in DOMAIN ss, k > N PROVE k - N \in DOMAIN s /\ ss[k] = s[k - N]
    BY ONLY <1>5
  <2>2. k - N \in 1 .. Len(s) /\ N + (k - N) = k
    BY ONLY <1>5, <2>1
  <2> QED
    BY <1>5, <2>2
<1>7. /\ \A k \in DOMAIN sn : sn[k] \in All(v)
      /\ \A k \in DOMAIN sn, r \in All(v) : Ahead(v, Content(v, o), st, r) => KeyLess(sn[k], r)
      /\ \A j, k \in DOMAIN sn : j < k => KeyLess(sn[j], sn[k])
      /\ \A n \in vis :
           \/ \E f \in DOMAIN st : st[f].oid = n
           \/ \A q \in Content(v, n), r \in All(v) : Ahead(v, Content(v, o), st, r) => KeyLess(q, r)
  BY DEF WalkOK, Behind
<1>8. Behind(v, {}, st, vis \cup {o}, ss)
  <2>1. ASSUME NEW k \in DOMAIN ss
        PROVE  ss[k] \in All(v) /\ \A r \in All(v) : Ahead(v, {}, st, r) => KeyLess(ss[k], r)
    <3>1. CASE k \in DOMAIN sn
      BY <1>3, <1>5, <1>7, <3>1
    <3>2. CASE k - N \in DOMAIN s /\ ss[k] = s[k - N]
      BY <1>2, <1>4, <3>2
    <3> QED
      BY <1>6, <3>1, <3>2
  <2>2. ASSUME NEW j \in DOMAIN ss, NEW k \in DOMAIN ss, j < k
        PROVE  KeyLess(ss[j], ss[k])
    <3>1. CASE k \in DOMAIN sn
      <4>1. j \in DOMAIN sn
        BY ONLY <1>5, <2>2, <3>1
      <4> QED
        BY <1>5, <1>7, <2>2, <3>1, <4>1
    <3>2. CASE k - N \in DOMAIN s /\ ss[k] = s[k - N] /\ j \in DOMAIN sn
      <4>1. ss[k] \in Content(v, o) /\ ss[k] \in All(v)
        BY <1>2, <3>2
      <4>2. Ahead(v, Content(v, o), st, ss[k])
        BY <4>1 DEF Ahead
      <4> QED
        BY <1>5, <1>7, <3>2, <4>1, <4>2
    <3>3. CASE k - N \in DOMAIN s /\ ss[k] = s[k - N] /\ j - N \in DOMAIN s /\ ss[j] = s[j - N]
      <4>1. j - N < k - N
        BY ONLY <1>5, <2>2
      <4> QED
        BY <1>2, <3>3, <4>1
    <3> QED
      BY <1>6, <3>1, <3>2, <3>3
  <2>3. ASSUME NEW n \in vis \cup {o}
        PROVE  \/ \E f \in DOMAIN st : st[f].oid = n
               \/ \A q \in Content(v, n), r \in All(v) : Ahead(v, {}, st, r) => KeyLess(q, r)
    <3>1. CASE n = o
      BY <1>4, <3>1
    <3>2. CASE n \in vis
      BY <1>3, <1>7, <3>2
    <3> QED
      BY <3>1, <3>2
  <2> QED
    BY <2>1, <2>2, <2>3 DEF Behind
<1>9. Kept(v, {}, st, ss, c)
  <2>1. SUFFICES ASSUME NEW r \in All(v), r.oid = c
                 PROVE  Ahead(v, {}, st, r) \/ \E k \in DOMAIN ss : ss[k] = r
    BY DEF Kept
  <2>2. Ahead(v, Content(v, o), st, r) \/ \E k \in DOMAIN sn : sn[k] = r
    BY <2>1 DEF WalkOK, Kept
  <2>3. CASE \E k \in DOMAIN sn : sn[k] = r
    BY <1>5, <2>3
  <2>4. CASE r \in Content(v, o)
    <3>1. PICK k \in DOMAIN s : s[k] = r
      BY <1>2, <2>4
    <3>2. N + k \in DOMAIN ss /\ ss[N + k] = r
      BY <1>5, <3>1
    <3> QED
      BY <3>2
  <2>5. CASE \E f \in DOMAIN st : Left(v, st[f], r)
    BY <2>5 DEF Ahead
  <2> QED
    BY <2>2, <2>3, <2>4, <2>5, Zenon DEF Ahead
<1>10. FramesOK(v, st, vis \cup {o})
  BY DEF WalkOK, FramesOK
<1> QED
  BY <1>8, <1>9, <1>10 DEF WalkOK, ss, s

\* A call on an index node has ahead what is below the node.
LEMMA AtIndex ==
  ASSUME NEW v, IsVolume(v), Ordered(v), NEW o, NEW st \in Seq(Frame(v)), NEW vis, NEW sn, NEW c,
         NodeOK(v, o, st, vis), WalkOK(v, Content(v, o), st, vis, sn, c), Level(v, o) > 0
  PROVE  WalkOK(v, {}, Append(st, [oid |-> o, next |-> 1]), vis \cup {o}, sn, c)
<1> DEFINE frame == [oid |-> o, next |-> 1]
           N == Len(st)
           ts == Append(st, frame)
<1>1. o \in v.oids /\ Level(v, o) \in Nat /\ DOMAIN Entries(v, o) = 1 .. Len(Entries(v, o))
      /\ Content(v, o) = UNION {Content(v, Entries(v, o)[k].ref) : k \in DOMAIN Entries(v, o)}
  BY OrderedTree, NodeTypes DEF NodeOK
<1>2. frame \in Frame(v) /\ frame.oid = o /\ frame.next = 1
  BY <1>1 DEF Frame
<1> HIDE DEF frame
<1>3. \A r : Left(v, frame, r) <=> r \in Content(v, o)
  <2>1. \A k \in DOMAIN Entries(v, o) : k >= 1
    BY <1>1
  <2> QED
    BY <1>1, <1>2, <2>1 DEF Left
<1>4. /\ N \in Nat /\ DOMAIN st = 1 .. N /\ DOMAIN ts = 1 .. N + 1
      /\ \A f \in DOMAIN st : f \in DOMAIN ts /\ ts[f] = st[f]
      /\ N + 1 \in DOMAIN ts /\ ts[N + 1] = frame
      /\ \A f \in DOMAIN ts : f \in DOMAIN st \/ f = N + 1
  BY <1>2
<1> HIDE DEF ts
<1>5. \A r : Ahead(v, {}, ts, r) <=> Ahead(v, Content(v, o), st, r)
  BY <1>3, <1>4 DEF Ahead
<1>6. Behind(v, {}, ts, vis, sn)
  BY <1>4, <1>5, BehindLess DEF WalkOK
<1>7. Behind(v, {}, ts, vis \cup {o}, sn)
  BY <1>2, <1>4, <1>6, Zenon DEF Behind
<1>8. Kept(v, {}, ts, sn, c)
  BY <1>5 DEF Kept, WalkOK
<1>9. FramesOK(v, ts, vis \cup {o})
  <2>1. ASSUME NEW f \in DOMAIN ts
        PROVE  /\ ts[f].oid \in vis \cup {o}
               /\ Level(v, ts[f].oid) > 0 /\ f + Level(v, ts[f].oid) <= MaxFstreeDepth
               /\ Content(v, ts[f].oid) \subseteq All(v)
    <3>1. CASE f \in DOMAIN st
      BY <1>4, <3>1, Zenon DEF WalkOK, FramesOK
    <3>2. CASE f = N + 1
      <4>1. N + Level(v, o) < MaxFstreeDepth /\ Content(v, o) \subseteq All(v)
        BY DEF NodeOK
      <4>2. N + 1 + Level(v, o) <= MaxFstreeDepth
        BY ONLY <1>1, <1>4, <4>1, FsTreeAssumption
      <4> QED
        BY <1>2, <1>4, <3>2, <4>1, <4>2, Zenon
    <3> QED
      BY <1>4, <3>1, <3>2, Zenon
  <2>2. ASSUME NEW f \in DOMAIN ts, NEW g \in DOMAIN ts, g < f
        PROVE  /\ Level(v, ts[f].oid) < Level(v, ts[g].oid)
               /\ Below(v, Content(v, ts[f].oid), ts[g])
    <3>1. g \in DOMAIN st
      BY ONLY <1>4, <2>2
    <3>2. CASE f \in DOMAIN st
      BY <1>4, <2>2, <3>1, <3>2, Zenon DEF WalkOK, FramesOK
    <3>3. CASE f = N + 1
      BY <1>2, <1>4, <3>1, <3>3, Zenon DEF NodeOK
    <3> QED
      BY <1>4, <3>2, <3>3, Zenon
  <2> QED
    BY <2>1, <2>2 DEF FramesOK
<1> QED
  BY <1>7, <1>8, <1>9 DEF WalkOK, ts, frame

\* The stack after a turn that goes on to the next child.
Advanced(st) == [st EXCEPT ![Len(st)] = [oid |-> st[Len(st)].oid, next |-> st[Len(st)].next + 1]]

\* Such a turn moves one child from ahead.
LEMMA AdvancedFrames ==
  ASSUME NEW v, IsVolume(v), Ordered(v), NEW st \in Seq(Frame(v)), st # << >>, NEW vis,
         FramesOK(v, st, vis), st[Len(st)].next <= Len(Entries(v, st[Len(st)].oid))
  PROVE  LET top == st[Len(st)]
             child == Entries(v, top.oid)[top.next].ref
         IN  /\ Len(st) \in DOMAIN st /\ top \in Frame(v) /\ Level(v, top.oid) > 0
             /\ top.next \in DOMAIN Entries(v, top.oid)
             /\ DOMAIN Advanced(st) = DOMAIN st /\ Len(Advanced(st)) = Len(st)
             /\ \A f \in DOMAIN st : Advanced(st)[f].oid = st[f].oid
             /\ \A f \in DOMAIN st : f # Len(st) => Advanced(st)[f] = st[f]
             /\ Advanced(st)[Len(st)].next = top.next + 1
             /\ \A f \in DOMAIN st : \A r : Left(v, Advanced(st)[f], r) => Left(v, st[f], r)
             /\ \A r : Left(v, top, r) => Left(v, Advanced(st)[Len(st)], r) \/ r \in Content(v, child)
             /\ \A r : r \in Content(v, child) => Left(v, top, r)
             /\ FramesOK(v, Advanced(st), vis)
<1> DEFINE N == Len(st)
           top == st[N]
           s == Entries(v, top.oid)
           frame == [oid |-> top.oid, next |-> top.next + 1]
           ts == Advanced(st)
           child == s[top.next].ref
<1>1. N \in DOMAIN st /\ DOMAIN st = 1 .. N /\ N \in Nat
  BY ONLY st \in Seq(Frame(v)), st # << >>
<1>2. top \in Frame(v)
  BY <1>1
<1>3. top.oid \in v.oids /\ top.next \in Nat \ {0} /\ Level(v, top.oid) > 0
  BY <1>1, <1>2 DEF Frame, FramesOK
<1>4. DOMAIN s = 1 .. Len(s) /\ Len(s) \in Nat
  BY <1>3, OrderedTree, NodeTypes
<1>5. top.next \in DOMAIN s
  BY <1>3, <1>4
<1>6. frame.oid = top.oid /\ frame.next = top.next + 1
  OBVIOUS
<1>7. /\ DOMAIN ts = DOMAIN st /\ Len(ts) = N /\ ts[N] = frame
      /\ \A f \in DOMAIN st : f # N => ts[f] = st[f]
  BY <1>1 DEF Advanced
<1> HIDE DEF ts, frame, s
<1>8. \A r : Left(v, frame, r) => Left(v, top, r)
  BY <1>3, <1>4, <1>6 DEF Left, s
<1>9. \A r : Left(v, top, r) => Left(v, frame, r) \/ r \in Content(v, child)
  <2>1. \A k \in DOMAIN s : k >= top.next => k = top.next \/ k >= frame.next
    BY ONLY <1>3, <1>4, <1>6
  <2> QED
    BY <1>6, <2>1 DEF Left, s
<1>10. \A r : r \in Content(v, child) => Left(v, top, r)
  BY <1>3, <1>5 DEF Left, s
<1>11. \A f \in DOMAIN st : ts[f].oid = st[f].oid
  BY <1>6, <1>7
<1>12. \A f \in DOMAIN st : \A r : Left(v, ts[f], r) => Left(v, st[f], r)
  BY <1>7, <1>8
<1>13. FramesOK(v, ts, vis)
  BY <1>7, <1>11, <1>12 DEF FramesOK, Below
<1> QED
  BY <1>1, <1>2, <1>3, <1>5, <1>6, <1>7, <1>9, <1>10, <1>11, <1>12, <1>13, Zenon DEF ts, s

\* A call one level down stays below the depth cap.
LEMMA OneDown ==
  ASSUME NEW n \in Nat, NEW l \in Nat, NEW d, d = l - 1, n + l <= MaxFstreeDepth
  PROVE  d < l /\ n + d < MaxFstreeDepth
  BY FsTreeAssumption

\* A later child of a node.
LEMMA NextIsAfter ==
  ASSUME NEW n \in Nat, NEW m \in Nat, NEW k \in 1 .. m, k >= n + 1
  PROVE  n < k
  OBVIOUS

\* A call above the top one.
LEMMA Above ==
  ASSUME NEW n \in Nat, NEW f \in 1 .. n, f # n
  PROVE  f < n
  OBVIOUS

\* A turn that calls on the next child.
LEMMA Calls ==
  ASSUME NEW v, IsVolume(v), Ordered(v), NEW st \in Seq(Frame(v)), st # << >>, NEW vis, NEW sn, NEW c,
         WalkOK(v, {}, st, vis, sn, c), st[Len(st)].next <= Len(Entries(v, st[Len(st)].oid)),
         NEW o, o = Entries(v, st[Len(st)].oid)[st[Len(st)].next].ref
  PROVE  NodeOK(v, o, Advanced(st), vis) /\ WalkOK(v, Content(v, o), Advanced(st), vis, sn, c)
<1> DEFINE N == Len(st)
           top == st[N]
           s == Entries(v, top.oid)
           ts == Advanced(st)
<1>1. FramesOK(v, st, vis) /\ Behind(v, {}, st, vis, sn) /\ Kept(v, {}, st, sn, c)
  BY Zenon DEF WalkOK
<1>2. /\ N \in DOMAIN st /\ top \in Frame(v) /\ Level(v, top.oid) > 0 /\ top.next \in DOMAIN s
      /\ DOMAIN ts = DOMAIN st /\ Len(ts) = N
      /\ \A f \in DOMAIN st : ts[f].oid = st[f].oid
      /\ \A f \in DOMAIN st : f # N => ts[f] = st[f]
      /\ ts[N].next = top.next + 1
      /\ \A f \in DOMAIN st : \A r : Left(v, ts[f], r) => Left(v, st[f], r)
      /\ \A r : Left(v, top, r) => Left(v, ts[N], r) \/ r \in Content(v, o)
      /\ \A r : r \in Content(v, o) => Left(v, top, r)
      /\ FramesOK(v, ts, vis)
  BY <1>1, AdvancedFrames, Zenon
<1>3. DOMAIN st = 1 .. N /\ N \in Nat
  BY ONLY st \in Seq(Frame(v))
<1> HIDE DEF ts
<1>4. \A r : Ahead(v, Content(v, o), ts, r) <=> Ahead(v, {}, st, r)
  <2>1. \A r : Ahead(v, Content(v, o), ts, r) => Ahead(v, {}, st, r)
    BY <1>2, Zenon DEF Ahead
  <2>2. ASSUME NEW r, NEW f \in DOMAIN st, Left(v, st[f], r)
        PROVE  Ahead(v, Content(v, o), ts, r)
    <3>1. CASE f = N
      BY <1>2, <2>2, <3>1, Zenon DEF Ahead
    <3>2. CASE f # N
      BY <1>2, <2>2, <3>2, Zenon DEF Ahead
    <3> QED
      BY <3>1, <3>2, Zenon
  <2> QED
    BY <2>1, <2>2, Zenon DEF Ahead
<1>5. WalkOK(v, Content(v, o), ts, vis, sn, c)
  <2>1. Behind(v, Content(v, o), ts, vis, sn)
    BY <1>1, <1>2, <1>4, BehindLess, Zenon
  <2>2. Kept(v, Content(v, o), ts, sn, c)
    BY <1>1, <1>4, Zenon DEF Kept
  <2> QED
    BY <1>2, <2>1, <2>2, Zenon DEF WalkOK
<1>6. top.oid \in v.oids /\ top.next \in Nat
  BY <1>2, Zenon DEF Frame
<1>7. /\ o \in v.oids /\ Content(v, o) # {} /\ Content(v, o) \subseteq Content(v, top.oid)
      /\ Level(v, o) = Level(v, top.oid) - 1 /\ Level(v, top.oid) \in Nat
      /\ DOMAIN s = 1 .. Len(s) /\ Len(s) \in Nat
  <2>1. top.next \in DOMAIN s /\ Level(v, top.oid) > 0
    BY <1>2, Zenon
  <2>2. o = s[top.next].ref
    BY Zenon
  <2> DEFINE child == s[top.next].ref
  <2>3. /\ child \in v.oids /\ Content(v, child) # {} /\ Content(v, child) \subseteq Content(v, top.oid)
        /\ Level(v, child) = Level(v, top.oid) - 1 /\ Level(v, top.oid) \in Nat
        /\ DOMAIN s = 1 .. Len(s) /\ Len(s) \in Nat
    BY <1>6, <2>1, ChildOf, Zenon
  <2> HIDE DEF child, top
  <2> QED
    BY ONLY <2>2, <2>3, Zenon DEF child
<1> HIDE DEF s
<1>8. Content(v, o) \subseteq All(v)
  BY <1>1, <1>2, <1>7, Zenon DEF FramesOK
<1>9. N + Level(v, o) < MaxFstreeDepth
  <2>1. N + Level(v, top.oid) <= MaxFstreeDepth
    BY <1>1, <1>2, Zenon DEF FramesOK
  <2> QED
    BY <1>3, <1>7, <2>1, OneDown, Zenon
<1>10. ASSUME NEW f \in DOMAIN st
       PROVE  Level(v, o) < Level(v, ts[f].oid) /\ Below(v, Content(v, o), ts[f])
  <2>1. CASE f = N
    <3>1. ts[f].oid = top.oid /\ ts[f].next = top.next + 1
      BY <1>2, <2>1, Zenon
    <3>2. Level(v, o) < Level(v, top.oid)
      BY ONLY <1>7
    <3>3. ASSUME NEW r \in Content(v, o), NEW q, Left(v, ts[f], q)
          PROVE  KeyLess(r, q)
      <4>1. PICK k \in DOMAIN s : k >= top.next + 1 /\ q \in Content(v, s[k].ref)
        BY <3>1, <3>3, Zenon DEF Left, s
      <4>2. top.next < k
        BY <1>6, <1>7, <4>1, NextIsAfter, Zenon
      <4> QED
        BY <1>2, <1>6, <3>3, <4>1, <4>2, ChildrenAscend, Zenon DEF s
    <3> QED
      BY <3>1, <3>2, <3>3, Zenon DEF Below
  <2>2. CASE f # N
    <3>1. f < N /\ ts[f] = st[f]
      BY <1>2, <1>3, <1>10, <2>2, Above, Zenon
    <3>2. Level(v, top.oid) < Level(v, st[f].oid) /\ Below(v, Content(v, top.oid), st[f])
      BY <1>1, <1>2, <3>1, Zenon DEF FramesOK
    <3>3. Level(v, st[f].oid) \in Nat
      <4>1. st[f] \in Frame(v)
        BY <1>3
      <4>2. st[f].oid \in v.oids
        BY <4>1 DEF Frame
      <4> QED
        BY <4>2, OrderedTree, NodeTypes
    <3>4. Level(v, o) < Level(v, st[f].oid)
      BY ONLY <1>7, <3>2, <3>3
    <3> QED
      BY <1>7, <3>1, <3>2, <3>4, Zenon DEF Below
  <2> QED
    BY <2>1, <2>2, Zenon
<1>11. NodeOK(v, o, ts, vis)
  BY <1>2, <1>7, <1>8, <1>9, <1>10, Zenon DEF NodeOK
<1> QED
  BY <1>5, <1>11, Zenon DEF ts

\* A child the walk passes over holds no record of the object: they would lie from
\* its separator on, and below the next one.
LEMMA PrunedChild ==
  ASSUME NEW v, IsVolume(v), Ordered(v), NEW o \in v.oids, Level(v, o) > 0,
         NEW k \in DOMAIN Entries(v, o), NEW c \in Nat, ~child_may_contain_oid(Entries(v, o), k, c),
         NEW r \in Content(v, Entries(v, o)[k].ref)
  PROVE  r.oid # c
<1> DEFINE s == Entries(v, o)
<1>1. /\ DOMAIN s = 1 .. Len(s) /\ Len(s) \in Nat
      /\ \A n \in DOMAIN s : s[n] \in Rec
  BY OrderedTree, NodeTypes
<1>2. s[k].ref \in v.oids /\ ~KeyLess(r, s[k]) /\ (k < Len(s) => KeyLess(r, s[k + 1]))
  BY OrderedTree, Zenon
<1>3. r \in Rec
  BY <1>2, NodeTypes, Zenon
<1>4. k < Len(s) => k + 1 \in DOMAIN s
  BY ONLY <1>1, k \in DOMAIN s
<1>5. \A q \in Rec : q.oid \in Nat
  BY Zenon DEF Rec
<1>6. s[k].oid > c \/ (k < Len(s) /\ s[k + 1].oid < c)
  <2>1. ~child_may_contain_oid(s, k, c)
    OBVIOUS
  <2>2. s[k].oid \in Nat /\ (k < Len(s) => s[k + 1].oid \in Nat)
    BY <1>1, <1>4, <1>5, Zenon
  <2> HIDE DEF s
  <2> QED
    BY ONLY <2>1, <2>2, c \in Nat DEF child_may_contain_oid
<1> HIDE DEF s
<1>7. CASE s[k].oid > c
  <2>1. s[k].oid \in Nat /\ r.oid \in Nat /\ s[k].oid <= r.oid
    BY <1>1, <1>2, <1>3, OidOrder, Zenon DEF s
  <2> QED
    BY ONLY <1>7, <2>1, c \in Nat
<1>8. CASE k < Len(s) /\ s[k + 1].oid < c
  <2>1. s[k + 1].oid \in Nat /\ r.oid \in Nat /\ r.oid <= s[k + 1].oid
    BY <1>1, <1>2, <1>3, <1>4, <1>8, OidOrder, Zenon
  <2> QED
    BY ONLY <1>8, <2>1, c \in Nat
<1> QED
  BY <1>6, <1>7, <1>8, Zenon

\* A turn that passes over a child.
LEMMA Passes ==
  ASSUME NEW v, IsVolume(v), Ordered(v), NEW st \in Seq(Frame(v)), st # << >>, NEW vis, NEW sn, NEW c \in Nat,
         WalkOK(v, {}, st, vis, sn, c), st[Len(st)].next <= Len(Entries(v, st[Len(st)].oid)),
         ~child_may_contain_oid(Entries(v, st[Len(st)].oid), st[Len(st)].next, c)
  PROVE  WalkOK(v, {}, Advanced(st), vis, sn, c)
<1> DEFINE N == Len(st)
           top == st[N]
           s == Entries(v, top.oid)
           o == s[top.next].ref
           ts == Advanced(st)
<1>1. FramesOK(v, st, vis) /\ Behind(v, {}, st, vis, sn) /\ Kept(v, {}, st, sn, c)
  BY Zenon DEF WalkOK
<1>2. /\ N \in DOMAIN st /\ top \in Frame(v) /\ Level(v, top.oid) > 0 /\ top.next \in DOMAIN s
      /\ DOMAIN ts = DOMAIN st
      /\ \A f \in DOMAIN st : ts[f].oid = st[f].oid
      /\ \A f \in DOMAIN st : f # N => ts[f] = st[f]
      /\ \A f \in DOMAIN st : \A r : Left(v, ts[f], r) => Left(v, st[f], r)
      /\ \A r : Left(v, top, r) => Left(v, ts[N], r) \/ r \in Content(v, o)
      /\ FramesOK(v, ts, vis)
  BY <1>1, AdvancedFrames, Zenon
<1>3. \A r \in Content(v, o) : r.oid # c
  <2>1. top.oid \in v.oids
    BY <1>2, Zenon DEF Frame
  <2>2. top.next \in DOMAIN s /\ Level(v, top.oid) > 0
    BY <1>2, Zenon
  <2>3. ~child_may_contain_oid(s, top.next, c)
    BY Zenon
  <2> HIDE DEF top
  <2> QED
    BY ONLY IsVolume(v), Ordered(v), c \in Nat, <2>1, <2>2, <2>3, PrunedChild
<1> HIDE DEF ts, o, s
<1>4. \A r : Ahead(v, {}, ts, r) => Ahead(v, {}, st, r)
  BY <1>2, Zenon DEF Ahead
<1>5. Behind(v, {}, ts, vis, sn)
  BY <1>1, <1>2, <1>4, BehindLess, Zenon
<1>6. Kept(v, {}, ts, sn, c)
  <2>1. SUFFICES ASSUME NEW r \in All(v), r.oid = c, NEW f \in DOMAIN st, Left(v, st[f], r)
                 PROVE  \E g \in DOMAIN ts : Left(v, ts[g], r)
    BY <1>1, Zenon DEF Kept, Ahead
  <2>2. CASE f = N
    BY <1>2, <1>3, <2>1, <2>2, Zenon
  <2>3. CASE f # N
    BY <1>2, <2>1, <2>3, Zenon
  <2> QED
    BY <2>2, <2>3, Zenon
<1> QED
  BY <1>2, <1>5, <1>6, Zenon DEF WalkOK, ts

\* A call that returns had nothing ahead.
LEMMA Returns ==
  ASSUME NEW v, IsVolume(v), Ordered(v), NEW st \in Seq(Frame(v)), st # << >>, NEW vis, NEW sn, NEW c,
         WalkOK(v, {}, st, vis, sn, c), st[Len(st)].next > Len(Entries(v, st[Len(st)].oid))
  PROVE  WalkOK(v, {}, SubSeq(st, 1, Len(st) - 1), vis, sn, c)
<1> DEFINE N == Len(st)
           top == st[N]
           s == Entries(v, top.oid)
           ts == SubSeq(st, 1, N - 1)
<1>1. FramesOK(v, st, vis) /\ Behind(v, {}, st, vis, sn) /\ Kept(v, {}, st, sn, c)
  BY DEF WalkOK
<1>2. /\ N \in Nat \ {0} /\ N \in DOMAIN st /\ DOMAIN st = 1 .. N
      /\ DOMAIN ts = 1 .. N - 1 /\ \A f \in 1 .. N - 1 : ts[f] = st[f]
  BY ONLY st \in Seq(Frame(v)), st # << >>
<1>3. /\ \A f \in DOMAIN ts : f \in DOMAIN st /\ f < N /\ ts[f] = st[f]
      /\ \A f \in DOMAIN st : f = N \/ f \in DOMAIN ts
  BY ONLY <1>2
<1>4. top.oid \in v.oids /\ top.next \in Nat
  <2>1. top \in Frame(v)
    BY <1>2
  <2> QED
    BY <2>1 DEF Frame
<1>5. \A r : ~Left(v, top, r)
  <2>1. DOMAIN s = 1 .. Len(s) /\ Len(s) \in Nat
    BY <1>4, OrderedTree, NodeTypes
  <2>2. \A k \in DOMAIN s : ~(k >= top.next)
    BY <1>4, <2>1
  <2> QED
    BY <2>2 DEF Left
<1> HIDE DEF ts
<1>6. \A r : Ahead(v, {}, ts, r) <=> Ahead(v, {}, st, r)
  BY <1>3, <1>5, Zenon DEF Ahead
<1>7. Behind(v, {}, ts, vis, sn)
  <2>1. ASSUME NEW o \in vis
        PROVE  \/ \E f \in DOMAIN ts : ts[f].oid = o
               \/ \A q \in Content(v, o), r \in All(v) : Ahead(v, {}, ts, r) => KeyLess(q, r)
    <3>1. CASE \E f \in DOMAIN ts : st[f].oid = o
      BY <1>3, <3>1, Zenon
    <3>2. CASE top.oid = o
      <4>1. \A f \in DOMAIN ts : Below(v, Content(v, o), ts[f])
        BY <1>1, <1>2, <1>3, <3>2, Zenon DEF FramesOK
      <4> QED
        BY <4>1, Zenon DEF Below, Ahead
    <3>3. CASE \A f \in DOMAIN st : st[f].oid # o
      BY <1>1, <1>6, <3>3, Zenon DEF Behind
    <3> QED
      BY <1>3, <3>1, <3>2, <3>3, Zenon
  <2> QED
    BY <1>1, <1>6, <2>1, Zenon DEF Behind
<1>8. Kept(v, {}, ts, sn, c)
  BY <1>1, <1>6, Zenon DEF Kept
<1>9. FramesOK(v, ts, vis)
  BY <1>1, <1>3, Zenon DEF FramesOK
<1> QED
  BY <1>7, <1>8, <1>9, Zenon DEF WalkOK, ts

\* A walk starts with the whole tree ahead.
LEMMA Starts ==
  ASSUME NEW v, IsVolume(v), Ordered(v), NEW c
  PROVE  /\ NodeOK(v, v.root_tree_oid, << >>, {})
         /\ WalkOK(v, Content(v, v.root_tree_oid), << >>, {}, << >>, c)
<1> DEFINE o == v.root_tree_oid
<1>1. o \in v.oids
  BY DEF Ordered
<1>2. Level(v, o) \in Nat /\ Level(v, o) < MaxFstreeDepth
  BY <1>1, OrderedTree, NodeTypes
<1>3. NodeOK(v, o, << >>, {})
  BY <1>1, <1>2 DEF NodeOK, Content, All
<1>4. WalkOK(v, Content(v, o), << >>, {}, << >>, c)
  <2>1. FramesOK(v, << >>, {}) /\ Behind(v, Content(v, o), << >>, {}, << >>)
    <3>1. DOMAIN << >> = {}
      OBVIOUS
    <3> QED
      BY ONLY <3>1, Zenon DEF FramesOK, Behind
  <2>2. Kept(v, Content(v, o), << >>, << >>, c)
    BY ONLY TRUE DEF Kept, Ahead, Content, All
  <2> QED
    BY <2>1, <2>2 DEF WalkOK
<1> QED
  BY <1>3, <1>4

\* A walk of an ordered tree is at no node for the second time.
LEMMA FirstVisit ==
  ASSUME NEW v, IsVolume(v), Ordered(v), NEW o, NEW st \in Seq(Frame(v)), NEW vis, NEW sn, NEW c,
         NodeOK(v, o, st, vis), WalkOK(v, Content(v, o), st, vis, sn, c)
  PROVE  o \notin vis /\ Len(st) < MaxFstreeDepth
<1>1. o \in v.oids /\ Level(v, o) \in Nat
  BY OrderedTree, NodeTypes DEF NodeOK
<1>2. Len(st) < MaxFstreeDepth
  <2>1. Len(st) + Level(v, o) < MaxFstreeDepth
    BY Zenon DEF NodeOK
  <2>2. Len(st) \in Nat
    BY ONLY st \in Seq(Frame(v))
  <2> QED
    <3>1. Level(v, o) \in Nat /\ MaxFstreeDepth \in Nat
      BY ONLY <1>1, FsTreeAssumption, Zenon
    <3> QED
      BY ONLY <2>1, <2>2, <3>1
<1>3. SUFFICES ASSUME o \in vis PROVE FALSE
  BY <1>2
<1>4. PICK r : r \in Content(v, o) /\ r \in All(v)
  BY <1>3, Zenon DEF NodeOK
<1>5. Ahead(v, Content(v, o), st, r)
  BY <1>4 DEF Ahead
<1>6. ~KeyLess(r, r)
  BY <1>1, <1>4, NodeTypes, KeyOrder, Zenon
<1>7. \A f \in DOMAIN st : st[f].oid # o
  <2>1. \A f \in DOMAIN st : Level(v, o) < Level(v, st[f].oid)
    BY Zenon DEF NodeOK
  <2>2. ~(Level(v, o) < Level(v, o))
    BY ONLY <1>1
  <2> QED
    BY ONLY <2>1, <2>2
<1> QED
  BY <1>3, <1>4, <1>5, <1>6, <1>7, Zenon DEF WalkOK, Behind

----------------------------------------------------------------------------
\* The walk keeps its place.
LEMMA WalkStep ==
  ASSUME Typed, WalkInv, [Next]_vars
  PROVE  WalkInv'
<1>1. vol' = vol /\ req' = req
  BY Inputs
<1>2. IsVolume(vol) /\ stack \in Seq(Frame(vol)) /\ seen \in Seq(Rec) /\ current \in Nat
  BY DEF Typed
<1>3. ASSUME pc' \in {"done", "failed"} PROVE WalkInv'
  BY <1>3 DEF WalkInv
<1>4. CASE BeginWalk
  <2>1. CASE pc' = "failed"
    BY <1>3, <2>1
  <2>2. CASE pc' # "failed"
    <3>1. /\ pc' = "enter" /\ node' = vol.root_tree_oid /\ visited' = {} /\ seen' = << >>
          /\ stack' = << >> /\ current' = current
      BY <1>4, <2>2 DEF BeginWalk, Fail, WalkInv
    <3> QED
      BY <1>1, <1>2, <3>1, Starts DEF WalkInv
  <2> QED
    BY <2>1, <2>2
<1>5. CASE TooDeep \/ Revisit \/ ResolveFails \/ ReadFails \/ BadChecksum
  BY <1>3, <1>5, Zenon DEF TooDeep, Revisit, ResolveFails, ReadFails, BadChecksum, Fail
<1>6. CASE VisitLeaf
  <2>1. /\ pc = "enter" /\ node \in vol.oids /\ pc' = "loop" /\ stack' = stack /\ current' = current
        /\ seen' = seen \o Entries(vol, node) /\ visited' = visited \cup {node}
        /\ is_leaf(Block(vol, node))
    BY <1>6, Zenon DEF VisitLeaf, Verified, Readable, Resolved, Fresh, Called, BlockOf, Block, Entries
  <2>2. SUFFICES ASSUME Ordered(vol)
                 PROVE  WalkOK(vol, {}, stack', visited', seen', current')
    BY <1>1, <2>1, Zenon DEF WalkInv
  <2>3. Level(vol, node) = 0
    BY <1>2, <2>1, <2>2, OrderedTree
  <2>4. NodeOK(vol, node, stack, visited) /\ WalkOK(vol, Content(vol, node), stack, visited, seen, current)
    BY <2>1, <2>2, Zenon DEF WalkInv
  <2>5. WalkOK(vol, {}, stack, visited \cup {node}, seen \o Entries(vol, node), current)
    BY <1>2, <2>2, <2>3, <2>4, AtLeaf
  <2> QED
    BY <2>1, <2>5, Zenon
<1>7. CASE EnterIndex
  <2>1. /\ pc = "enter" /\ node \in vol.oids /\ pc' = "loop" /\ current' = current /\ seen' = seen
        /\ stack' = Append(stack, [oid |-> node, next |-> 1]) /\ visited' = visited \cup {node}
        /\ ~is_leaf(Block(vol, node))
    BY <1>7 DEF EnterIndex, Verified, Readable, Resolved, Fresh, Called, BlockOf, Block
  <2>2. SUFFICES ASSUME Ordered(vol)
                 PROVE  WalkOK(vol, {}, stack', visited', seen', current')
    BY <1>1, <2>1, Zenon DEF WalkInv
  <2>3. Level(vol, node) > 0
    <3>1. Level(vol, node) # 0 /\ Level(vol, node) \in Nat
      BY <1>2, <2>1, <2>2, OrderedTree, NodeTypes, Zenon
    <3> QED
      BY <3>1
  <2>4. NodeOK(vol, node, stack, visited) /\ WalkOK(vol, Content(vol, node), stack, visited, seen, current)
    BY <2>1, <2>2, Zenon DEF WalkInv
  <2>5. WalkOK(vol, {}, Append(stack, [oid |-> node, next |-> 1]), visited \cup {node}, seen, current)
    BY <1>2, <2>2, <2>3, <2>4, AtIndex
  <2> QED
    BY <2>1, <2>5, Zenon
<1>8. CASE Turn
  <2> DEFINE top == stack[Len(stack)]
             s == Entries(vol, top.oid)
  <2>1. stack # << >> /\ pc = "loop" /\ UNCHANGED <<current, visited, seen>>
    BY <1>8 DEF Turn
  <2>2. \/ top.next <= Len(s) /\ node' = s[top.next].ref /\ stack' = Advanced(stack) /\ pc' = "enter"
        \/ /\ top.next <= Len(s) /\ ~child_may_contain_oid(s, top.next, current)
           /\ stack' = Advanced(stack) /\ pc' = "loop"
        \/ top.next > Len(s) /\ stack' = SubSeq(stack, 1, Len(stack) - 1) /\ pc' = "loop"
    BY <1>8, Zenon DEF Turn, Entries, Block, BlockOf, Advanced
  <2>3. SUFFICES ASSUME Ordered(vol) PROVE WalkInv'
    BY <1>1, <2>2, Zenon DEF WalkInv
  <2>4. WalkOK(vol, {}, stack, visited, seen, current)
    BY <2>1, <2>3 DEF WalkInv
  <2>5. CASE top.next <= Len(s) /\ node' = s[top.next].ref /\ stack' = Advanced(stack) /\ pc' = "enter"
    <3>1. NodeOK(vol, node', Advanced(stack), visited)
          /\ WalkOK(vol, Content(vol, node'), Advanced(stack), visited, seen, current)
      BY <1>2, <2>1, <2>3, <2>4, <2>5, Calls, Zenon
    <3> QED
      BY <1>1, <2>1, <2>5, <3>1, Zenon DEF WalkInv
  <2>6. CASE /\ top.next <= Len(s) /\ ~child_may_contain_oid(s, top.next, current)
             /\ stack' = Advanced(stack) /\ pc' = "loop"
    <3>1. WalkOK(vol, {}, Advanced(stack), visited, seen, current)
      BY <1>2, <2>1, <2>3, <2>4, <2>6, Passes, Zenon
    <3> QED
      BY <1>1, <2>1, <2>6, <3>1, Zenon DEF WalkInv
  <2>7. CASE top.next > Len(s) /\ stack' = SubSeq(stack, 1, Len(stack) - 1) /\ pc' = "loop"
    <3>1. WalkOK(vol, {}, SubSeq(stack, 1, Len(stack) - 1), visited, seen, current)
      BY <1>2, <2>1, <2>3, <2>4, <2>7, Returns, Zenon
    <3> QED
      BY <1>1, <2>1, <2>7, <3>1, Zenon DEF WalkInv
  <2> QED
    BY <2>2, <2>5, <2>6, <2>7, Zenon
<1>9. CASE ListDir \/ LookupChild \/ LoadInode
  BY <1>3, <1>9, Zenon DEF ListDir, LookupChild, LoadInode, Return, Fail
<1>10. CASE NextComponent
  <2>1. pc' = "failed" \/ (pc' = "start" /\ stack' = << >>)
    BY <1>10 DEF NextComponent, WalkOver, Fail
  <2> QED
    BY <1>3, <2>1 DEF WalkInv
<1>11. CASE UNCHANGED vars
  BY <1>11 DEF vars, WalkInv
<1> QED
  BY <1>4, <1>5, <1>6, <1>7, <1>8, <1>9, <1>10, <1>11 DEF Next

\* When a walk is over, what it has seen are stored records in order, and among them
\* all those of the object.
LEMMA SeenAll ==
  ASSUME WalkInv, Ordered(vol), WalkOver
  PROVE  /\ \A r \in Stored : r.oid = current => \E k \in DOMAIN seen : seen[k] = r
         /\ \A k \in DOMAIN seen : seen[k] \in Stored
         /\ \A j, k \in DOMAIN seen : j < k => KeyLess(seen[j], seen[k])
<1>1. WalkOK(vol, {}, << >>, visited, seen, current)
  BY DEF WalkInv, WalkOver
<1>2. \A r : ~Ahead(vol, {}, << >>, r)
  BY DEF Ahead
<1> QED
  BY <1>1, <1>2, Zenon DEF WalkOK, Behind, Kept, Stored, All

\* The first entry of a name is the one the name stands for.
LEMMA FirstNamed ==
  ASSUME Typed, WalkInv, Ordered(vol), WalkOver, NEW name, NEW k, First(Wanted("drec", name), k)
  PROVE  seen[k] \in Named(vol, current, name)
<1>1. k \in DOMAIN seen /\ seen[k].oid = current /\ seen[k].type = "drec" /\ seen[k].name = name
  BY DEF First, Wanted
<1>2. seen[k] \in Stored /\ DOMAIN seen \subseteq Nat /\ \A j \in DOMAIN seen : seen[j] \in Rec
  <2>1. seen[k] \in Stored
    BY <1>1, SeenAll
  <2>2. seen \in Seq(Rec)
    BY Zenon DEF Typed
  <2> QED
    BY ONLY <2>1, <2>2
<1>3. ASSUME NEW q \in Stored, q.oid = current, q.type = "drec", q.name = name
      PROVE  ~KeyLess(q, seen[k])
  <2>1. PICK j \in DOMAIN seen : seen[j] = q
    BY <1>3, SeenAll
  <2>2. j \in Wanted("drec", name)
    BY <1>3, <2>1 DEF Wanted
  <2>3. k <= j
    BY <2>2 DEF First
  <2>4. CASE k = j
    BY <1>1, <1>2, <2>1, <2>4, KeyOrder
  <2>5. CASE k < j
    <3>1. KeyLess(seen[k], q)
      BY <1>1, <2>1, <2>5, SeenAll
    <3> QED
      BY <1>1, <1>2, <2>1, <3>1, KeyOrder
  <2> QED
    BY <1>1, <1>2, <2>1, <2>3, <2>4, <2>5
<1> QED
  BY <1>1, <1>2, <1>3 DEF Named, Stored, All

\* One more name.
LEMMA OneFurther ==
  ASSUME NEW v, NEW path, NEW n \in Nat, NEW c, LeadsTo(v, path, n, c), NEW entry \in Named(v, c, path[n + 1])
  PROVE  LeadsTo(v, path, n + 1, entry.ref)
<1>1. PICK objects \in Ways(v, n) : Leads(v, path, objects, n) /\ objects[n] = c
  BY DEF LeadsTo
<1>2. entry \in All(v)
  BY DEF Named
<1> DEFINE longer == [j \in 0 .. n + 1 |-> IF j = n + 1 THEN entry.ref ELSE objects[j]]
<1>3. /\ \A j \in 0 .. n + 1 : j = n + 1 \/ j \in 0 .. n
      /\ 0 .. n \subseteq 0 .. n + 1 /\ n + 1 \notin 0 .. n /\ n + 1 \in 0 .. n + 1
  BY ONLY n \in Nat
<1>4. longer \in Ways(v, n + 1) /\ longer[n + 1] = entry.ref /\ \A j \in 0 .. n : longer[j] = objects[j]
  BY <1>1, <1>2, <1>3 DEF Ways
<1> HIDE DEF longer
<1>5. longer[0] = RootDir
  <2>1. 0 \in 0 .. n
    BY ONLY n \in Nat
  <2> QED
    BY <1>1, <1>4, <2>1 DEF Leads
<1>6. ASSUME NEW j \in 1 .. n + 1
      PROVE  \E r \in Named(v, longer[j - 1], path[j]) : longer[j] = r.ref
  <2>1. CASE j = n + 1
    <3>1. j - 1 = n /\ n \in 0 .. n
      BY ONLY n \in Nat, <2>1
    <3> QED
      BY <1>1, <1>4, <2>1, <3>1
  <2>2. CASE j # n + 1
    <3>1. j \in 1 .. n /\ j \in 0 .. n /\ j - 1 \in 0 .. n
      BY ONLY n \in Nat, <1>6, <2>2
    <3>2. \E r \in Named(v, objects[j - 1], path[j]) : objects[j] = r.ref
      BY <1>1, <3>1 DEF Leads
    <3> QED
      BY <1>4, <3>1, <3>2
  <2> QED
    BY <2>1, <2>2
<1>7. Leads(v, path, longer, n + 1)
  BY <1>5, <1>6 DEF Leads
<1> QED
  BY <1>4, <1>7 DEF LeadsTo

\* Each lookup goes one name along the path.
LEMMA PathStep ==
  ASSUME Typed, WalkInv, PathInv, [Next]_vars
  PROVE  PathInv'
<1>1. vol' = vol /\ req' = req
  BY Inputs
<1>2. CASE NextComponent /\ pc' # "failed"
  <2>1. /\ WalkOver /\ taken' = taken + 1
        /\ \E k : First(Wanted("drec", req.path[taken + 1]), k) /\ current' = seen[k].ref
    BY <1>2 DEF NextComponent, Fail
  <2>2. SUFFICES ASSUME Ordered(vol), req.op = "open_path"
                 PROVE  LeadsTo(vol, req.path, taken + 1, current')
    BY <1>1, <2>1 DEF PathInv
  <2>3. PICK entry \in Named(vol, current, req.path[taken + 1]) : current' = entry.ref
    BY <2>1, <2>2, FirstNamed, Zenon
  <2>4. taken \in Nat
    BY DEF Typed
  <2> QED
    BY <2>2, <2>3, <2>4, OneFurther DEF PathInv
<1>3. CASE ~(NextComponent /\ pc' # "failed")
  <2>1. taken' = taken /\ current' = current
    BY <1>3, Zenon
       DEF Next, vars, BeginWalk, TooDeep, Revisit, ResolveFails, ReadFails, BadChecksum, VisitLeaf, EnterIndex,
           Turn, ListDir, LookupChild, NextComponent, LoadInode, Return, Fail
  <2> QED
    BY <1>1, <2>1 DEF PathInv
<1> QED
  BY <1>2, <1>3

\* The way found is the path's.
LEMMA ResolutionIs == Resolution => PathResolution
<1>1. SUFFICES ASSUME NEW c, LeadsTo(vol, req.path, Len(req.path), c), result[1] \in All(vol),
                      result[1].oid = c, result[1].type = "inode"
               PROVE  \E objects \in [0 .. Len(req.path) -> {RootDir} \cup {r.ref : r \in Stored}] :
                        /\ Along(objects, Len(req.path))
                        /\ result[1] \in Stored
                        /\ result[1].oid = objects[Len(req.path)] /\ result[1].type = "inode"
  BY DEF Resolution, PathResolution
<1>2. PICK objects \in Ways(vol, Len(req.path)) :
        Leads(vol, req.path, objects, Len(req.path)) /\ objects[Len(req.path)] = c
  BY <1>1 DEF LeadsTo
<1>3. Along(objects, Len(req.path))
  BY ONLY <1>2 DEF Leads, Along, Named, EntryNamed, Stored, All
<1> QED
  BY <1>1, <1>2, <1>3 DEF Ways, All, Stored

\* The inode returned is that of the object the path has led to.
LEMMA ResolutionStep ==
  ASSUME Typed, WalkInv, PathInv, Resolution, [Next]_vars
  PROVE  Resolution'
<1>1. vol' = vol /\ req' = req
  BY Inputs
<1>2. SUFFICES ASSUME Ordered(vol), pc' = "done", req.op = "open_path"
               PROVE  Resolution'
  BY <1>1 DEF Resolution
<1>3. CASE LoadInode
  <2>1. /\ WalkOver /\ taken = Len(req.path)
        /\ \E k \in Wanted("inode", 0) : result' = <<seen[k]>>
    BY <1>2, <1>3 DEF LoadInode, Return, Fail
  <2>2. PICK k \in Wanted("inode", 0) : result' = <<seen[k]>>
    BY <2>1
  <2>3. result'[1] = seen[k] /\ seen[k].oid = current /\ seen[k].type = "inode" /\ k \in DOMAIN seen
    BY <2>2 DEF Wanted
  <2>4. result'[1] \in All(vol)
    BY <1>2, <2>1, <2>3, SeenAll DEF Stored, All
  <2>5. LeadsTo(vol, req.path, Len(req.path), current)
    BY <1>2, <2>1 DEF PathInv
  <2> QED
    BY <1>1, <2>3, <2>4, <2>5 DEF Resolution
<1>4. CASE UNCHANGED vars
  BY <1>4 DEF vars, Resolution
<1>5. CASE Next /\ ~LoadInode
  BY <1>2, <1>5, Zenon
     DEF Next, BeginWalk, TooDeep, Revisit, ResolveFails, ReadFails, BadChecksum, VisitLeaf, EnterIndex, Turn,
         ListDir, LookupChild, NextComponent, Return, Fail
<1> QED
  BY <1>3, <1>4, <1>5

\* The refusals: of a sound and ordered volume, reads that fail and what is not there.
LEMMA RefusalStep ==
  ASSUME Typed, WalkInv, RefusesOnlyAbsent, [Next]_vars
  PROVE  RefusesOnlyAbsent'
<1>1. vol' = vol /\ req' = req
  BY Inputs
<1>2. SUFFICES ASSUME Ordered(vol), Sound(vol), pc' = "failed"
               PROVE  RefusesOnlyAbsent'
  BY <1>1, Zenon DEF RefusesOnlyAbsent
<1>3. IsVolume(vol) /\ stack \in Seq(Frame(vol))
  BY DEF Typed
<1>4. ASSUME error' = "Io" PROVE RefusesOnlyAbsent'
  BY <1>4 DEF RefusesOnlyAbsent
<1>5. pc = "enter" => /\ node \in vol.oids /\ node \notin visited /\ Len(stack) < MaxFstreeDepth
                      /\ vol.omap[node].error = "None" /\ ChecksumOk(node)
  <2>1. SUFFICES ASSUME pc = "enter"
                 PROVE  /\ node \in vol.oids /\ node \notin visited /\ Len(stack) < MaxFstreeDepth
                        /\ vol.omap[node].error = "None" /\ ChecksumOk(node)
    OBVIOUS
  <2>2. NodeOK(vol, node, stack, visited) /\ WalkOK(vol, Content(vol, node), stack, visited, seen, current)
    BY <1>2, <2>1 DEF WalkInv
  <2>3. node \in vol.oids
    BY <2>2, Zenon DEF NodeOK
  <2>4. node \notin visited /\ Len(stack) < MaxFstreeDepth
    BY <1>2, <1>3, <2>2, FirstVisit
  <2>5. vol.omap[node].error = "None" /\ ChecksumOk(node)
    BY <1>2, <2>3, Zenon DEF Sound, ChecksumOk, BlockOf
  <2> QED
    BY <2>3, <2>4, <2>5
<1>6. CASE BeginWalk
  <2>1. vol.omap_header = "ok"
    BY <1>2 DEF Sound
  <2> QED
    BY <1>2, <1>4, <1>6, <2>1 DEF BeginWalk, Fail
<1>7. CASE ReadFails
  BY <1>4, <1>7 DEF ReadFails, Fail
<1>8. CASE TooDeep \/ Revisit \/ ResolveFails \/ BadChecksum
  <2>1. Len(stack) \in Nat
    BY <1>3
  <2> QED
    BY <1>5, <1>8, <2>1, FsTreeAssumption
       DEF TooDeep, Revisit, ResolveFails, BadChecksum, Readable, Resolved, Fresh, Called
<1>9. CASE VisitLeaf \/ EnterIndex \/ Turn \/ ListDir \/ LookupChild
  BY <1>2, <1>9, Zenon DEF VisitLeaf, EnterIndex, Turn, ListDir, LookupChild, WalkOver, Return
<1>10. CASE NextComponent
  <2>1. /\ WalkOver /\ Wanted("drec", req.path[taken + 1]) = {} /\ taken < Len(req.path)
        /\ error' = "OmapUnresolved" /\ taken' = taken /\ current' = current
    BY <1>2, <1>10 DEF NextComponent, Fail
  <2>2. EntryNamed(current, req.path[taken + 1]) = {}
    BY <1>2, <2>1, SeenAll DEF Wanted, EntryNamed
  <2> QED
    BY <1>1, <2>1, <2>2, Zenon DEF RefusesOnlyAbsent, EntryNamed, Stored
<1>11. CASE LoadInode
  <2>1. /\ WalkOver /\ Wanted("inode", 0) = {}
        /\ error' = "OmapUnresolved" /\ taken' = taken /\ current' = current
    BY <1>2, <1>11 DEF LoadInode, Fail, Return
  <2>2. {r \in Stored : r.oid = current /\ r.type = "inode"} = {}
    BY <1>2, <2>1, SeenAll, Zenon DEF Wanted
  <2> QED
    BY <1>1, <2>1, <2>2 DEF RefusesOnlyAbsent, Stored
<1>12. CASE UNCHANGED vars
  BY <1>12, Zenon DEF vars, RefusesOnlyAbsent, EntryNamed, Stored
<1> QED
  BY <1>6, <1>7, <1>8, <1>9, <1>10, <1>11, <1>12 DEF Next

\* A child the walk enters is as near to the object as its parent: what its
\* siblings hold is not between them.
LEMMA NearChild ==
  ASSUME NEW v, IsVolume(v), Ordered(v), NEW o \in v.oids, Level(v, o) > 0,
         NEW k \in DOMAIN Entries(v, o), NEW c \in Nat, child_may_contain_oid(Entries(v, o), k, c),
         Near(v, o, c)
  PROVE  Near(v, Entries(v, o)[k].ref, c)
<1> DEFINE s == Entries(v, o)
           child == s[k].ref
<1>1. /\ DOMAIN s = 1 .. Len(s) /\ Len(s) \in Nat
      /\ \A n \in DOMAIN s : s[n] \in Rec
  BY OrderedTree, NodeTypes
<1>2. Content(v, child) \subseteq Content(v, o)
  BY ChildOf, Zenon
<1>3. Content(v, o) = UNION {Content(v, s[n].ref) : n \in DOMAIN s}
  BY OrderedTree
<1>4. s[k].oid <= c /\ (k < Len(s) => s[k + 1].oid >= c)
  BY Zenon DEF child_may_contain_oid
<1>5. SUFFICES ASSUME NEW r \in Content(v, child), NEW q \in All(v) \ Content(v, child)
               PROVE  ~(KeyLess(r, q) /\ q.oid < c) /\ ~(KeyLess(q, r) /\ q.oid > c)
  BY Zenon DEF Near
<1>6. CASE q \notin Content(v, o)
  BY <1>2, <1>5, <1>6, Zenon DEF Near
<1>7. CASE q \in Content(v, o)
  <2>1. PICK n \in DOMAIN s : q \in Content(v, s[n].ref)
    BY <1>3, <1>7
  <2>2. n # k
    BY <1>5, <2>1, Zenon
  <2>3. /\ s[n].ref \in v.oids /\ s[k].ref \in v.oids
        /\ ~KeyLess(q, s[n]) /\ (n < Len(s) => KeyLess(q, s[n + 1]))
    BY <2>1, OrderedTree, Zenon
  <2>4. q \in Rec /\ r \in Rec
    BY <1>5, <2>1, <2>3, NodeTypes, Zenon
  <2>5. \A i, j \in DOMAIN s : i < j => KeyLess(s[i], s[j])
    BY OrderedTree, Zenon
  <2>6. CASE n < k
    <3>1. KeyLess(q, r)
      BY <1>5, <2>1, <2>6, ChildrenAscend, Zenon
    <3>2. ~KeyLess(r, q)
      BY <2>4, <3>1, KeyOrder, Zenon
    <3>3. n + 1 \in DOMAIN s /\ n < Len(s) /\ (n + 1 = k \/ n + 1 < k)
      BY ONLY <1>1, <2>6, n \in DOMAIN s, k \in DOMAIN s
    <3>4. n + 1 = k \/ KeyLess(s[n + 1], s[k])
      BY <2>5, <3>3, Zenon
    <3>5. KeyLess(q, s[k])
      BY <1>1, <2>3, <2>4, <3>3, <3>4, KeyOrder, Zenon
    <3>6. q.oid \in Nat /\ s[k].oid \in Nat /\ q.oid <= s[k].oid
      BY <1>1, <2>4, <3>5, OidOrder, Zenon
    <3>7. ~(q.oid > c)
      BY ONLY <1>4, <3>6, c \in Nat
    <3> QED
      BY <3>2, <3>7, Zenon
  <2>7. CASE k < n
    <3>1. KeyLess(r, q)
      BY <1>5, <2>1, <2>7, ChildrenAscend, Zenon
    <3>2. ~KeyLess(q, r)
      BY <2>4, <3>1, KeyOrder, Zenon
    <3>3. k + 1 \in DOMAIN s /\ k < Len(s) /\ (k + 1 = n \/ k + 1 < n)
      BY ONLY <1>1, <2>7, n \in DOMAIN s, k \in DOMAIN s
    <3>4. k + 1 = n \/ KeyLess(s[k + 1], s[n])
      BY <2>5, <3>3, Zenon
    <3>5. s[k + 1] \in Rec /\ s[n] \in Rec
      BY <1>1, <3>3, Zenon
    <3>6. s[n].oid \in Nat /\ s[k + 1].oid \in Nat /\ q.oid \in Nat /\ s[n].oid <= q.oid
      BY <2>3, <2>4, <3>5, OidOrder, Zenon
    <3>7. k + 1 = n \/ s[k + 1].oid <= s[n].oid
      BY <3>4, <3>5, OidOrder, Zenon
    <3>8. s[k + 1].oid <= s[n].oid
      <4>1. CASE k + 1 = n
        BY ONLY <3>6, <4>1
      <4> QED
        BY <3>7, <4>1, Zenon
    <3>9. ~(q.oid < c)
      BY ONLY <1>4, <3>3, <3>6, <3>8, c \in Nat
    <3> QED
      BY <3>2, <3>9, Zenon
  <2>8. n < k \/ k < n
    BY ONLY <1>1, <2>2, n \in DOMAIN s, k \in DOMAIN s
  <2> QED
    BY <2>6, <2>7, <2>8, Zenon
<1> QED
  BY <1>6, <1>7, Zenon

\* The walk stays near its object, and so does what it fails at.
LEMMA LocalStep ==
  ASSUME Typed, WalkInv, LocalInv, [Next]_vars
  PROVE  LocalInv'
<1>1. vol' = vol /\ req' = req
  BY Inputs
<1>2. IsVolume(vol) /\ stack \in Seq(Frame(vol)) /\ current \in Nat
  BY DEF Typed
<1>3. \A o : Near(vol, o, current) <=> Beside(o)
  BY Zenon DEF Near, Beside, Content, All, Stored
<1>4. ASSUME NEW kind, Fail(kind), pc = "enter" \/ kind \notin {"ChecksumMismatch", "CycleGuard"}
      PROVE  LocalInv'
  <2>1. pc' = "failed" /\ error' = kind /\ UNCHANGED <<vol, current, node>>
    BY <1>4, Zenon DEF Fail
  <2>2. Ordered(vol) /\ pc = "enter" => Beside(node)
    BY <1>3, Zenon DEF LocalInv
  <2>3. Beside(node) => Beside(node)'
    BY <2>1, Zenon DEF Beside, Stored
  <2>4. FaultsStayLocal'
    BY <1>1, <1>4, <2>1, <2>2, <2>3, Zenon DEF FaultsStayLocal
  <2> QED
    BY <2>1, <2>4 DEF LocalInv
<1>5. ASSUME pc' # "failed",
             Ordered(vol) /\ pc' = "enter" => Near(vol, node', current'),
             Ordered(vol) /\ pc' \in {"enter", "loop"} => \A f \in DOMAIN stack' : Near(vol, stack'[f].oid, current')
      PROVE  LocalInv'
  BY <1>1, <1>5, Zenon DEF LocalInv, FaultsStayLocal
<1>6. CASE BeginWalk
  <2>1. CASE Fail("Io")
    BY <1>4, <2>1
  <2>2. CASE vol.omap_header # "ok"
    BY <1>1, <1>6, <2>2, Zenon DEF BeginWalk, Fail, LocalInv, FaultsStayLocal
  <2>3. CASE ~Fail("Io") /\ vol.omap_header = "ok"
    <3>1. pc' = "enter" /\ node' = vol.root_tree_oid /\ stack' = << >>
      BY <1>6, <2>3 DEF BeginWalk, WalkInv
    <3>2. Near(vol, node', current')
      BY <3>1, Zenon DEF Near, Content, All
    <3> QED
      BY <1>5, <3>1, <3>2
  <2> QED
    BY <2>1, <2>2, <2>3
<1>7. CASE TooDeep \/ Revisit \/ ResolveFails \/ ReadFails \/ BadChecksum
  BY <1>4, <1>7, Zenon
     DEF TooDeep, Revisit, ResolveFails, ReadFails, BadChecksum, Readable, Resolved, Fresh, Called
<1>8. CASE VisitLeaf
  <2>1. pc = "enter" /\ pc' = "loop" /\ UNCHANGED <<stack, current>>
    BY <1>8, Zenon DEF VisitLeaf, Verified, Readable, Resolved, Fresh, Called
  <2> QED
    BY <1>5, <2>1 DEF LocalInv
<1>9. CASE EnterIndex
  <2>1. /\ pc = "enter" /\ pc' = "loop" /\ current' = current
        /\ stack' = Append(stack, [oid |-> node, next |-> 1])
    BY <1>9, Zenon DEF EnterIndex, Verified, Readable, Resolved, Fresh, Called
  <2> DEFINE frame == [oid |-> node, next |-> 1]
  <2>2. frame.oid = node
    OBVIOUS
  <2> HIDE DEF frame
  <2>3. \A f \in DOMAIN stack' : (f \in DOMAIN stack /\ stack'[f] = stack[f]) \/ stack'[f] = frame
    BY <1>2, <2>1 DEF frame
  <2> QED
    BY <1>5, <2>1, <2>2, <2>3 DEF LocalInv
<1>10. CASE Turn
  <2> DEFINE top == stack[Len(stack)]
             s == Entries(vol, top.oid)
  <2>1. stack # << >> /\ pc = "loop" /\ UNCHANGED <<current, visited, seen>>
    BY <1>10 DEF Turn
  <2>2. \/ /\ top.next <= Len(s) /\ child_may_contain_oid(s, top.next, current)
           /\ node' = s[top.next].ref /\ stack' = Advanced(stack) /\ pc' = "enter"
        \/ top.next <= Len(s) /\ stack' = Advanced(stack) /\ pc' = "loop"
        \/ stack' = SubSeq(stack, 1, Len(stack) - 1) /\ pc' = "loop"
    BY <1>10, Zenon DEF Turn, Entries, Block, BlockOf, Advanced
  <2>3. SUFFICES ASSUME Ordered(vol) PROVE LocalInv'
    BY <1>5, <2>2
  <2>4. \A f \in DOMAIN stack : Near(vol, stack[f].oid, current)
    BY <2>1, <2>3 DEF LocalInv
  <2>5. FramesOK(vol, stack, visited)
    BY <2>1, <2>3, Zenon DEF WalkInv, WalkOK
  <2>6. CASE top.next <= Len(s) /\ stack' = Advanced(stack)
    <3>1. /\ Len(stack) \in DOMAIN stack /\ top \in Frame(vol) /\ Level(vol, top.oid) > 0
          /\ top.next \in DOMAIN s
          /\ DOMAIN stack' = DOMAIN stack /\ \A f \in DOMAIN stack : stack'[f].oid = stack[f].oid
      BY <1>2, <2>1, <2>3, <2>5, <2>6, AdvancedFrames, Zenon
    <3>2. \A f \in DOMAIN stack' : Near(vol, stack'[f].oid, current')
      BY <2>1, <2>4, <3>1
    <3>3. top.oid \in vol.oids
      BY <3>1, Zenon DEF Frame
    <3>4. ASSUME pc' = "enter" PROVE Near(vol, node', current')
      <4>1. child_may_contain_oid(s, top.next, current) /\ node' = s[top.next].ref
        BY <2>2, <3>4
      <4>2. Near(vol, top.oid, current)
        BY <2>4, <3>1, Zenon
      <4>3. Near(vol, s[top.next].ref, current)
        BY <1>2, <2>3, <3>1, <3>3, <4>1, <4>2, NearChild, Zenon
      <4> QED
        BY <2>1, <4>1, <4>3
    <3> QED
      BY <1>5, <2>2, <3>2, <3>4
  <2>7. CASE stack' = SubSeq(stack, 1, Len(stack) - 1) /\ pc' = "loop"
    <3>1. \A f \in DOMAIN stack' : f \in DOMAIN stack /\ stack'[f] = stack[f]
      BY <1>2, <2>1, <2>7
    <3> QED
      BY <1>5, <2>1, <2>4, <2>7, <3>1
  <2> QED
    BY <2>2, <2>6, <2>7, Zenon
<1>11. CASE ListDir \/ LookupChild \/ LoadInode
  <2>1. pc' = "done" \/ Fail("OmapUnresolved")
    BY <1>11, Zenon DEF ListDir, LookupChild, LoadInode, Return
  <2> QED
    BY <1>4, <1>5, <2>1
<1>12. CASE NextComponent
  <2>1. pc' = "start" \/ Fail("OmapUnresolved")
    BY <1>12, Zenon DEF NextComponent
  <2> QED
    BY <1>4, <1>5, <2>1
<1>13. CASE UNCHANGED vars
  BY <1>13, Zenon DEF vars, LocalInv, FaultsStayLocal, Beside, Stored
<1> QED
  BY <1>6, <1>7, <1>8, <1>9, <1>10, <1>11, <1>12, <1>13 DEF Next

\* A walk for one object stays with it.
LEMMA KeyedStep ==
  ASSUME Keyed, [Next]_vars
  PROVE  Keyed'
<1>1. vol' = vol /\ req' = req
  BY Inputs
<1>2. req.op # "open_path" => current' = current
  BY Zenon
     DEF Next, vars, BeginWalk, TooDeep, Revisit, ResolveFails, ReadFails, BadChecksum, VisitLeaf, EnterIndex,
         Turn, ListDir, LookupChild, NextComponent, LoadInode, Return, Fail
<1> QED
  BY <1>1, <1>2 DEF Keyed

\* A listing picks from the records seen, which are in order, those of the directory.
LEMMA ListingStep ==
  ASSUME WalkInv, Keyed, ListingInOrder, [Next]_vars
  PROVE  ListingInOrder'
<1>1. vol' = vol /\ req' = req
  BY Inputs
<1>2. SUFFICES ASSUME Ordered(vol), pc' = "done", req.op = "list_dir"
               PROVE  ListingInOrder'
  BY <1>1, Zenon DEF ListingInOrder
<1>3. CASE ListDir
  <2> DEFINE hits == {k \in DOMAIN seen : IsEntry(seen[k])}
             N == 1 .. Cardinality(hits)
  <2>1. PICK order \in [N -> hits] : InOrder(order, hits) /\ result' = [k \in N |-> seen[order[k]]]
    BY <1>3, Zenon DEF ListDir, Return
  <2>2. /\ \A r \in Stored : r.oid = current => \E k \in DOMAIN seen : seen[k] = r
        /\ \A k \in DOMAIN seen : seen[k] \in Stored
        /\ \A j, k \in DOMAIN seen : j < k => KeyLess(seen[j], seen[k])
    BY <1>2, <1>3, SeenAll, Zenon DEF ListDir
  <2>3. current = req.oid
    BY <1>2 DEF Keyed
  <2>4. hits = {k \in DOMAIN seen : seen[k].oid = req.oid /\ seen[k].type = "drec"}
    BY <2>3 DEF IsEntry
  <2> HIDE DEF hits, N
  <2>5. /\ DOMAIN result' = N /\ DOMAIN order = N
        /\ \A k \in N : order[k] \in hits /\ result'[k] = seen[order[k]]
    BY <2>1
  <2>6. \A h \in hits : h \in DOMAIN seen /\ seen[h].oid = req.oid /\ seen[h].type = "drec"
    BY <2>4
  <2>7. \A j, k \in DOMAIN result' : j < k => KeyLess(result'[j], result'[k])
    <3>1. ASSUME NEW j \in N, NEW k \in N, j < k
          PROVE  KeyLess(seen[order[j]], seen[order[k]])
      <4>1. order[j] < order[k]
        BY <2>1, <2>5, <3>1, Zenon DEF InOrder
      <4> QED
        BY <2>2, <2>5, <2>6, <4>1, Zenon
    <3> QED
      BY <2>5, <3>1
  <2>8. \A k \in DOMAIN result' : result'[k] \in Stored /\ result'[k].oid = req.oid /\ result'[k].type = "drec"
    BY <2>2, <2>5, <2>6
  <2>9. ASSUME NEW r \in Stored, r.oid = req.oid, r.type = "drec"
        PROVE  \E k \in DOMAIN result' : result'[k] = r
    <3>1. PICK h \in DOMAIN seen : seen[h] = r
      BY <2>2, <2>3, <2>9
    <3>2. h \in hits
      BY <2>4, <2>9, <3>1
    <3>3. PICK k \in DOMAIN order : order[k] = h
      BY <2>1, <3>2, Zenon DEF InOrder
    <3> QED
      BY <2>5, <3>1, <3>3
  <2>10. {result'[k] : k \in DOMAIN result'} = {r \in Stored : r.oid = req.oid /\ r.type = "drec"}
    BY <2>8, <2>9
  <2> QED
    BY <1>1, <2>7, <2>10, Zenon DEF ListingInOrder, Stored
<1>4. CASE UNCHANGED vars
  BY <1>4, Zenon DEF vars, ListingInOrder, Stored
<1>5. CASE Next /\ ~ListDir
  BY <1>2, <1>5, Zenon
     DEF Next, BeginWalk, TooDeep, Revisit, ResolveFails, ReadFails, BadChecksum, VisitLeaf, EnterIndex, Turn,
         LookupChild, NextComponent, LoadInode, Return, Fail
<1> QED
  BY <1>3, <1>4, <1>5

\* The first walk of an operation.
LEMMA InitOK == Init => IInv
<1> SUFFICES ASSUME Init PROVE IInv
  OBVIOUS
<1>1. IsVolume(vol) /\ req \in Request /\ RootDir \in Nat
  BY FsTreeAssumption DEF Init
<1>2. req.oid \in Nat /\ req.path \in Seq(Nat)
  BY <1>1 DEF Request
<1>3. Typed
  BY <1>1, <1>2, FsTreeAssumption DEF Init, Typed
<1>4. PathInv
  <2> DEFINE objects == [j \in 0 .. 0 |-> RootDir]
  <2>1. 0 .. 0 = {0} /\ 1 .. 0 = {}
    OBVIOUS
  <2>2. objects \in Ways(vol, 0) /\ objects[0] = RootDir
    BY <2>1 DEF Ways
  <2> HIDE DEF objects
  <2>3. LeadsTo(vol, req.path, 0, RootDir)
    BY <2>1, <2>2 DEF Leads, LeadsTo
  <2>4. req.op = "open_path" => taken = 0 /\ current = RootDir
    BY DEF Init
  <2> QED
    BY <2>3, <2>4 DEF PathInv
<1>5. WalkInv /\ Resolution /\ RefusesOnlyAbsent /\ LocalInv /\ Keyed /\ ListingInOrder
  BY Zenon DEF Init, WalkInv, Resolution, RefusesOnlyAbsent, LocalInv, FaultsStayLocal, Keyed, ListingInOrder
<1> QED
  BY <1>3, <1>4, <1>5 DEF IInv

\* The invariant of the walk, for every volume and request.
LEMMA Invariant == Spec => []IInv
<1>1. IInv /\ [Next]_vars => IInv'
  BY TypedStep, WalkStep, PathStep, ResolutionStep, RefusalStep, LocalStep, KeyedStep, ListingStep DEF IInv
<1> QED
  BY <1>1, InitOK, PTL DEF Spec

----------------------------------------------------------------------------
\* The walk keyed to an object misses no record of it, although it enters only the
\* children whose separators can cover the object (child_may_contain_oid).
THEOREM NoRecordPruned == Spec => []WalkComplete
<1>1. IInv => WalkComplete
  BY SeenAll, Zenon DEF IInv, WalkComplete
<1> QED
  BY <1>1, Invariant, PTL

\* A listing is the directory's records, each once and in key order, whatever leaves
\* they lie in and whatever else those leaves hold (list_dir).
THEOREM ListsInOrder == Spec => []ListingInOrder
<1>1. IInv => ListingInOrder
  BY Zenon DEF IInv
<1> QED
  BY <1>1, Invariant, PTL

\* open_path ends at the object its names lead to, taken one at a time.
THEOREM PathsResolve == Spec => []PathResolution
<1>1. IInv => PathResolution
  BY ResolutionIs DEF IInv
<1> QED
  BY <1>1, Invariant, PTL

\* Of a sound and ordered volume nothing is refused but what is absent: neither the
\* visited set nor the depth cap of descend_virtual stops a walk there.
THEOREM NoFalseRefusal == Spec => []RefusesOnlyAbsent
<1>1. IInv => RefusesOnlyAbsent
  BY DEF IInv
<1> QED
  BY <1>1, Invariant, PTL

\* A node that cannot be used denies only the objects it holds or is next to, at
\* whatever level it is (child_may_contain_oid).
THEOREM FaultsAreLocal == Spec => []FaultsStayLocal
<1>1. IInv => FaultsStayLocal
  BY Zenon DEF IInv, LocalInv
<1> QED
  BY <1>1, Invariant, PTL
=============================================================================
