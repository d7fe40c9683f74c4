-------------------------------- MODULE Omap --------------------------------
(***************************************************************************)
(* Resolving virtual object ids: ApfsContainer::volume_superblock_addrs    *)
(* (core/src/lib.rs), ObjectMap::parse and ObjectMap::resolve              *)
(* (core/src/omap.rs) and the point descent btree::find_leaf               *)
(* (core/src/btree.rs).                                                    *)
(*                                                                         *)
(* The object map is a B-tree in physical blocks.  Its leaves map keys     *)
(* (oid, xid) to block addresses; an index entry points at a child block.  *)
(* resolve(oid, xid) reads one path from the root to a leaf and keeps the  *)
(* entry of that leaf with the largest xid not above the one asked for.    *)
(*                                                                         *)
(* A node is what node_entries decodes from its block: whether its         *)
(* checksum is right, its level, its LEAF flag and its entries in order.   *)
(***************************************************************************)
EXTENDS Integers, Sequences, FiniteSets

CONSTANTS
  Images,         \* the object maps and requests to consider
  MaxBtreeDepth,  \* MAX_BTREE_DEPTH
  LastPaddr       \* the last block number whose byte offset fits in a u64

\* An entry: a key (oid, xid) and the block it points at.
Entry == [oid : Nat, xid : Nat, ptr : Nat]

Node == [cksum : BOOLEAN, level : Nat, leaf : BOOLEAN, entries : Seq(Entry)]

\* The header block at nx_omap_oid.
Header == [omap : BOOLEAN, cksum : BOOLEAN, tree_oid : Nat]

\* What volume_superblock_addrs reads: whether the live superblock's block size
\* is in range, the header, the blocks inside the image, and the oids to resolve
\* at the container's xid.  content[p], which the code never sees, is the set of
\* leaf entries that a well-formed tree stores below block p.
IsImage(m) ==
  /\ m.size_ok \in BOOLEAN
  /\ m.header \in Header
  /\ m.paddrs \subseteq 0 .. LastPaddr
  /\ m.tree \in [m.paddrs -> Node]
  /\ m.content \in [m.paddrs -> SUBSET Entry]
  /\ m.fs_oids \in Seq(Nat)
  /\ m.xid \in Nat

ASSUME OmapAssumption ==
  /\ \A m \in Images : IsImage(m)
  /\ MaxBtreeDepth \in Nat \ {0}
  /\ LastPaddr \in Nat

VARIABLES
  img,      \* the image and the request; no step changes it
  pc,       \* "start", "next", "descend", "done" or "failed"
  paddr,    \* the block the descent is at
  depth,    \* turns of find_leaf's loop taken
  visited,  \* blocks the descent has read
  addrs,    \* the addresses resolved so far
  error     \* the error returned

vars == <<img, pc, paddr, depth, visited, addrs, error>>

Init ==
  /\ img \in Images
  /\ pc = "start"
  /\ paddr = 0
  /\ depth = 0
  /\ visited = {}
  /\ addrs = << >>
  /\ error = "None"

Fail(kind) ==
  /\ pc' = "failed"
  /\ error' = kind
  /\ UNCHANGED <<img, paddr, depth, visited, addrs>>

----------------------------------------------------------------------------
\* The error ObjectMap::parse returns for a header.
HeaderError(h) ==
  IF ~h.omap THEN "UnexpectedObjectType" ELSE IF ~h.cksum THEN "ChecksumMismatch" ELSE "None"

\* volume_superblock_addrs: check the block size, read and parse the header.
OpenOmap ==
  /\ pc = "start"
  /\ \/ ~img.size_ok /\ Fail("FieldOutOfRange")
     \/ img.size_ok /\ Fail("Io")
     \/ img.size_ok /\ HeaderError(img.header) # "None" /\ Fail(HeaderError(img.header))
     \/ /\ img.size_ok /\ HeaderError(img.header) = "None"
        /\ pc' = "next"
        /\ UNCHANGED <<img, paddr, depth, visited, addrs, error>>

\* The key the next resolve looks for.
Target == [oid |-> img.fs_oids[Len(addrs) + 1], xid |-> img.xid]

\* Begin the resolve of the next oid, or return the addresses.
NextOid ==
  /\ pc = "next"
  /\ \/ /\ Len(addrs) < Len(img.fs_oids)
        /\ pc' = "descend"
        /\ paddr' = img.header.tree_oid
        /\ depth' = 0
        /\ visited' = {}
        /\ UNCHANGED <<img, addrs, error>>
     \/ /\ Len(addrs) = Len(img.fs_oids)
        /\ pc' = "done"
        /\ UNCHANGED <<img, paddr, depth, visited, addrs, error>>

\* The order of keys: by oid, then by xid.
KeyLess(a, b) == a.oid < b.oid \/ (a.oid = b.oid /\ a.xid < b.xid)

is_leaf(n) == n.leaf \/ n.level = 0

\* Entry k of an index node is the one find_leaf follows to t: the last before
\* the first key that exceeds t, or the first when that one already does.
Follows(s, k, t) ==
  \/ k = 1 /\ KeyLess(t, s[1])
  \/ /\ \A j \in 1 .. k : ~KeyLess(t, s[j])
     /\ k < Len(s) => KeyLess(t, s[k + 1])

\* A visitor that wants the xid itself.
Matches_ExactXid(s, t) == {k \in DOMAIN s : s[k].oid = t.oid /\ s[k].xid = t.xid}

\* The leaf entries resolve's visitor considers for t.
Matches(s, t) == {k \in DOMAIN s : s[k].oid = t.oid /\ s[k].xid <= t.xid}

\* A visitor that keeps the first match.
Keeps_First(s, k, t) == k \in Matches(s, t) /\ \A j \in Matches(s, t) : k <= j

\* The one it keeps: the first of largest xid.
Keeps(s, k, t) ==
  /\ k \in Matches(s, t)
  /\ \A j \in Matches(s, t) : s[j].xid < s[k].xid \/ (s[j].xid = s[k].xid /\ k <= j)

\* A loop without a visited set, and one that trusts a node before its checksum.
Fresh_Always == pc = "descend" /\ depth < MaxBtreeDepth
Verified_NoChecksum == pc = "descend" /\ depth < MaxBtreeDepth /\ paddr \notin visited /\ paddr \in img.paddrs

\* One turn of find_leaf's loop goes through these tests in this order.
InLoop == pc = "descend" /\ depth < MaxBtreeDepth
Fresh == InLoop /\ paddr \notin visited
Readable == Fresh /\ paddr \in img.paddrs
Verified == Readable /\ img.tree[paddr].cksum

TooDeep == pc = "descend" /\ depth >= MaxBtreeDepth /\ Fail("CycleGuard")

Revisit == InLoop /\ paddr \in visited /\ Fail("CycleGuard")

\* A block whose offset overflows is none: find_leaf returns, and resolve has no entry.
Overflow == Fresh /\ paddr > LastPaddr /\ Fail("OmapUnresolved")

\* Any read may fail; a read past the end of the image always does.
ReadFails == Fresh /\ paddr <= LastPaddr /\ Fail("Io")

BadChecksum == Readable /\ ~img.tree[paddr].cksum /\ Fail("ChecksumMismatch")

\* An index node without entries: find_leaf returns, and resolve has no entry.
EmptyIndex ==
  /\ Verified
  /\ ~is_leaf(img.tree[paddr])
  /\ img.tree[paddr].entries = << >>
  /\ Fail("OmapUnresolved")

Descend ==
  /\ Verified
  /\ ~is_leaf(img.tree[paddr])
  /\ LET s == img.tree[paddr].entries
     IN  \E k \in DOMAIN s : Follows(s, k, Target) /\ paddr' = s[k].ptr
  /\ depth' = depth + 1
  /\ visited' = visited \cup {paddr}
  /\ UNCHANGED <<img, pc, addrs, error>>

\* The landing leaf: resolve keeps an entry, or returns OmapUnresolved.
Land ==
  /\ Verified
  /\ is_leaf(img.tree[paddr])
  /\ LET s == img.tree[paddr].entries IN
     \/ /\ Matches(s, Target) = {}
        /\ Fail("OmapUnresolved")
     \/ /\ \E k \in DOMAIN s : Keeps(s, k, Target) /\ addrs' = Append(addrs, s[k].ptr)
        /\ pc' = "next"
        /\ UNCHANGED <<img, paddr, depth, visited, error>>

Next ==
  \/ OpenOmap \/ NextOid
  \/ TooDeep \/ Revisit \/ Overflow \/ ReadFails \/ BadChecksum
  \/ EmptyIndex \/ Descend \/ Land

Spec == Init /\ [][Next]_vars

----------------------------------------------------------------------------
\* What a writer that keeps the tree ordered guarantees of block p: the keys
\* ascend, the children are one level down, and the entries below child k lie
\* from separator k up to separator k + 1.
OrderedNode(m, p) ==
  LET n == m.tree[p]
      s == n.entries
  IN  /\ n.leaf = (n.level = 0)
      /\ n.level < MaxBtreeDepth
      /\ s # << >>
      /\ \A j, k \in DOMAIN s : j < k => KeyLess(s[j], s[k])
      /\ n.level = 0 => m.content[p] = {s[k] : k \in DOMAIN s}
      /\ n.level > 0 =>
           /\ \A k \in DOMAIN s : s[k].ptr \in m.paddrs
           /\ m.content[p] = UNION {m.content[s[k].ptr] : k \in DOMAIN s}
           /\ \A k \in DOMAIN s :
                /\ m.tree[s[k].ptr].level = n.level - 1
                /\ \A e \in m.content[s[k].ptr] :
                     ~KeyLess(e, s[k]) /\ (k < Len(s) => KeyLess(e, s[k + 1]))

Ordered(m) ==
  /\ m.header.tree_oid \in m.paddrs
  /\ \A p \in m.paddrs : OrderedNode(m, p)

\* The separators are tight: "separator key i is the smallest key of child i's
\* subtree", btree.rs:366.
Tight(m) ==
  \A p \in m.paddrs : m.tree[p].level > 0 =>
    \A k \in DOMAIN m.tree[p].entries :
      \E e \in m.content[m.tree[p].entries[k].ptr] :
        e.oid = m.tree[p].entries[k].oid /\ e.xid = m.tree[p].entries[k].xid

\* Nothing is damaged.
Sound(m) ==
  /\ m.size_ok /\ HeaderError(m.header) = "None"
  /\ \A p \in m.paddrs : m.tree[p].cksum

WellFormed(m) == Ordered(m) /\ Tight(m) /\ Sound(m)

Stored == img.content[img.header.tree_oid]

\* The states of t.oid not after t.xid in a set of entries, and the newest ones.
States(S, t) == {e \in S : e.oid = t.oid /\ e.xid <= t.xid}
Newest(S, t) == {e \in States(S, t) : \A f \in States(S, t) : f.xid <= e.xid}

\* Type invariant.
TypeOK ==
  /\ IsImage(img)
  /\ pc \in {"start", "next", "descend", "done", "failed"}
  /\ paddr \in Nat
  /\ depth \in 0 .. MaxBtreeDepth
  /\ visited \subseteq Nat
  /\ addrs \in Seq(Nat)
  /\ error \in {"None", "FieldOutOfRange", "Io", "UnexpectedObjectType", "ChecksumMismatch",
                "CycleGuard", "OmapUnresolved"}

\* In an ordered tree the address resolve returns is that of the newest state
\* not after the container's xid, of all the entries the tree stores and not
\* only those of the leaf it landed on, even where separators are loose or other
\* nodes are damaged.
ResolvesNewest ==
  Ordered(img) =>
    \A k \in DOMAIN addrs :
      \E e \in Newest(Stored, [oid |-> img.fs_oids[k], xid |-> img.xid]) : addrs[k] = e.ptr

\* In a well-formed tree the single path of find_leaf suffices: apart from a
\* failed read, the only refusal is OmapUnresolved for an oid that has no state
\* at or before the xid (no false CycleGuard, no entry missed in another leaf).
RefusesOnlyAbsent ==
  WellFormed(img) /\ pc = "failed" =>
    \/ error = "Io"
    \/ error = "OmapUnresolved" /\ States(Stored, Target) = {}

\* Whatever blocks the tree is made of, cyclic or damaged ones included, an
\* address comes from an entry of a checksum-valid leaf, for the oid asked for
\* and from no later transaction than the container's.
NeverFabricated ==
  \A k \in DOMAIN addrs :
    \E p \in img.paddrs :
      /\ img.tree[p].cksum /\ is_leaf(img.tree[p])
      /\ \E j \in DOMAIN img.tree[p].entries :
           LET e == img.tree[p].entries[j]
           IN  e.oid = img.fs_oids[k] /\ e.xid <= img.xid /\ e.ptr = addrs[k]

\* The loop reads a block it has not read before in each of its turns, so that
\* the depth cap bounds the blocks one resolve reads (find_leaf's visited set).
EveryTurnReadsANewBlock ==
  pc = "descend" => Cardinality(visited) = depth /\ depth <= MaxBtreeDepth
=============================================================================
