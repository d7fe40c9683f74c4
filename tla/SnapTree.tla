------------------------------ MODULE SnapTree ------------------------------
(***************************************************************************)
(* The snapshot-metadata tree: for_each_snap_record, descend_snap,         *)
(* list_snapshots and resolve_snapshot_xid (core/src/snapshot.rs).         *)
(*                                                                         *)
(* The root is read at a physical address, every other node is a virtual   *)
(* object found through the volume object map.  The walk enters every      *)
(* child.  Its visited set holds the numbers descend_snap was called with: *)
(* the root's block number beside the children's oids.  Module             *)
(* SnapshotMount calls the two operations.                                 *)
(***************************************************************************)
EXTENDS Integers, Sequences, FiniteSets

CONSTANTS
  FoundTrees,       \* trees of unknown origin
  Names,            \* snapshot names
  NoName,           \* a name key that does not decode, or no name asked for
  MaxSnapTreeDepth, \* MAX_SNAP_TREE_DEPTH
  None              \* no tree, no block

\* A record: snapshot metadata keyed by xid, or a name keyed to an xid.  In an
\* index node ref is the child's oid.
Rec == [type : {"SnapMetadata", "SnapName", "other"}, xid : Nat, name : Names \cup {NoName}, ref : Nat]

TreeNode == [cksum : BOOLEAN, level : Nat, leaf : BOOLEAN, entries : Seq(Rec)]

Mapping == [error : {"None", "OmapUnresolved", "ChecksumMismatch", "CycleGuard"}, paddr : Nat]

\* A tree in its volume.  stored, which the code never sees, is the set of records
\* the writer put in the tree.
IsTree(v) ==
  /\ v.omap_header \in {"ok", "UnexpectedObjectType", "ChecksumMismatch"}
  /\ v.oids \subseteq Nat /\ v.paddrs \subseteq Nat
  /\ v.omap \in [v.oids -> Mapping]
  /\ v.blocks \in [v.paddrs -> TreeNode]
  /\ v.snap_meta_tree_oid \in Nat
  /\ v.stored \subseteq Rec

ASSUME SnapTreeAssumption ==
  /\ \A v \in FoundTrees : IsTree(v)
  /\ MaxSnapTreeDepth \in Nat \ {0}
  /\ NoName \notin Names

VARIABLES
  tree,     \* the tree with the object map it is read through, or None
  asked,    \* the name resolve_snapshot_xid is asked for; NoName: list_snapshots
  walk,     \* "idle", "start", "enter", "loop", "done" or "failed"
  node,     \* the number descend_snap is called with
  stack,    \* its pending calls: the block of an index node and the next child
  visited,
  seen,     \* leaf records passed to the visitor
  result,   \* the records the operation returns
  walk_error

walkvars == <<tree, asked, walk, node, stack, visited, seen, result, walk_error>>

Cleared ==
  /\ node = 0 /\ stack = << >> /\ visited = {}
  /\ seen = << >> /\ result = << >>
  /\ walk_error = "None"

Idle == tree = None /\ asked = NoName /\ walk = "idle" /\ Cleared

\* A call on a tree that was found.
TreeInit ==
  /\ tree \in FoundTrees
  /\ asked \in Names \cup {NoName}
  /\ walk = "start"
  /\ Cleared

\* A call of resolve_snapshot_xid for a name, or of list_snapshots.
Call(v, name) ==
  /\ tree' = v
  /\ asked' = name
  /\ walk' = "start"
  /\ node' = 0 /\ stack' = << >> /\ visited' = {}
  /\ seen' = << >> /\ result' = << >>
  /\ walk_error' = "None"

\* The caller has taken the answer.
Taken ==
  /\ walk \in {"done", "failed"}
  /\ tree' = None /\ asked' = NoName /\ walk' = "idle"
  /\ node' = 0 /\ stack' = << >> /\ visited' = {}
  /\ seen' = << >> /\ result' = << >>
  /\ walk_error' = "None"

WalkFails(kind) ==
  /\ walk' = "failed"
  /\ walk_error' = kind
  /\ UNCHANGED <<tree, asked, node, stack, visited, seen, result>>

----------------------------------------------------------------------------
\* for_each_snap_record: read and parse the object map's header, call on the root.
BeginWalk ==
  /\ walk = "start"
  /\ \/ WalkFails("Io")
     \/ tree.omap_header # "ok" /\ WalkFails(tree.omap_header)
     \/ /\ tree.omap_header = "ok"
        /\ walk' = "enter"
        /\ node' = tree.snap_meta_tree_oid
        /\ UNCHANGED <<tree, asked, stack, visited, seen, result, walk_error>>

is_root == stack = << >>

\* A depth test that is one too early.
Called_OneLess == walk = "enter" /\ Len(stack) < MaxSnapTreeDepth - 1

Called == walk = "enter" /\ Len(stack) < MaxSnapTreeDepth
Fresh == Called /\ node \notin visited

Unmapped == ~is_root /\ node \notin tree.oids
MapError == IF is_root \/ Unmapped THEN "None" ELSE tree.omap[node].error
paddr == IF is_root THEN node ELSE tree.omap[node].paddr

Readable == Fresh /\ ~Unmapped /\ MapError = "None" /\ paddr \in tree.paddrs

\* A walk that trusts a node without its checksum.
Verified_Always == Readable

Verified == Readable /\ tree.blocks[paddr].cksum

\* descend_snap refuses, in this order.
Refuse ==
  \/ walk = "enter" /\ ~Called /\ WalkFails("CycleGuard")
  \/ Called /\ node \in visited /\ WalkFails("CycleGuard")
  \/ Fresh /\ Unmapped /\ WalkFails("OmapUnresolved")
  \/ Fresh /\ MapError # "None" /\ WalkFails(MapError)
  \/ Fresh /\ WalkFails("Io")
  \/ Readable /\ ~Verified /\ WalkFails("ChecksumMismatch")

is_leaf(n) == n.leaf \/ n.level = 0

\* A leaf: its entries go to the visitor and the call returns.
VisitLeaf ==
  /\ Verified /\ is_leaf(tree.blocks[paddr])
  /\ seen' = seen \o tree.blocks[paddr].entries
  /\ visited' = visited \cup {node}
  /\ walk' = "loop"
  /\ UNCHANGED <<tree, asked, node, stack, result, walk_error>>

EnterIndex ==
  /\ Verified /\ ~is_leaf(tree.blocks[paddr])
  /\ stack' = Append(stack, [paddr |-> paddr, next |-> 1])
  /\ visited' = visited \cup {node}
  /\ walk' = "loop"
  /\ UNCHANGED <<tree, asked, node, seen, result, walk_error>>

\* One turn of an index node's loop: call on the next child, or return.
Turn ==
  /\ walk = "loop" /\ stack # << >>
  /\ LET top == stack[Len(stack)]
         children == tree.blocks[top.paddr].entries
     IN  \/ /\ top.next <= Len(children)
            /\ node' = children[top.next].ref
            /\ stack' = [stack EXCEPT ![Len(stack)] = [paddr |-> top.paddr, next |-> top.next + 1]]
            /\ walk' = "enter"
         \/ /\ top.next > Len(children)
            /\ stack' = SubSeq(stack, 1, Len(stack) - 1)
            /\ UNCHANGED <<node, walk>>
  /\ UNCHANGED <<tree, asked, visited, seen, result, walk_error>>

\* The walk is over when the call on the root has returned.
WalkOver == walk = "loop" /\ stack = << >>

Return(records) ==
  /\ walk' = "done"
  /\ result' = records
  /\ UNCHANGED <<tree, asked, node, stack, visited, seen, walk_error>>

IsMetadata(r) == r.type = "SnapMetadata"

\* A listing in the order of the tree.
Precedes_InTree(s, j, k) == j < k

\* The order of a listing: by xid, equal ones as the visitor got them (sort_by_key).
Precedes(s, j, k) == s[j].xid < s[k].xid \/ (s[j].xid = s[k].xid /\ j < k)

\* Where in s the snapshot metadata is, and the metadata sorted.
MetadataIn(s) == {k \in DOMAIN s : IsMetadata(s[k])}
Before(s, k) == {j \in MetadataIn(s) : Precedes(s, j, k)}
Listed(s) ==
  [n \in 1 .. Cardinality(MetadataIn(s)) |-> s[CHOOSE k \in MetadataIn(s) : Cardinality(Before(s, k)) = n - 1]]

\* list_snapshots returns the snapshot metadata, sorted.
ListSnapshots == WalkOver /\ asked = NoName /\ Return(Listed(seen))

\* A lookup that takes the metadata record of the name, too.
NameMatches_AnyType(r) == r.name = asked

NameMatches(r) == r.type = "SnapName" /\ r.name = asked

\* resolve_snapshot_xid returns the first name record that matches, or None.
ResolveName ==
  /\ WalkOver /\ asked # NoName
  /\ LET hits == {k \in DOMAIN seen : NameMatches(seen[k])} IN
     \/ hits = {} /\ Return(<< >>)
     \/ \E k \in hits : (\A j \in hits : k <= j) /\ Return(<<seen[k]>>)

WalkNext == BeginWalk \/ Refuse \/ VisitLeaf \/ EnterIndex \/ Turn \/ ListSnapshots \/ ResolveName

----------------------------------------------------------------------------
\* The nodes of a tree: the root's block, and the blocks its index entries lead
\* to, level by level.
Children(v, p) == {v.blocks[p].entries[k].ref : k \in DOMAIN v.blocks[p].entries}

\* What the writer guarantees whether or not the nodes can still be read: every block
\* but the root's is a node's, levels descend, every node has one parent, the leaves
\* hold the records, and no two of them have metadata of the same xid.
WellFormed(v) ==
  /\ v.snap_meta_tree_oid \in v.paddrs
  /\ \A p \in v.paddrs : p = v.snap_meta_tree_oid \/ \E o \in v.oids : v.omap[o].paddr = p
  /\ \A o \in v.oids : v.omap[o].paddr \in v.paddrs \ {v.snap_meta_tree_oid}
  /\ \A o, q \in v.oids : v.omap[o].paddr = v.omap[q].paddr => o = q
  /\ \A p \in v.paddrs : LET n == v.blocks[p] IN
       /\ n.leaf = (n.level = 0)
       /\ n.level < MaxSnapTreeDepth
       /\ n.level > 0 =>
            /\ Children(v, p) \subseteq v.oids
            /\ \A j, k \in DOMAIN n.entries : n.entries[j].ref = n.entries[k].ref => j = k
            /\ \A o \in Children(v, p) : v.blocks[v.omap[o].paddr].level = n.level - 1
  /\ \A p, q \in {b \in v.paddrs : v.blocks[b].level > 0} : p # q => Children(v, p) \cap Children(v, q) = {}
  /\ \A o \in v.oids : \E p \in v.paddrs : v.blocks[p].level > 0 /\ o \in Children(v, p)
  /\ v.stored = UNION {{v.blocks[p].entries[k] : k \in DOMAIN v.blocks[p].entries} :
                         p \in {b \in v.paddrs : v.blocks[b].level = 0}}
  /\ \A p, q \in {b \in v.paddrs : v.blocks[b].level = 0} :
       \A j \in DOMAIN v.blocks[p].entries, k \in DOMAIN v.blocks[q].entries :
         LET r == v.blocks[p].entries[j]
             t == v.blocks[q].entries[k]
         IN  IsMetadata(r) /\ IsMetadata(t) /\ r.xid = t.xid => p = q /\ j = k

Sound(v) ==
  /\ v.omap_header = "ok"
  /\ \A o \in v.oids : v.omap[o].error = "None"
  /\ \A p \in v.paddrs : v.blocks[p].cksum

\* A listing that returns holds every snapshot the tree stores, each once and in
\* xid order; a damaged node anywhere makes it fail and not shorten (list_snapshots).
ListsEverySnapshot ==
  walk = "done" /\ WellFormed(tree) /\ asked = NoName =>
    /\ {result[k] : k \in DOMAIN result} = {r \in tree.stored : r.type = "SnapMetadata"}
    /\ \A j, k \in DOMAIN result : j < k => result[j].xid < result[k].xid

\* A name resolves to the xid of a stored name record, and to None only when the
\* whole tree holds none, although metadata records carry names too
\* (resolve_snapshot_xid).
NameResolves ==
  walk = "done" /\ WellFormed(tree) /\ asked # NoName =>
    LET named == {r \in tree.stored : r.type = "SnapName" /\ r.name = asked}
    IN  /\ result = << >> <=> named = {}
        /\ result # << >> => result[1] \in named

\* Nothing comes from a block whose checksum does not match, whatever the links
\* between the nodes (descend_snap's checksum before trust).
NothingUnverified ==
  \A k \in DOMAIN seen :
    \E p \in tree.paddrs : /\ tree.blocks[p].cksum
                           /\ seen[k] \in {tree.blocks[p].entries[j] : j \in DOMAIN tree.blocks[p].entries}

\* In a sound tree none of whose oids is the root's block number, only a read
\* can fail.
SoundTreeIsRead ==
  /\ walk = "failed" /\ WellFormed(tree) /\ Sound(tree)
  /\ tree.snap_meta_tree_oid \notin tree.oids
  => walk_error = "Io"
=============================================================================
