------------------------------- MODULE FsTree -------------------------------
(***************************************************************************)
(* The keyed walk of a volume's file-system tree and the path resolution   *)
(* built on it: walk_fs_tree, descend_virtual, child_may_contain_oid,      *)
(* list_dir, lookup_child, load_inode and open_path (core/src/dir.rs).     *)
(*                                                                         *)
(* The tree's nodes are virtual objects: each is found through the volume  *)
(* object map, decrypted when its mapping says so and a volume key is at   *)
(* hand, and verified.  The walk for one object id enters only the         *)
(* children whose separators can cover it.  descend_virtual is recursive;  *)
(* its pending calls are the frames of a stack.                            *)
(***************************************************************************)
EXTENDS Integers, Sequences, FiniteSets

CONSTANTS
  Volumes,        \* the volumes to consider
  Requests,       \* the operations to consider
  MaxFstreeDepth, \* MAX_FSTREE_DEPTH
  RootDir         \* ROOT_DIR_INO_NUM

\* A record: its key is an object id and the rest of the key, sub, which orders
\* the records of one object.  In an index node ref is the child's oid; in a
\* directory record it is the file_id.
Rec == [oid : Nat, sub : Nat, type : {"inode", "drec", "other"}, name : Nat, ref : Nat]

\* A block of the tree: cksum tells whether its plaintext verifies, cipher
\* whether the block holds ciphertext.
Node == [cksum : BOOLEAN, cipher : BOOLEAN, level : Nat, leaf : BOOLEAN, entries : Seq(Rec)]

\* What the object map resolves an oid to at the volume's xid (module Omap).
Mapping == [error : {"None", "OmapUnresolved", "ChecksumMismatch", "CycleGuard"},
            paddr : Nat, encrypted : BOOLEAN]

\* A volume.  content[o], which the code never sees, is the set of leaf records
\* that a well-formed tree stores below node o.
IsVolume(v) ==
  /\ v.omap_header \in {"ok", "UnexpectedObjectType", "ChecksumMismatch"}
  /\ v.oids \subseteq Nat /\ v.paddrs \subseteq Nat
  /\ v.omap \in [v.oids -> Mapping]
  /\ v.blocks \in [v.paddrs -> Node]
  /\ v.content \in [v.oids -> SUBSET Rec]
  /\ v.root_tree_oid \in Nat
  /\ v.vek \in BOOLEAN

\* list_dir and load_inode of an object, lookup_child of the one name of path in
\* an object, open_path of the names of path.
Request == [op : {"list_dir", "lookup_child", "load_inode", "open_path"}, oid : Nat, path : Seq(Nat)]

ASSUME FsTreeAssumption ==
  /\ \A v \in Volumes : IsVolume(v)
  /\ Requests \subseteq Request
  /\ MaxFstreeDepth \in Nat \ {0}
  /\ RootDir \in Nat

VARIABLES
  vol,      \* the volume; no step changes it
  req,      \* the operation; no step changes it
  pc,       \* "start", "enter", "loop", "done" or "failed"
  current,  \* the object the walk is keyed to
  taken,    \* path components resolved
  node,     \* the oid descend_virtual is called with
  stack,    \* its pending calls: an index node and the next entry to look at
  visited,  \* oids entered
  seen,     \* leaf records passed to the visitor
  result,   \* the records the operation returns
  error     \* the error it returns

vars == <<vol, req, pc, current, taken, node, stack, visited, seen, result, error>>

Init ==
  /\ vol \in Volumes
  /\ req \in Requests
  /\ pc = "start"
  /\ current = IF req.op = "open_path" THEN RootDir ELSE req.oid
  /\ taken = 0
  /\ node = 0
  /\ stack = << >>
  /\ visited = {}
  /\ seen = << >>
  /\ result = << >>
  /\ error = "None"

Fail(kind) ==
  /\ pc' = "failed"
  /\ error' = kind
  /\ UNCHANGED <<vol, req, current, taken, node, stack, visited, seen, result>>

----------------------------------------------------------------------------
\* A walk that keeps the visited set of the walk before.
BeginWalk_KeepsVisited ==
  /\ pc = "start"
  /\ \/ Fail("Io")
     \/ vol.omap_header # "ok" /\ Fail(vol.omap_header)
     \/ /\ vol.omap_header = "ok"
        /\ pc' = "enter"
        /\ node' = vol.root_tree_oid
        /\ seen' = << >>
        /\ UNCHANGED <<vol, req, current, taken, stack, visited, result, error>>

\* walk_fs_tree: read and parse the object map's header, call on the root.
BeginWalk ==
  /\ pc = "start"
  /\ \/ Fail("Io")
     \/ vol.omap_header # "ok" /\ Fail(vol.omap_header)
     \/ /\ vol.omap_header = "ok"
        /\ pc' = "enter"
        /\ node' = vol.root_tree_oid
        /\ visited' = {}
        /\ seen' = << >>
        /\ UNCHANGED <<vol, req, current, taken, stack, result, error>>

is_leaf(n) == n.leaf \/ n.level = 0

BlockOf(o) == vol.blocks[vol.omap[o].paddr]

\* The checksum of what the walk holds after it has decrypted, or not.
ChecksumOk(o) ==
  /\ BlockOf(o).cksum
  /\ BlockOf(o).cipher = (vol.omap[o].encrypted /\ vol.vek)

\* descend_virtual goes through these tests in this order.
Called == pc = "enter" /\ Len(stack) < MaxFstreeDepth
Fresh == Called /\ node \notin visited
Resolved == Fresh /\ node \in vol.oids /\ vol.omap[node].error = "None"
Readable == Resolved /\ vol.omap[node].paddr \in vol.paddrs
Verified == Readable /\ ChecksumOk(node)

TooDeep == pc = "enter" /\ Len(stack) >= MaxFstreeDepth /\ Fail("CycleGuard")

Revisit == Called /\ node \in visited /\ Fail("CycleGuard")

ResolveFails ==
  \/ Fresh /\ node \notin vol.oids /\ Fail("OmapUnresolved")
  \/ Fresh /\ node \in vol.oids /\ vol.omap[node].error # "None" /\ Fail(vol.omap[node].error)

\* Any read may fail; a read past the end of the image always does.
ReadFails == Fresh /\ Fail("Io")

BadChecksum == Readable /\ ~ChecksumOk(node) /\ Fail("ChecksumMismatch")

\* A leaf: its entries go to the visitor and the call returns.
VisitLeaf ==
  /\ Verified
  /\ is_leaf(BlockOf(node))
  /\ seen' = seen \o BlockOf(node).entries
  /\ visited' = visited \cup {node}
  /\ pc' = "loop"
  /\ UNCHANGED <<vol, req, current, taken, node, stack, result, error>>

EnterIndex ==
  /\ Verified
  /\ ~is_leaf(BlockOf(node))
  /\ stack' = Append(stack, [oid |-> node, next |-> 1])
  /\ visited' = visited \cup {node}
  /\ pc' = "loop"
  /\ UNCHANGED <<vol, req, current, taken, node, seen, result, error>>

\* A test that takes the next separator's object for out of reach.
child_may_contain_oid_Exclusive(s, k, target) ==
  /\ s[k].oid <= target
  /\ k < Len(s) => s[k + 1].oid > target

\* A test without the bound the next separator gives.
child_may_contain_oid_Unbounded(s, k, target) == s[k].oid <= target

\* Whether entry k of an index node can lead to records of the target.
child_may_contain_oid(s, k, target) ==
  /\ s[k].oid <= target
  /\ k < Len(s) => s[k + 1].oid >= target

\* A loop that does not advance past a pruned child.
Turn_Stuck ==
  /\ pc = "loop"
  /\ stack # << >>
  /\ LET top == stack[Len(stack)]
         s == BlockOf(top.oid).entries
         advanced == [stack EXCEPT ![Len(stack)] = [oid |-> top.oid, next |-> top.next + 1]]
     IN  \/ /\ top.next <= Len(s)
            /\ child_may_contain_oid(s, top.next, current)
            /\ node' = s[top.next].ref
            /\ stack' = advanced
            /\ pc' = "enter"
         \/ /\ top.next <= Len(s)
            /\ ~child_may_contain_oid(s, top.next, current)
            /\ UNCHANGED <<node, pc, stack>>
         \/ /\ top.next > Len(s)
            /\ stack' = SubSeq(stack, 1, Len(stack) - 1)
            /\ UNCHANGED <<node, pc>>
  /\ UNCHANGED <<vol, req, current, taken, visited, seen, result, error>>

\* One turn of an index node's loop: call on the child, pass over it, or return.
Turn ==
  /\ pc = "loop"
  /\ stack # << >>
  /\ LET top == stack[Len(stack)]
         s == BlockOf(top.oid).entries
         advanced == [stack EXCEPT ![Len(stack)] = [oid |-> top.oid, next |-> top.next + 1]]
     IN  \/ /\ top.next <= Len(s)
            /\ child_may_contain_oid(s, top.next, current)
            /\ node' = s[top.next].ref
            /\ stack' = advanced
            /\ pc' = "enter"
         \/ /\ top.next <= Len(s)
            /\ ~child_may_contain_oid(s, top.next, current)
            /\ stack' = advanced
            /\ UNCHANGED <<node, pc>>
         \/ /\ top.next > Len(s)
            /\ stack' = SubSeq(stack, 1, Len(stack) - 1)
            /\ UNCHANGED <<node, pc>>
  /\ UNCHANGED <<vol, req, current, taken, visited, seen, result, error>>

\* The walk is over when the call on the root has returned.
WalkOver == pc = "loop" /\ stack = << >>

\* The visitors' filter, and the first of the records that pass it.
Wanted(type, name) ==
  {k \in DOMAIN seen : /\ seen[k].oid = current /\ seen[k].type = type
                       /\ type = "drec" => seen[k].name = name}

\* A lookup that lets a later entry of the name replace the first.
First_Latest(S, k) == k \in S /\ \A j \in S : j <= k

First(S, k) == k \in S /\ \A j \in S : k <= j

\* A listing that keeps the neighbours a leaf also holds.
IsEntry_AnyObject(r) == r.type = "drec"

IsEntry(r) == r.oid = current /\ r.type = "drec"

Return(records) ==
  /\ pc' = "done"
  /\ result' = records
  /\ UNCHANGED <<vol, req, current, taken, node, stack, visited, seen, error>>

\* Some positions in ascending order, each once.
InOrder(order, positions) ==
  /\ \A j, k \in DOMAIN order : j < k => order[j] < order[k]
  /\ \A p \in positions : \E k \in DOMAIN order : order[k] = p

\* list_dir returns every directory record of the object, as they were seen.
ListDir ==
  /\ WalkOver /\ req.op = "list_dir"
  /\ LET hits == {k \in DOMAIN seen : IsEntry(seen[k])} IN
     \E order \in [1 .. Cardinality(hits) -> hits] :
       InOrder(order, hits) /\ Return([k \in 1 .. Cardinality(hits) |-> seen[order[k]]])

\* lookup_child returns the first entry of the name, or None.
LookupChild ==
  /\ WalkOver /\ req.op = "lookup_child"
  /\ LET hits == Wanted("drec", req.path[1]) IN
     \/ hits = {} /\ Return(<< >>)
     \/ \E k \in hits : First(hits, k) /\ Return(<<seen[k]>>)

\* open_path goes on from the entry lookup_child returns.
NextComponent ==
  /\ WalkOver /\ req.op = "open_path" /\ taken < Len(req.path)
  /\ LET hits == Wanted("drec", req.path[taken + 1]) IN
     \/ hits = {} /\ Fail("OmapUnresolved")
     \/ /\ \E k \in hits : First(hits, k) /\ current' = seen[k].ref
        /\ taken' = taken + 1
        /\ pc' = "start"
        /\ UNCHANGED <<vol, req, node, stack, visited, seen, result, error>>

\* load_inode, also the end of open_path, returns the first inode record.
LoadInode ==
  /\ WalkOver
  /\ req.op = "load_inode" \/ (req.op = "open_path" /\ taken = Len(req.path))
  /\ LET hits == Wanted("inode", 0) IN
     \/ hits = {} /\ Fail("OmapUnresolved")
     \/ \E k \in hits : First(hits, k) /\ Return(<<seen[k]>>)

Next ==
  \/ BeginWalk
  \/ TooDeep \/ Revisit \/ ResolveFails \/ ReadFails \/ BadChecksum
  \/ VisitLeaf \/ EnterIndex \/ Turn
  \/ ListDir \/ LookupChild \/ NextComponent \/ LoadInode

Spec == Init /\ [][Next]_vars

\* Each operation is one sequential call: it keeps taking steps until it returns.
FairSpec == Spec /\ WF_vars(Next)

----------------------------------------------------------------------------
KeyLess(a, b) == a.oid < b.oid \/ (a.oid = b.oid /\ a.sub < b.sub)

\* What a writer that keeps the tree ordered guarantees of node o, whether or
\* not the node can still be read: the keys ascend, the children are one level
\* down and hold records, and those below child k lie from separator k up to
\* separator k + 1.
OrderedNode(v, o) ==
  LET n == v.blocks[v.omap[o].paddr]
      s == n.entries
  IN  /\ v.omap[o].paddr \in v.paddrs
      /\ n.leaf = (n.level = 0)
      /\ n.level < MaxFstreeDepth
      /\ \A j, k \in DOMAIN s : j < k => KeyLess(s[j], s[k])
      /\ n.level = 0 => v.content[o] = {s[k] : k \in DOMAIN s}
      /\ n.level > 0 =>
           /\ \A k \in DOMAIN s : s[k].ref \in v.oids
           /\ v.content[o] = UNION {v.content[s[k].ref] : k \in DOMAIN s}
           /\ \A k \in DOMAIN s :
                /\ v.content[s[k].ref] # {}
                /\ v.blocks[v.omap[s[k].ref].paddr].level = n.level - 1
                /\ \A r \in v.content[s[k].ref] :
                     ~KeyLess(r, s[k]) /\ (k < Len(s) => KeyLess(r, s[k + 1]))

Ordered(v) ==
  /\ v.root_tree_oid \in v.oids
  /\ \A o \in v.oids : OrderedNode(v, o)

\* Nothing is damaged, and the key is at hand where it is needed.
Sound(v) ==
  /\ v.omap_header = "ok"
  /\ \A o \in v.oids : LET n == v.blocks[v.omap[o].paddr] IN
       v.omap[o].error = "None" /\ n.cksum /\ n.cipher = (v.omap[o].encrypted /\ v.vek)

Stored == vol.content[vol.root_tree_oid]

\* Type invariant.
TypeOK ==
  /\ IsVolume(vol) /\ req \in Request
  /\ pc \in {"start", "enter", "loop", "done", "failed"}
  /\ current \in Nat /\ node \in Nat
  /\ taken \in 0 .. Len(req.path)
  /\ stack \in Seq([oid : vol.oids, next : Nat \ {0}]) /\ Len(stack) <= MaxFstreeDepth
  /\ visited \subseteq vol.oids
  /\ seen \in Seq(Rec) /\ result \in Seq(Rec)
  /\ error \in {"None", "Io", "UnexpectedObjectType", "ChecksumMismatch", "CycleGuard",
                "OmapUnresolved"}

\* A walk that ends has passed the visitor every record of the object it is
\* keyed to, of all the records the tree stores, pruned children included; if a
\* node it needs is damaged it ends in an error and not in a partial answer
\* (child_may_contain_oid, and descend_virtual's error returns).
WalkComplete ==
  Ordered(vol) /\ WalkOver =>
    {r \in Stored : r.oid = current} \subseteq {seen[k] : k \in DOMAIN seen}

\* The records of a listing are those of the directory, each once and in key
\* order, although the walk passes through several leaves (list_dir).
ListingInOrder ==
  Ordered(vol) /\ pc = "done" /\ req.op = "list_dir" =>
    /\ {result[k] : k \in DOMAIN result} = {r \in Stored : r.oid = req.oid /\ r.type = "drec"}
    /\ \A j, k \in DOMAIN result : j < k => KeyLess(result[j], result[k])

\* The directory record a name stands for in a directory, of the stored ones.
EntryNamed(o, name) ==
  {r \in Stored : /\ r.oid = o /\ r.type = "drec" /\ r.name = name
                  /\ \A q \in Stored : q.oid = o /\ q.type = "drec" /\ q.name = name => ~KeyLess(q, r)}

\* The objects along a path.
Along(objects, n) ==
  /\ objects[0] = RootDir
  /\ \A j \in 1 .. n : \E r \in EntryNamed(objects[j - 1], req.path[j]) : objects[j] = r.ref

\* open_path ends at the object that following the stored directory records one
\* name at a time leads to, and returns its inode record (open_path's loop).
PathResolution ==
  Ordered(vol) /\ pc = "done" /\ req.op = "open_path" =>
    \E objects \in [0 .. Len(req.path) -> {RootDir} \cup {r.ref : r \in Stored}] :
      /\ Along(objects, Len(req.path))
      /\ result[1] \in Stored
      /\ result[1].oid = objects[Len(req.path)] /\ result[1].type = "inode"

\* In a sound and ordered volume the only refusals are a failed read and an
\* OmapUnresolved for a name or an inode that is not there: no false CycleGuard
\* and no node reached twice (the visited set of descend_virtual).
RefusesOnlyAbsent ==
  Ordered(vol) /\ Sound(vol) /\ pc = "failed" =>
    \/ error = "Io"
    \/ /\ error = "OmapUnresolved"
       /\ \/ /\ taken < Len(req.path)
             /\ EntryNamed(current, req.path[taken + 1]) = {}
          \/ {r \in Stored : r.oid = current /\ r.type = "inode"} = {}

\* No record outside node o lies between the node's records and the current object.
Beside(o) ==
  \A r \in vol.content[o], q \in Stored \ vol.content[o] :
    ~(KeyLess(r, q) /\ q.oid < current) /\ ~(KeyLess(q, r) /\ q.oid > current)

\* A damaged node, or one locked for want of the volume key, takes down only the
\* walks of the objects it holds or is next to: when one ends in an error of a
\* node, no record outside the node lies between it and the object looked for
\* (child_may_contain_oid, before descend_virtual reads and verifies the child).
FaultsStayLocal ==
  /\ Ordered(vol) /\ vol.omap_header = "ok"
  /\ pc = "failed" /\ error \in {"ChecksumMismatch", "CycleGuard"}
  => Beside(node)

\* Every operation returns, whatever the blocks hold.
Terminates == <>(pc \in {"done", "failed"})
=============================================================================
