--------------------------- MODULE SnapshotMount ---------------------------
(***************************************************************************)
(* The point-in-time view of a volume: open_first_volume, open_snapshot    *)
(* (core/src/vfs.rs), mount_snapshot (core/src/snapshot.rs) and            *)
(* ApfsVolume's with_omap_oid and set_vek (core/src/volume.rs), over an    *)
(* image that a copy-on-write file system has left behind.  Snapshots are  *)
(* listed, and found by name, by the walk of module SnapTree; the walk is  *)
(* also called on trees of unknown origin.                                 *)
(*                                                                         *)
(* The writer is external.  Each transaction writes one object to a free   *)
(* block, takes a snapshot or deletes one.  The volume's one object map    *)
(* keeps, of each object, the newest version and the versions snapshots    *)
(* need; the blocks of the others are used again.  A frozen superblock has *)
(* no object map of its own.                                               *)
(***************************************************************************)
EXTENDS SnapTree, Functions

CONSTANTS
  Oids,       \* the volume's objects
  Blocks,     \* the blocks the writer can allocate
  TreeRoot,   \* where the root of the snapshot-metadata tree lies
  MaxXid,     \* bound on the number of transactions
  Encryption  \* whether the volume may be encrypted, may be plain

OmapBlock == 1  \* where the volume's object map lies
Nxsb == 0       \* block 0: the container superblock

ASSUME SnapshotMountAssumption ==
  /\ TreeRoot \in Nat /\ TreeRoot > 2
  /\ Blocks \subseteq 2 .. TreeRoot - 1
  /\ MaxXid \in Nat \ {0}
  /\ Encryption \subseteq BOOLEAN
  /\ MaxSnapTreeDepth > 1
  /\ None \notin 0 .. TreeRoot + 2

VARIABLES
  disk,     \* the content of a block
  omap,     \* the object map: a set of [oid, xid, paddr]
  apsb,     \* the block of the live volume superblock
  xid,      \* the last transaction
  snaps,    \* the snapshots: a set of [xid, sblock_oid, name]
  encrypted,  \* whether the volume is encrypted
  history,  \* history[x], which the code never sees: each object's content at x
  pc,       \* "writing"; where the caller is; or "found": a walk of a found tree
  bad,      \* a block the image holds damaged, or None
  want,     \* the transaction open_snapshot is asked for
  name,     \* the snapshot name the caller starts from, or NoName
  live,     \* the live ApfsVolume
  sblock_oid, \* the frozen superblock of the snapshot that was found, or None
  volume,   \* the ApfsVolume that is mounted
  oid,      \* the object that is read
  value,    \* what the read returns
  error

image == <<disk, omap, apsb, xid, snaps, history, encrypted>>
mount == <<pc, want, name, live, sblock_oid, volume, oid, value, error>>
vars == <<image, bad, mount, walkvars>>

Node(v) == [kind |-> "node", val |-> v]
Superblock(x, om) == [kind |-> "apsb", xid |-> x, omap_oid |-> om]
Volume(x, om, key) == [xid |-> x, omap_oid |-> om, vek |-> key]

ASSUME NoVolumeAssumption == \A x \in 0 .. MaxXid, key \in BOOLEAN : Volume(x, OmapBlock, key) # None

Init ==
  /\ disk = [b \in Blocks \cup {OmapBlock, Nxsb} |->
               IF b = OmapBlock THEN [kind |-> "omap"] ELSE [kind |-> "nxsb"]]
  /\ omap = {} /\ apsb = Nxsb /\ xid = 0 /\ snaps = {}
  /\ history = [x \in {0} |-> [o \in Oids |-> None]]
  /\ \/ pc = "writing" /\ encrypted \in Encryption /\ Idle
     \/ pc = "found" /\ encrypted = FALSE /\ TreeInit
  /\ bad = None /\ want = 0 /\ name = NoName
  /\ live = None /\ sblock_oid = None /\ volume = None
  /\ oid = None /\ value = None /\ error = "None"

----------------------------------------------------------------------------
\* The versions the object map keeps: the newest, and those a snapshot reads.
Needed(entries, ss) ==
  {e \in entries :
     LET later == {f \in entries : f.oid = e.oid /\ f.xid > e.xid}
     IN  \/ later = {}
         \/ \E s \in ss : e.xid <= s.xid /\ \A f \in later : f.xid > s.xid}

InUse == {e.paddr : e \in omap} \cup {s.sblock_oid : s \in snaps} \cup {apsb, OmapBlock, Nxsb}
Free == Blocks \ InUse

\* The allocator takes the lowest free blocks; any choice would be as good.
IsFree(b, n) == b \in Free /\ Cardinality({c \in Free : c < b}) = n

\* Each transaction writes a new live superblock, too.
Commit(contents, sb) ==
  /\ pc = "writing" /\ xid < MaxXid
  /\ xid' = xid + 1
  /\ apsb' = sb
  /\ history' = [x \in 0 .. xid + 1 |-> IF x <= xid THEN history[x] ELSE contents]
  /\ UNCHANGED <<encrypted, bad, mount, walkvars>>

\* The content an object gets is named for the transaction that wrote it.
WriteObject(o, p, sb) ==
  /\ IsFree(p, 0) /\ IsFree(sb, 1)
  /\ disk' = [disk EXCEPT ![p] = Node(xid + 1), ![sb] = Superblock(xid + 1, OmapBlock)]
  /\ omap' = Needed(omap \cup {[oid |-> o, xid |-> xid + 1, paddr |-> p]}, snaps)
  /\ UNCHANGED snaps
  /\ Commit([history[xid] EXCEPT ![o] = xid + 1], sb)

\* Names are unique at any one time; a deleted snapshot's name is used again.  Which
\* of the unused names it is makes no difference.
Unused == Names \ {s.name : s \in snaps}

TakeSnapshot(f, sb) ==
  /\ IsFree(f, 0) /\ IsFree(sb, 1) /\ Unused # {}
  /\ disk' = [disk EXCEPT ![f] = Superblock(xid + 1, 0), ![sb] = Superblock(xid + 1, OmapBlock)]
  /\ snaps' = snaps \cup {[xid |-> xid + 1, sblock_oid |-> f, name |-> CHOOSE n \in Unused : TRUE]}
  /\ UNCHANGED omap
  /\ Commit(history[xid], sb)

DeleteSnapshot(s, sb) ==
  /\ s \in snaps /\ IsFree(sb, 0)
  /\ disk' = [disk EXCEPT ![sb] = Superblock(xid + 1, OmapBlock)]
  /\ snaps' = snaps \ {s}
  /\ omap' = Needed(omap, snaps \ {s})
  /\ Commit(history[xid], sb)

\* The snapshot-metadata tree of the image: a leaf, and from two snapshots on the
\* metadata in one leaf and the names in another.
Metadata(s) == [type |-> "SnapMetadata", xid |-> s.xid, name |-> s.name, ref |-> s.sblock_oid]
NameRecord(s) == [type |-> "SnapName", xid |-> s.xid, name |-> s.name, ref |-> 0]
ChildEntry(o) == [type |-> "other", xid |-> 0, name |-> NoName, ref |-> o]

MetadataOf(ss) == {Metadata(s) : s \in ss}
NamesOf(ss) == {NameRecord(s) : s \in ss}

InSomeOrder(records) == CHOOSE s \in Injection(1 .. Cardinality(records), records) : TRUE

LeafAt(b, records) == [cksum |-> b # bad, level |-> 0, leaf |-> TRUE, entries |-> InSomeOrder(records)]
RootNode == [cksum |-> TRUE, level |-> 1, leaf |-> FALSE, entries |-> <<ChildEntry(1), ChildEntry(2)>>]

Tree(maps, blocks) ==
  [omap_header |-> "ok", oids |-> DOMAIN maps, paddrs |-> DOMAIN blocks,
   omap |-> [o \in DOMAIN maps |-> [error |-> "None", paddr |-> maps[o]]],
   blocks |-> blocks, snap_meta_tree_oid |-> TreeRoot, stored |-> MetadataOf(snaps) \cup NamesOf(snaps)]

SnapMetaTree ==
  IF Cardinality(snaps) < 2
  THEN Tree(<< >>, [b \in {TreeRoot} |-> LeafAt(b, MetadataOf(snaps) \cup NamesOf(snaps))])
  ELSE Tree(<<TreeRoot + 1, TreeRoot + 2>>,
            [b \in TreeRoot .. TreeRoot + 2 |->
               IF b = TreeRoot THEN RootNode
               ELSE LeafAt(b, IF b = TreeRoot + 1 THEN MetadataOf(snaps) ELSE NamesOf(snaps))])

\* The image is taken, perhaps, if it is plain, with a damaged block; some
\* transaction of it is asked for, or some name.
Acquire ==
  /\ pc = "writing" /\ xid > 0
  /\ \/ want' \in 1 .. xid + 1 /\ name' = NoName
     \/ want' = 0 /\ name' \in Names
  /\ bad' \in {None} \cup
       IF encrypted THEN {}
       ELSE {apsb, TreeRoot + 1} \cup {e.paddr : e \in omap} \cup {s.sblock_oid : s \in snaps}
  /\ pc' = "open"
  /\ UNCHANGED <<image, live, sblock_oid, volume, oid, value, error, walkvars>>

----------------------------------------------------------------------------
Failed(kind) ==
  /\ pc' = "failed"
  /\ error' = kind
  /\ UNCHANGED <<image, bad, want, name, live, sblock_oid, volume, oid, value>>

Fail(kind) == Failed(kind) /\ UNCHANGED walkvars

\* ApfsVolume::parse: type, then checksum; no key.
ParseError(b) ==
  IF disk[b].kind # "apsb" THEN "UnexpectedObjectType"
  ELSE IF b = bad THEN "ChecksumMismatch" ELSE "None"

parse(b) == Volume(disk[b].xid, disk[b].omap_oid, FALSE)

\* open_first_volume: the container leads to the live superblock.
OpenFirstVolume ==
  /\ pc = "open"
  /\ \/ Fail("Io")
     \/ ParseError(apsb) # "None" /\ Fail(ParseError(apsb))
     \/ /\ ParseError(apsb) = "None"
        /\ live' = parse(apsb)
        /\ pc' = "live"
        /\ UNCHANGED <<image, bad, want, name, sblock_oid, volume, oid, value, error, walkvars>>

\* set_vek: a caller that has the key gives it to the live volume, or to the one it
\* has mounted.
set_vek ==
  /\ encrypted
  /\ \/ /\ pc = "live" /\ ~live.vek
        /\ live' = [live EXCEPT !.vek = TRUE]
        /\ UNCHANGED volume
     \/ /\ pc = "mounted" /\ ~volume.vek
        /\ volume' = [volume EXCEPT !.vek = TRUE]
        /\ UNCHANGED live
  /\ UNCHANGED <<image, bad, pc, want, name, sblock_oid, oid, value, error, walkvars>>

\* The walk of resolve_snapshot_xid or of list_snapshots, called by Lookup, by
\* OpenSnapshot, or on a found tree.
Walk ==
  /\ pc \in {"lookup", "list", "found"}
  /\ WalkNext
  /\ UNCHANGED <<image, bad, mount>>

\* A caller that has a name resolves it on the live volume ...
Lookup ==
  /\ pc = "live" /\ want = 0
  /\ Call(SnapMetaTree, name)
  /\ pc' = "lookup"
  /\ UNCHANGED <<image, bad, want, name, live, sblock_oid, volume, oid, value, error>>

\* ... and, given an xid, opens the container again for it.
LookedUp ==
  /\ pc = "lookup" /\ Taken
  /\ \/ walk = "failed" /\ Failed(walk_error)
     \/ /\ walk = "done" /\ result = << >>
        /\ pc' = "absent"
        /\ UNCHANGED <<image, bad, want, name, live, sblock_oid, volume, oid, value, error>>
     \/ /\ walk = "done" /\ result # << >>
        /\ want' = result[1].xid
        /\ live' = None
        /\ pc' = "open"
        /\ UNCHANGED <<image, bad, name, sblock_oid, volume, oid, value, error>>

\* open_snapshot without the shortcut for the live volume.
IsLive_Never == FALSE

\* The live volume is the state at its own xid.
IsLive == want = live.xid

\* open_snapshot: the live volume, or list_snapshots.
OpenSnapshot ==
  /\ pc = "live" /\ want # 0
  /\ \/ /\ IsLive
        /\ volume' = live
        /\ pc' = "mounted"
        /\ UNCHANGED <<image, bad, want, name, live, sblock_oid, oid, value, error, walkvars>>
     \/ /\ ~IsLive
        /\ Call(SnapMetaTree, NoName)
        /\ pc' = "list"
        /\ UNCHANGED <<image, bad, want, name, live, sblock_oid, volume, oid, value, error>>

Named == {k \in DOMAIN result : result[k].xid = want}

\* The first snapshot listed at that xid, or SnapshotNotFound.
FindSnapshot ==
  /\ pc = "list" /\ Taken
  /\ \/ walk = "failed" /\ Failed(walk_error)
     \/ walk = "done" /\ Named = {} /\ Failed("SnapshotNotFound")
     \/ /\ walk = "done" /\ Named # {}
        /\ sblock_oid' = result[CHOOSE k \in Named : \A j \in Named : k <= j].ref
        /\ pc' = "mount"
        /\ UNCHANGED <<image, bad, want, name, live, volume, oid, value, error>>

with_omap_oid(v, om) == [v EXCEPT !.omap_oid = om]

\* mount_snapshot: parse the frozen superblock, take over the live object map.
MountSnapshot ==
  /\ pc = "mount"
  /\ \/ Fail("Io")
     \/ ParseError(sblock_oid) # "None" /\ Fail(ParseError(sblock_oid))
     \/ /\ ParseError(sblock_oid) = "None"
        /\ volume' = with_omap_oid(parse(sblock_oid), live.omap_oid)
        /\ pc' = "mounted"
        /\ UNCHANGED <<image, bad, want, name, live, sblock_oid, oid, value, error, walkvars>>

\* Resolution at the newest transaction.
Candidates_Newest(o) == {e \in omap : e.oid = o}

\* The versions ObjectMap::resolve chooses from (module Omap).
Candidates(o) == {e \in omap : e.oid = o /\ e.xid <= volume.xid}

\* What the checksum of a node says once it is decrypted, or not.
Verifies(b) == b # bad /\ (encrypted => volume.vek)

\* Any later navigation: through the object map at the volume's xid, decrypted
\* when a key is at hand, verified.
ReadObject(o) ==
  /\ pc = "mounted"
  /\ \/ Fail("Io")
     \/ disk[volume.omap_oid].kind # "omap" /\ Fail("UnexpectedObjectType")
     \/ /\ disk[volume.omap_oid].kind = "omap"
        /\ Candidates(o) = {}
        /\ pc' = "failed" /\ error' = "OmapUnresolved" /\ oid' = o
        /\ UNCHANGED <<image, bad, want, name, live, sblock_oid, volume, value, walkvars>>
     \/ /\ disk[volume.omap_oid].kind = "omap"
        /\ \E e \in Candidates(o) :
             /\ \A f \in Candidates(o) : f.xid <= e.xid
             /\ \/ ~Verifies(e.paddr) /\ Fail("ChecksumMismatch")
                \/ /\ Verifies(e.paddr)
                   /\ value' = disk[e.paddr]
                   /\ oid' = o
                   /\ pc' = "done"
                   /\ UNCHANGED <<image, bad, want, name, live, sblock_oid, volume, error, walkvars>>

Next ==
  \/ \E o \in Oids, p, sb \in Blocks : WriteObject(o, p, sb)
  \/ \E f, sb \in Blocks : TakeSnapshot(f, sb)
  \/ \E s \in snaps, sb \in Blocks : DeleteSnapshot(s, sb)
  \/ Acquire
  \/ OpenFirstVolume \/ set_vek \/ Lookup \/ LookedUp
  \/ OpenSnapshot \/ FindSnapshot \/ MountSnapshot
  \/ Walk
  \/ \E o \in Oids : ReadObject(o)

Spec == Init /\ [][Next]_vars

----------------------------------------------------------------------------
\* Type invariant.
TypeOK ==
  /\ \A e \in omap : e.oid \in Oids /\ e.xid \in 1 .. xid /\ e.paddr \in Blocks
  /\ apsb \in Blocks \cup {Nxsb} /\ xid \in 0 .. MaxXid
  /\ \A s \in snaps : s.xid \in 1 .. xid /\ s.sblock_oid \in Blocks /\ s.name \in Names
  /\ walk \in {"idle", "start", "enter", "loop", "done", "failed"}
  /\ Len(stack) <= MaxSnapTreeDepth
  /\ history \in [0 .. xid -> [Oids -> (1 .. xid) \cup {None}]]
  /\ live # None => live.omap_oid = OmapBlock
  /\ volume # None => volume.omap_oid = OmapBlock
  /\ value \in {None} \cup {Node(x) : x \in 1 .. xid}
  /\ error \in {"None", "Io", "SnapshotNotFound", "UnexpectedObjectType", "OmapUnresolved",
                "ChecksumMismatch", "CycleGuard"}

\* What a mounted volume yields for an object is what the object held at the
\* transaction that was asked for, although later transactions overwrote the
\* object, deleted other snapshots and used freed blocks again ("reads the volume
\* exactly as it stood at snapshot time", mount_snapshot); if a name was asked for,
\* that is the transaction of the snapshot that has the name now, whoever had it
\* before.
PointInTime ==
  pc = "done" =>
    /\ value = Node(history[want][oid])
    /\ name # NoName => \E s \in snaps : s.name = name /\ s.xid = want

\* An undamaged volume, once the volume that is read has its key, refuses only a
\* failed read, a transaction that is neither the live one nor a snapshot, and an
\* object that did not exist then; and no volume, damaged or not, denies a name
\* that a snapshot has (open_snapshot, resolve_snapshot_xid).
RefusesOnlyUnknown ==
  /\ pc = "failed" /\ bad = None /\ (encrypted /\ volume # None => volume.vek) =>
       \/ error = "Io"
       \/ error = "SnapshotNotFound" /\ want # xid /\ \A s \in snaps : s.xid # want
       \/ error = "OmapUnresolved" /\ history[want][oid] = None
  /\ pc = "absent" => \A s \in snaps : s.name # name
=============================================================================
