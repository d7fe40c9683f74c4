# A TLA+ model of apfs-forensic

`apfs-forensic` reads APFS containers. `core/` (crate `apfs-core`) is the reader:
it finds the live checkpoint, resolves object ids, walks trees, reads file data and
unlocks volumes. `forensic/` runs audits over what the reader returns. Nothing is
written to the source. This directory holds TLA+ modules of these algorithms, TLC
configurations that check them on small instances, and TLAPS proofs of the
properties that matter most. `PROJECT.json` is the machine-readable index: the
components, the runs, the source lines of every definition, the hazards and the
theorems.

Everything here is run in this directory:

    tlc -workers 4 -config MCOmap.cfg MCOmap     # one run
    tlapm FsTreeProofs.tla                       # one module of proofs

## 1. Inventory

| Part | Source | Operations | What makes it hard |
|---|---|---|---|
| Container open | `core/src/lib.rs`, `container.rs`, `checkpoint.rs` | `open`, `resolve_live_checkpoint`, `spaceman_paddr`, `reaper_paddr` | the ring holds stale, torn and abandoned checkpoints; three passes over a source that may be a device in use |
| Object map | `omap.rs`, `btree.rs` (`find_leaf`), `lib.rs` (`volume_superblock_addrs`) | `ObjectMap::parse`, `resolve` | one path must suffice for a floor search; cyclic or damaged nodes |
| B-tree nodes | `btree.rs` (`parse_node_header`, `node_entries`) | decoding a node | keys grow up and values down, in any order; a malformed entry must not distort the others |
| Volume superblock | `volume.rs` | `parse`, `set_vek`, `with_omap_oid` | a snapshot's superblock borrows the live object map |
| File-system tree | `dir.rs`, `fsrecord.rs`, `inode.rs` | `list_dir`, `lookup_child`, `load_inode`, `open_path` | pruning must not lose records; failures must not look like absence; a locked volume |
| Inode values | `inode.rs`, `fsrecord.rs` | `Inode::parse`, `parse_xfields` | fields of any length before the one that holds the size; values cut short |
| File data | `extent.rs`, `xattr.rs` | `read_data`, `list_extents`, `read_stream`, `get_xattr`, `resource_fork`, `symlink_target` | holes, tails, unordered extents, whole-sector decryption, tweaks |
| Compression | `compression.rs` | `read_compressed`, `decompress_decmpfs` | two fork layouts, unused slots, partial decodes |
| Space manager | `spaceman.rs` | `is_block_free`, `free_block_runs` | short last chunks, short bitmaps, runs across chunks, two operations that must agree |
| Snapshots | `snapshot.rs` | `list_snapshots`, `resolve_snapshot_xid`, `mount_snapshot` | physical root and virtual children; old state through a newer object map |
| Keybags | `encryption.rs` | `unlock_volume`, `read_keybag` | two keybags, several volumes and passwords, four unwraps in a row |
| VFS adapter | `vfs.rs` | `open*`, the `FileSystem` methods | threads share one seekable reader behind a mutex; panics; streams named by position and read in windows |
| Reaper | `reaper.rs` | `pending_objects` | a chain of lists that may loop |
| Audits | `forensic/src/*.rs` | `audit_container`, `audit_volume`, the audits | early returns, one failing part of several |
| Leaves | `object.rs`, `bytes.rs`, `fusion.rs`, `sealed.rs` | checksums, field readers | none of their own |

How they interact: `open` fixes the live superblock and its ephemeral mappings. The
superblock names the container's object map, through which volume superblocks are
found; a volume names its own object map, through which every node of its
file-system tree and snapshot tree is found. File data comes from extent records of
that tree. A snapshot replaces the volume's superblock and keeps the object map. An
unlocked volume decrypts nodes and extents with its key. The VFS adapter serializes
all of this behind one lock per mount. The audits call the same operations.

No part has state that outlives a call except the open container (immutable once
open), a volume's key, and the adapter's reader and mutex. The hazards are therefore
of four kinds: what the *image* may hold (the result of a crash, a copy-on-write
writer or damage), loops over untrusted links, boundaries, and, in the adapter, real
concurrency.

## 2. Modules

| Module | Models | Its state and actions |
|---|---|---|
| `Checkpoint` | `ApfsContainer::open` over `resolve_live_checkpoint` | the reader's position, the best candidate, the mappings; one action per slot of each of the two passes, then the re-read. Any read may fail. |
| `CheckpointRing` | the same beside the writer of the ring | external writer: transactions of 1 to `MaxMaps` map blocks and a superblock, each block written in two steps; crash and restart anywhere; the image is taken then, or the source stays `attached` |
| `Omap` | `volume_superblock_addrs`, `ObjectMap::parse`, `resolve`, `find_leaf` | one action per turn of the descent and per early return; `depth` and `visited` are the code's guards |
| `OmapStore` | what an object map promises: an atomic lookup of the newest entry not after an xid | abstract |
| `OmapRefinement` | `Omap` implements `OmapStore` | the refinement mapping |
| `FsTree` | the four directory operations over `walk_fs_tree`, `descend_virtual`, `child_may_contain_oid` | the recursion as an explicit stack; one action per turn of the child loop and per early return |
| `NodeEntries` | `parse_node_header`, `node_entries` | the node's header and units, the loop's index and the entries found; one action per turn. An external writer puts records anywhere in the free space, and may leave one malformed table entry or a count that is too large |
| `SnapTree` | `list_snapshots`, `resolve_snapshot_xid` over `descend_snap` | as `FsTree`, with a physical root |
| `SnapshotMount` | `open_first_volume`, `open_snapshot`, `mount_snapshot`, `set_vek`, `with_omap_oid` | EXTENDS `SnapTree`: the walk that lists the snapshots is part of the mount. The reader's steps, beside an external copy-on-write writer that takes and deletes named snapshots and uses freed blocks and names again |
| `Spaceman` | `is_block_free`, `free_block_runs`, `push_free_run` | one action per CIB, per chunk and per bit |
| `Stream` | `list_extents`, `read_stream` | one action per extent |
| `Decmpfs` | `decompress_decmpfs` | one action per block or chunk |
| `XFields` | `Inode::parse`, `parse_xfields` | the loop over the extended fields, one action per field; lengths and offsets in bytes, with the code's constants |
| `FileData` | `load_inode`, `read_data`, `read_compressed`, the attributes | composes `XFields` (the size), `Stream` (the extents), both by EXTENDS, and `Decmpfs` (INSTANCE with the decoder's variables): the fork that one yields is what the other decodes |
| `DataStreams` | `data_streams`, `read_at`, `read_xattr_at` | EXTENDS `FileData`: a caller lists the streams, picks one and reads it window by window, each call a whole read below |
| `Keybag` | `unlock_volume`, `read_keybag` | one action per keybag entry and per unwrap |
| `Vfs` | `ApfsFs` and its methods | one step per lock, seek, read and return of each worker; reads fail or panic |
| `Audit` | `audit_container`, `audit_volume`, integrity, snapshot and reaper audits, `pending_objects` | one action per volume, name and reap list; the anomalies found are a set |
| `CheckpointProofs` | theorems about `Checkpoint` and `CheckpointRing` | |
| `ReaderProofs` | theorems about the reader: `Vfs`, `Omap`, and the refinement of `OmapStore` | |
| `FsTreeProofs` | theorems about `FsTree` | |
| `BlockProofs` | theorems about what single blocks hold: `NodeEntries` and `Spaceman` | |
| `SnapTreeProofs`, `SnapshotProofs` | the walk of the snapshot tree; theorems about `SnapTree` and `SnapshotMount` | |
| `DataProofs` | theorems about file data: `Stream` and `XFields`, below `DataStreams` | |
| `ForensicProofs` | theorems about keys and audits: `Keybag` and `Audit` | |
| `MC*` | | the instances TLC checks |

Conventions. A static input (the image, the ring, the file) is a variable no step
changes, chosen in `Init`, so that one run covers a whole set of images. What the
writer knows and the code does not (`content`, `stored`, `history`, `contents`) is a
field or variable that only properties read. An operator named `Name_Variant` is a
plausible mistake in the code that `Name` models; the mutation runs put it in
`Name`'s place, and the property that is to catch it must fail. A module's type
invariant gives the range of its variables; it is proved for `Checkpoint`, `Omap` and
`NodeEntries`, and elsewhere describes the state. Modules that one module of proofs
extends together have names that do not clash (`NodeSpec`, `VfsSpec`).

## 3. What is abstracted

- A checksum is a Boolean of the block. Fletcher-64 is not computed, and a damaged
  block is taken to be noticed by it.
- In the modules that walk trees a B-tree node is the sequence of its entries.
  `NodeEntries` shows that `node_entries` yields them. There a unit of a node is a
  `u16`, what a key or value holds is opaque, and header, footer and fixed sizes are
  constants. Every length is a whole number of units.
- The value of an inode is its length and, per extended field, the offset at which
  its value starts; what is read at any other offset is the number 1, which no field
  holds. The fixed part of 92 bytes is not decoded.
- A stream id is a position up to `MaxStreamId`, which is 65535 in the code.
- Encryption is symbolic: a block says which tweak it was encrypted under, and is
  clear after decryption with that tweak and noise otherwise; AES-KW opens only with
  the key that wrapped; a keybag decrypted under another UUID is noise; PBKDF2 is
  injective. The BER framing of a key object is one of fits, misfits and too short.
- The codecs are symbolic: a compressed piece is one cell that unpacks to its bytes.
  LZVN stops at the wanted length, zlib ignores what follows, LZFSE does not. A
  cell that is no field reads as the number 0.
- A read may fail at any point with `Io`; a read past the image always does
  (`UnexpectedEof`, told apart in `Stream`).
- Names, times and identifiers are small numbers or model values.
- Images do not change while they are read, except an `attached` source of
  `CheckpointRing`. Transaction ids are never used twice by a writer.

## 4. Runs and what they show

All runs pass except the last three, which are claims of the documentation that the
code does not keep. `blocks` and `forensic` each hold two modules that do not
interact: a behaviour is one of the first or one of the second, and the variables of
the other do not change. States are distinct states; times are of four workers.

| Run | Configuration | States | Shows |
|---|---|---|---|
| `open_any_ring` | `MCCheckpoint` | 663 141, 14 s | over *every* ring of three slots, each holding a live, stale, torn, mistyped, truncated or foreign block: `LiveIsNewest` (the first of the newest valid superblocks), `MappingsAreLive` (its maps, all and only), `RefusalHasAReason` |
| `open_after_crash` | `MCCheckpointRing` | 1 494 378, 10 s | with a writer that wraps, tears and resumes: `OpensLastCommitted`, `SpacemanOfCommitted`; on an attached device `RereadIsVerified`: what `open` keeps passed its checks again and is no older than what it chose |
| `resolve` | `MCOmap` | 223 319, 15 s | `ImplementsStore` and `ResolvesNewest` on ordered trees, tight and loose separators; `NeverFabricated` and `EveryTurnReadsANewBlock` on arbitrary graphs |
| `fs_tree` | `MCFsTree` | 776 567, 31 s | `WalkComplete`, `ListingInOrder`, `PathResolution`, `RefusesOnlyAbsent` on trees; `FaultsStayLocal`: a damaged or locked node denies only the objects it holds or is next to; `Terminates` on trees and arbitrary graphs |
| `blocks` | `MCBlocks` | 1 497 829, 99 s | `EntriesAsWritten`: wherever the records lie, a sound node gives each with its key and value, in the order of the table, and what a malformed node gives is as written too; `RunsAreTheFreeBlocks` (exact, ascending, maximal, with bitmaps that are too short as well), `QueryAgrees` (the query says what the bitmaps say of every block that has a bit, and refuses only blocks outside or damage) |
| `snapshots` | `MCSnapshotMount` | 435 203, 80 s | `PointInTime`: a mount, by xid or by name, reads what each object held at the transaction, after any later history; `RefusesOnlyUnknown`, `NameResolves`; `ListsEverySnapshot`, `SoundTreeIsRead`, `NothingUnverified` on trees the writer left and on any others |
| `shared_reader` | `MCVfs` | 452 305, 28 s | `LockHeldInside`, `ReadsAreOwn`, `PoisonIsFinal`, `EveryCallReturns` |
| `file_data` | `MCFileData` | 427 400, 60 s | `StreamIsExact`, `RefusesOnlyDamage`; `RoundTrip`: what a compressor wrote, in any layout, the fork in an attribute or scattered and encrypted, is read back; `FieldsAsWritten`: the size and the name of an inode, or none if its value is cut before them; `WindowsAreTheStream`: data and attributes read through a buffer of any length are whole |
| `forensic` | `MCForensic` | 172 941, 9 s | `KeyIsTheVolumes`, `PasswordUnlocks`, `StateIsObserved`; `DisorderIsNoticed`, `QueueIsReported`, `Terminates` |
| `malformed_node_claim` | `MCNodeEntriesMalformed` | violation | a node with a malformed entry gives its other records, and not an empty vector (section 7) |
| `second_password_claim` | `MCKeybagPasswords` | violation | a right password that is not the first KEK's is refused (section 7) |
| `swallowed_volume_claim` | `MCAuditVolumes` | violation | a volume that does not parse is left out of the audit without an error (section 7) |

### Bounds, and why they are enough

- `open_any_ring`: three slots are the least ring in which a superblock can lie
  before, between and after others; every slot ranges over blocks with three xids, both magics, both checksum outcomes, and maps below and
  above `MaxCpmCount`. All rings are covered, so no writer is assumed.
- `open_after_crash`: six slots and checkpoints of one to three blocks make every
  phase of a wrap possible; six transactions let a checkpoint be begun, torn,
  abandoned and overwritten, twice.
- `resolve`, `fs_tree`, `snapshots`: three levels (`Max…Depth = 3`) are the
  least with an index node below the root; two versions below and above a target, an
  object whose records span a separator, and names in several leaves occur. Graphs
  of three nodes have every cycle of length one to three; a chain goes over the cap.
  `LastPaddr` is the last block number whose byte offset fits a `u64`; one image
  links to the number after it.
- `blocks`, free space: five blocks in chunks of one or two, CIBs of one or two chunks: last
  chunk and last CIB short or full, chunks without a bitmap, runs over two
  boundaries; bitmaps with fewer bits than their chunk has blocks; devices whose counts
  contradict each other.
- `snapshots`: two objects, five transactions and seven blocks force reuse of freed
  blocks; three names, out of the order of their xids, one given again to a later
  snapshot. The objects are symmetric: nothing but equality is asked of them.
- `blocks`, nodes: three records of one or two units in seven or eight units, so that
  records touch, leave gaps and lie in another order than the table; every kind of
  node, tables with room to spare and without. The theorem covers all sizes.
- `shared_reader`: two workers, two mounts, two calls each; the methods are the one
  with the most varied plan and the one that may return before the lock. The
  theorems cover any number of workers, mounts and methods.
- `file_data`: blocks of two bytes, two extents, sizes up to five: every overlap, a
  tail within a sector, a tweak that is not the extent's first; contents of up to
  three chunks and up to two unused slots. Inodes of up to three fields, one of odd
  length, cut at every byte. Up to four attributes with ids up to 2, so that ids
  saturate; buffers that divide a stream, do not, and exceed it.
- `forensic`, keys: two volumes in one container, every entry of two keybags replaced
  by any other kind; a volume with two passwords; counts short of and above the cap.
- `forensic`, audits: any three mappings, up to three snapshots with any creation times, any
  graph of three reap lists above a cap of two, with blocks that fail their checksum.

### Fairness

`FsTree` and `Audit`: `WF(Next)`, because an operation is one sequential call that
nothing but its own reads can hold up. `Vfs`: `WF` of each worker's step and
finitely many calls, because threads are scheduled and `std::sync::Mutex` promises
neither order nor fairness: with endless calls of others a waiting thread may
starve, which the model would show and the code does not exclude. The other modules
state safety only. A run that ends may stop, hence `CHECK_DEADLOCK FALSE`.

## 5. What is proved

Constants are arbitrary apart from the assumptions stated beside their declaration,
which TLC evaluates in every run. Most say that sizes and caps are natural numbers,
that images, volumes, devices, trees, keybags, files and containers are of the form
`IsImage`, `IsVolume`, `IsDevice`, `IsTree`, `IsBag`, `IsFile` or `IsContainer`, and
that a null value is none of the others. Three say more. `RingAssumption`: the ring
has room for two of the largest checkpoints, and a map may list at least one object;
without the first a writer would overwrite the checkpoint it still needs.
`StreamAssumption`: the bytes of the image can be counted in a `u64`.
`SnapshotMountAssumption`: the blocks of the snapshot tree lie behind those the
writer allocates otherwise, and the depth cap of a snapshot walk is more than 1, because
the writer's tree has two levels. It is 64 in the code
(`snapshot.rs:52`).

**`CheckpointProofs`**: `TypeCorrect`, `OpensNewest` (`LiveIsNewest`),
`CollectsLive` (`MappingsAreLive`), for every ring of every size. The two properties
speak of an open container only, so neither is inductive. `IInv` says what each pass
has established so far: `BestOf(i)`, the candidate is the first of the newest valid
superblocks among the first `i` slots, and `CollectedFrom(i)`, the mappings are
those of the live maps among the first `i`. `ScanKeepsBest` and
`CollectKeepsMappings` extend them by one slot. `RefusesForAReason`
(`RefusalHasAReason`) adds what the scan counts: the slots that could be read.

With the writer (`CheckpointRing`): `OpensCommitted` (`OpensLastCommitted`),
`FindsSpaceman` (`SpacemanOfCommitted`) and `RereadsVerified` (`RereadIsVerified`),
for every size of ring and checkpoint and every history of commits, torn blocks and
crashes. `WriterInv` holds between any two block writes: the committed checkpoint
lies whole in the slots before `committed.next` (`CheckpointAt`), no valid superblock
is newer than it, what the ring shows of its transaction is its own maps
(`OnlyMaps`), and the transaction being written starts behind it and ends before it
comes round to it (`Writing`; `Places` is the arithmetic modulo the ring). An image
that was taken adds the reader's `IInv` of the ring as it was then; together they
make the newest valid superblock the committed one. On an attached device the passes
see different rings, and what remains is that the slot chosen never gets older
(`RereadInv`).

**`ReaderProofs`**, the object map: `TypeCorrect`, `FloorResolved` (`ResolvesNewest`),
`NoFalseRefusal` (`RefusesOnlyAbsent`), `NothingInvented` (`NeverFabricated`) and
`Refinement` (`Spec => ImplementsStore`), for every image and depth cap. The
inductive invariant follows the descent: `Narrowed`, every entry of the tree outside
the current subtree and not above the target is below the whole subtree, and
`HoldsFloor`, the subtree holds an entry not above the target if the tree does.
`FollowedChild` and `FollowedChildHolds` show that the separator search keeps them,
`LandsOnFloor` that at a leaf they make the leaf's floor the tree's floor,
`MissMeansAbsent` that a miss in the leaf is an absence in the tree. Levels that
fall with the depth exclude a false `CycleGuard`. `NewBlockEveryTurn`
(`EveryTurnReadsANewBlock`) counts: as many blocks are visited as turns were made
(`TurnInv`), whatever the graph. Well-formedness (ordered nodes,
tight separators, valid checksums) is a hypothesis about the writer, inside the
properties. Separators are tight where each is the smallest key of its child, which
`find_leaf` counts on (`btree.rs:371-372`). With loose ones an address that is found
is still the newest (`ResolvesNewest` does not ask for tight ones), but an object may
be missed.

**`FsTreeProofs`**: `NoRecordPruned` (`WalkComplete`), `PathsResolve`
(`PathResolution`), `NoFalseRefusal` (`RefusesOnlyAbsent`) and `FaultsAreLocal`
(`FaultsStayLocal`), for every volume, request and depth cap. The walk is a
recursion with a stack, so the invariant speaks of what is *ahead*: the subtree about
to be entered and, in every pending call, the children from the next one on.
`FramesOK`: each pending call is a level below the one above it, and everything below
it comes before what the calls above have ahead. `Behind`: what has been seen, and
what lies below nodes that were left, comes before everything ahead. `Kept`: a record
of the object is seen or ahead. `AtLeaf`, `AtIndex`, `Calls`, `Passes` and `Returns`
keep them, one per kind of step; `PrunedChild` is where the separators come in.
`FirstVisit` follows: a node met twice would hold a record that comes before itself,
so on an ordered tree the visited set stops no walk. `PathInv` says that the names
taken so far lead to the current object, and `OneFurther` adds one. `ListsInOrder`
(`ListingInOrder`) follows from `Kept` at the end and from the order of what was seen,
which the filter of `list_dir` keeps. Ordered trees are
a hypothesis about the writer, inside the properties; `FaultsAreLocal` needs only
the order, not sound nodes: `LocalInv`, every node a walk is in or about to enter
passed the test of its separators, and so no record lies between it and the object.

**`BlockProofs`**, nodes: `RecordsComeOut` (`EntriesAsWritten`), for every size of a
block, header, footer, table, key and value and any number of records, in sound nodes
(`SoundNode`) and in malformed ones. `NodeInv` has three
parts beside the types. `Layout`: the records' table entries fit the table, and
their keys and values lie in the free space without sharing a unit, which the
writer's guard keeps. `OnDisk`: once the node is written, the table says what the
records say, except at a malformed entry, and each key and value unit is the piece it
should be. `Progress`: the entries found are those of the turns so far. The work is
in `TableUnits` (division and remainder by the length of a table entry find the
entry again), `WrittenKey` and `WrittenVal` (no unit belongs to two records, or to a
record and the table), and `RecordRead` (from the right fields the loop computes the
right slices, counted from the end of the node or from the footer). `EndOK` shows
that the test against the end of the table never ends the loop before the last
record.

**`BlockProofs`**, free space: `FreeSpaceIsExact` (`RunsAreTheFreeBlocks`) and `QueriesAgree`
(`QueryAgrees`), for every number of blocks, blocks per chunk, chunks per CIB and bits
per bitmap, also for bitmaps shorter than their chunk, whose missing bits are listed
as allocated and are outside the agreement. `Swept(F, rs, p)` says that the runs `rs` are exactly the blocks of `F`
below `p`, with gaps between them; `Skip` and `PushNext` are the two ways it advances,
and the second is where `push_free_run` merges. The invariant puts `p` at the CIB, the
chunk, or the first bit of the run being read. That the places fit together is
arithmetic on products: `CibEnds` and `AtEnd` (a CIB ends where the next begins, or
past the device), `AtChunk` (so does a chunk), `OneChunk` (a block has one chunk, so
its bit decides) and `PlaceOf` (the divisions of `is_block_free` find that chunk).
`Consistent`, the geometry a space manager has, is a hypothesis inside the properties;
it makes every chunk that a CIB lists lie in the device.

**`SnapTreeProofs`, `SnapshotProofs`**: `ListingIsComplete` (`ListsEverySnapshot`),
`NamesResolve` (`NameResolves`), `SoundTreesAreRead` (`SoundTreeIsRead`),
`OnlyVerifiedRecords` (`NothingUnverified`), `ReadsThePast` (`PointInTime`) and
`KnownIsNotRefused` (`RefusesOnlyUnknown`), for every tree, any number of objects,
blocks, names and transactions, and every history of the writer. The invariant has
three parts. `WalkInv` is the walk's. Unlike `descend_virtual` it prunes nothing, so
it is counted by the visited set instead of an order: the children of an entered node
that are visited are exactly those already called (`ChildrenCalled`), everything
visited has an entered parent (`ParentsEntered`), and the leaves entered have been
passed on (`LeavesRead`). A walk that ends has therefore entered what is reachable.
The last step to "every node" has no induction over the tree: of the nodes not
entered, one of the highest level would have an entered parent (`GreatestElement`).
`ImageInv` is the writer's: blocks in use hold what the maps say (`OnDisk`), and for
the current transaction and each snapshot the object map still answers what the
objects held then (`AnswersAt`), which is what the rule for freeing blocks and
versions is for. `MountInv` is the caller's: what it holds at each step is the
superblock of the transaction it asked for. The walk over the tree the writer leaves
connects them.

**`ReaderProofs`**, the shared reader: `LockDiscipline` (`LockHeldInside`) and
`OwnReads` (`ReadsAreOwn`), for any number of workers, mounts and calls.
`ReadsAreOwn` needs that between a worker's seek and its read the cursor stands where
the worker left it (`ProgressInv`), which holds because the lock is held exactly
inside (`lock[m] = w <=> Inside(w, m)`): the two are proved together.
`PoisonedStaysUnused` (`PoisonIsFinal`) is an action property: it rests on
`PoisonedIsFree`, that no worker is inside a poisoned mount.

**`DataProofs`**: `StreamsAreExact` (`StreamIsExact`), `OnlyDamageIsRefused`
(`RefusesOnlyDamage`) and `FieldsAreAsWritten` (`FieldsAsWritten`), for files of any
number of extents and inodes of any number of fields, as steps of the whole adapter.
`LoopInv`: the buffer holds the extents copied so far and zeros elsewhere
(`Filled`); extents that do not overlap cannot undo each other, in whatever order
they are. The arithmetic is in the last block, which is read whole and cut, and in
the tweak of a block in the middle of an extent. For the fields the invariant is that
`value_off` is where the writer put the next field, and what was found so far are
the fields that end before the cut.

**`ForensicProofs`**, keys: `OnlyTheVolumesKey` (`KeyIsTheVolumes`), for keybags of
any length with any entries. The property speaks of the result; the invariant says
where the two wrapped keys on the way come from: `IsVolumeKey`, the one from the
container's keybag is stored under the volume's UUID, and `IsKekOf`, the other comes
from a keybag encrypted under that UUID, wherever the extent led.
`RightPasswordUnlocks` (`PasswordUnlocks`) is the converse on well-written keybags, for
the password of the volume's first KEK (`FirstPassword`), whatever follows it:
`Progress(E, R)` says of a record of the volume that it has been found if it is
behind the scan, and `KekProgress` that it was the first of its kind. `AuditSeesAll` (`StateIsObserved`): after `k` entries the
tags are those of the first `k`, and there is one anomaly per unknown one.

**`ForensicProofs`**, audits: `DisorderNeverMissed` (`DisorderIsNoticed`) and
`QueueFullyReported` (`QueueIsReported`), for any number of volumes, snapshots and
reap lists. The first needs that comparing neighbours suffices
(`DisorderOfNeighbours`): of all pairs that are out of order between two given
snapshots take one with the fewest snapshots between; if there were one, it would
make a narrower pair with one of the two (`Narrower`). For the second, the lists to
report are the least set that is closed under "next" (`Chained`), and `ChainInv` says
that the lists visited lie in every closed set and are closed but for the next one.

What the proofs found. Some hypotheses of properties were left to the sets that TLC
enumerates, and did not imply the property for every value of the constants. They are
now stated: extents of a well-written stream are not empty (`WellWritten`), and tweaks
are `u64` (`HasStreams`); the fields of an inode are not empty, follow the table, and
follow each other at multiples of 8 bytes (`LaidOut`, where that each field ends before
every later one is stated as well, because to derive it from the steps is an induction
over data); every block of a well-formed snapshot tree but the root's is mapped, and no
two records hold metadata of the same xid (`WellFormed`). And 0 ends a chain of reap
lists even if an object is mapped under 0, which the first definition of the queue
overlooked (`Closed`, `Chained`).

Only model-checked:

- Liveness (`Terminates`, `EveryCallReturns`): the prover has no support for it.
- `RoundTrip`: the compressor whose output is read back is a definition of
  `MCFileData`, one layout after the other; that the decoder inverts it for contents
  of any length is an induction over the contents.
- `WindowsAreTheStream`: it compares several calls, each a whole read below, and would
  need that two reads of one file give the same bytes, step by step through the inode
  parser and the decoder.

## 6. What is not modelled

- Fletcher-64, the little-endian readers, the fixed part of an inode, `decode_jkey`:
  decoding without control beyond bounds checks.
- `node_entries` on a block shorter than a node header, which no caller passes.
- The arithmetic of AES-XTS, and the scaling of tweaks to 512-byte sectors.
- `for_each_leaf_entry` and `descend` of `btree.rs`, used by tests only.
- The timestamp, seal and clone audits (one comparison each, or no input yet); the
  tables of anomaly codes, severities and notes.
- `sealed.rs` of the core (fields only), the `unlock_check` example, fuzz targets.
- The conversion of metadata in `vfs.rs`.

## 7. Where the code and its documents disagree

The runs `swallowed_volume_claim`, `malformed_node_claim` and `second_password_claim`
show the first three. The others were met while the definitions named here were
written; they follow from the quoted lines, and no passing property claims what the
code does there.

| Code | Document | In the model |
|---|---|---|
| `forensic/src/lib.rs:303` skips a volume that does not parse | `lib.rs:288-289`: a failure is "never swallowed into an empty result" | `Audit!ReadVolume`; `EveryVolumeIsAudited` fails |
| `btree.rs:212` ends at the end of the table, `btree.rs:239-246` passes over an entry that lies outside the node; the entries before and after are returned | `btree.rs:167-169`: "Returns an empty vector on a malformed node" | `NodeEntries!Turn`, `End`; `MalformedIsEmpty` fails |
| `encryption.rs:737` returns the first KEK, and no other is tried | `encryption.rs:543-545`: an error "if the password is wrong" | `Keybag!ScanKek`; `EveryPasswordUnlocks` fails, `PasswordUnlocks` speaks of the first KEK's password |
| `core/src/checkpoint.rs:74-82` checks only block 0's block size | `lib.rs:284-285`: "the live superblock is always in range here" | `Checkpoint`: the test reads `zero`, not the re-read block |
| `spaceman.rs:149-151` answers "free" for a block whose bit lies past the bitmap | `spaceman.rs:162-163, 218-219`: such bytes are "fully allocated", and the listing is "the inverse predicate" | `Spaceman!Allocated`; `RunsAreTheFreeBlocks` covers the listing, `QueryAgrees` speaks of bitmaps with a bit for each block of a chunk |
| `snapshot.rs:246` keeps the root's block number and the children's oids in one set | `snapshot.rs:103-106`: `CycleGuard` "on a structurally invalid tree" | `SnapTree!Fresh`; `SoundTreeIsRead` excludes the collision |
| `snapshot.rs:180` does not hand the key to the snapshot | `volume.rs:211-213`, `snapshot.rs:161-163`: "decrypted transparently", "exactly as it stood" | `SnapshotMount!with_omap_oid`; `RefusesOnlyUnknown` speaks of volumes that are plain or have been given the key again |
| `vfs.rs:464` gives the 65536th attribute and all later ones the same id | `vfs.rs:422-423`: "the index in [`StreamId::Xattr`] is that position" | `DataStreams!StreamIdOf`; `WindowsAreTheStream` speaks of ids that fit |
| `vfs.rs:204-212` drops the xid of a file id | `vfs.rs:54-55`: "a reused oid at a different xid is never confused" | `Vfs!Plans` |
| `xattr.rs:166` returns `None` for a decmpfs attribute in stream form, so the raw extents are read | `xattr.rs:163-164`: "which the decoder then rejects loudly" | `FileData!IsCompressed` |
| `extent.rs:136-143` checks the byte offset for overflow only | `extent.rs:104-105, 135`: `FieldOutOfRange` for a block beyond the image | `Stream!byte_off`, `InImage`: the error is `UnexpectedEof` |
| `encryption.rs:394` takes the keybag from block 0 | `encryption.rs:354-356`: the newest superblock is "not needed to reach the keybag" | `Keybag!DecryptContainerKeybag` |
| `forensic/src/crypto.rs:41` keeps the low byte of a `u16` tag | `crypto.rs:24-26`: "carrying its raw value" | `Keybag!raw_tag` |
| `forensic/src/snapshots.rs:24-27` starts from metadata records | `lib.rs:71-72`: "(or vice-versa)" | `Audit!CheckName` |
| `forensic/src/snapshots.rs:47` compares neighbours | `snapshots.rs:41-42`: "a later xid that predates an earlier one's creation" | `Audit!IsWindow`; `DisorderIsNoticed` claims one lead per disordered volume |

## 8. Plan

Done: the modules of section 2 in the order open, object map, file-system tree, space
manager, snapshots, adapter, file data, keybags, audits; then the layout of nodes,
inode values and data streams, snapshots found by name through the tree the writer
left; the modules of proofs, last those of the ring's writer, the snapshots, the data
and the audits.

Next, in this order:

1. A proof of `WindowsAreTheStream`, from an invariant that fixes the outcome of a read
   by the file alone.
2. Block 0 verified over 4096 bytes only (`lib.rs:175-189`), and audits with a block
   size other than the container's (`forensic/src/lib.rs:302`).
