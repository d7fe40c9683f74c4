----------------------------- MODULE Checkpoint -----------------------------
(***************************************************************************)
(* Opening an APFS container: ApfsContainer::open (core/src/lib.rs),       *)
(* NxSuperblock::parse (core/src/container.rs) and                         *)
(* resolve_live_checkpoint (core/src/checkpoint.rs).                       *)
(*                                                                         *)
(* The reader validates the superblock copy in block zero, scans the       *)
(* checkpoint descriptor ring slot by slot for the checksum-valid          *)
(* superblock of highest xid, scans the ring a second time for the         *)
(* checkpoint maps of that xid, and re-reads the chosen superblock.        *)
(*                                                                         *)
(* A block is what the reader tells apart: its object type, whether its    *)
(* magic and its Fletcher-64 checksum are right, its xid, and, by type,    *)
(* the superblock's geometry or the mappings a checkpoint map lists.  A    *)
(* slot past the end of a truncated image has type "eof".                  *)
(***************************************************************************)
EXTENDS Integers, Sequences, FiniteSets, Functions

CONSTANTS
  DescBlocks,     \* nx_xp_desc_blocks: the number of slots of the ring
  Blocks,         \* the values a slot of the ring may hold
  ZeroBlocks,     \* the values block zero may hold
  NX_MAGIC,       \* the magic of a container superblock
  MinBlockSize,   \* NX_MINIMUM_BLOCK_SIZE
  MaxBlockSize,   \* NX_MAXIMUM_BLOCK_SIZE
  MaxCpmCount,    \* MAX_CPM_COUNT
  None            \* Option::None

BlockTypes == {"eof", "nxsb", "map", "other"}

\* What resolve_live_checkpoint and NxSuperblock::parse read of a block.
Block ==
  [type : BlockTypes, magic : Nat, cksum : BOOLEAN, xid : Nat, block_size : Nat,
   fusion : BOOLEAN, tree : BOOLEAN, map : Seq([oid : Nat, paddr : Nat])]

Candidate == [xid : Nat, slot : Nat]

ASSUME CheckpointAssumption ==
  /\ DescBlocks \in Nat
  /\ Blocks \subseteq Block /\ ZeroBlocks \subseteq Block
  /\ NX_MAGIC \in Nat
  /\ MinBlockSize \in Nat /\ MaxBlockSize \in Nat
  /\ MaxCpmCount \in Nat
  /\ None \notin Candidate \cup Block

Slots == 0 .. DescBlocks - 1

VARIABLES
  zero,        \* block zero of the image
  ring,        \* the descriptor area of the image
  pc,          \* where the reader is
  i,           \* the slot a scan is at
  best,        \* the (xid, paddr) of the best superblock seen, or None
  checked,     \* readable slots seen
  last_magic,  \* magic of the last superblock-typed slot seen
  mappings,    \* checkpoint mappings collected
  superblock,  \* the live superblock the container holds, or None
  error        \* the error open returned

image == <<zero, ring>>
reader == <<pc, i, best, checked, last_magic, mappings, superblock, error>>
vars == <<image, reader>>

NoError == [kind |-> "None", checked |-> 0, last_magic |-> 0]

ReaderInit ==
  /\ pc = "start"
  /\ i = 0
  /\ best = None
  /\ checked = 0
  /\ last_magic = 0
  /\ mappings = << >>
  /\ superblock = None
  /\ error = NoError

Init ==
  /\ zero \in ZeroBlocks
  /\ ring \in [Slots -> Blocks]
  /\ ReaderInit

----------------------------------------------------------------------------
\* A parse that trusts the magic alone.
ParseError_NoChecksum(b) ==
  IF b.magic # NX_MAGIC
  THEN [kind |-> "NoValidSuperblock", checked |-> 1, last_magic |-> b.magic]
  ELSE NoError

\* The errors NxSuperblock::parse returns for a block that was read.
ParseError(b) ==
  IF b.magic # NX_MAGIC
  THEN [kind |-> "NoValidSuperblock", checked |-> 1, last_magic |-> b.magic]
  ELSE IF ~b.cksum THEN [kind |-> "ChecksumMismatch", checked |-> 0, last_magic |-> 0]
  ELSE NoError

BlockSizeInRange(n) == MinBlockSize <= n /\ n <= MaxBlockSize

Fail(e) ==
  /\ pc' = "failed"
  /\ error' = e
  /\ UNCHANGED <<i, best, checked, last_magic, mappings, superblock>>

\* open: read and validate block zero, and refuse a Fusion container.
ReadBlockZero ==
  /\ pc = "start"
  /\ \/ /\ zero.type = "eof"
        /\ Fail([kind |-> "NoValidSuperblock", checked |-> 0, last_magic |-> 0])
     \/ /\ zero.type # "eof"
        /\ ParseError(zero) # NoError
        /\ Fail(ParseError(zero))
     \/ /\ zero.type # "eof"
        /\ ParseError(zero) = NoError
        /\ zero.fusion
        /\ Fail([kind |-> "UnsupportedFusion", checked |-> 0, last_magic |-> 0])
     \/ /\ zero.type # "eof"
        /\ ParseError(zero) = NoError
        /\ ~zero.fusion
        /\ pc' = "resolve"
        /\ UNCHANGED <<i, best, checked, last_magic, mappings, superblock, error>>
  /\ UNCHANGED image

\* resolve_live_checkpoint: the checks that precede the scan.
BeginResolve ==
  /\ pc = "resolve"
  /\ \/ /\ zero.tree
        /\ Fail([kind |-> "CheckpointTreeUnsupported", checked |-> 0, last_magic |-> 0])
     \/ /\ ~zero.tree
        /\ ~BlockSizeInRange(zero.block_size)
        /\ Fail([kind |-> "FieldOutOfRange", checked |-> 0, last_magic |-> 0])
     \/ /\ ~zero.tree
        /\ BlockSizeInRange(zero.block_size)
        /\ pc' = "scan"
        /\ UNCHANGED <<i, best, checked, last_magic, mappings, superblock, error>>
  /\ UNCHANGED image

\* A scan that trusts the magic alone.
ValidSuperblock_NoChecksum(b) == b.type = "nxsb" /\ b.magic = NX_MAGIC

\* A slot the scan may choose.
ValidSuperblock(b) == b.type = "nxsb" /\ b.magic = NX_MAGIC /\ b.cksum

\* A comparison that lets a later copy of the same xid win.
Better_NotStrict(b) == best = None \/ b.xid >= best.xid

Better(b) == best = None \/ b.xid > best.xid

\* A scan that counts the slots it could not read.
ScanSlot_CountsUnread ==
  /\ pc = "scan"
  /\ i < DescBlocks
  /\ LET b == ring[i] IN
     /\ checked' = checked + 1
     /\ last_magic' = IF b.type = "nxsb" THEN b.magic ELSE last_magic
     /\ best' = IF ValidSuperblock(b) /\ Better(b) THEN [xid |-> b.xid, slot |-> i] ELSE best
  /\ i' = i + 1
  /\ UNCHANGED <<image, pc, mappings, superblock, error>>

\* One turn of the superblock scan.
ScanSlot ==
  /\ pc = "scan"
  /\ i < DescBlocks
  /\ LET b == ring[i] IN
     /\ checked' = IF b.type = "eof" THEN checked ELSE checked + 1
     /\ last_magic' = IF b.type = "nxsb" THEN b.magic ELSE last_magic
     /\ best' = IF ValidSuperblock(b) /\ Better(b) THEN [xid |-> b.xid, slot |-> i] ELSE best
  /\ i' = i + 1
  /\ UNCHANGED <<image, pc, mappings, superblock, error>>

EndScan ==
  /\ pc = "scan"
  /\ i = DescBlocks
  /\ \/ /\ best = None
        /\ Fail([kind |-> "NoValidSuperblock", checked |-> checked, last_magic |-> last_magic])
     \/ /\ best # None
        /\ pc' = "collect"
        /\ i' = 0
        /\ UNCHANGED <<best, checked, last_magic, mappings, superblock, error>>
  /\ UNCHANGED image

Minimum(m, n) == IF m < n THEN m ELSE n

\* The mappings read from a map block: cpm_count is capped.
CappedMap(b) == SubSeq(b.map, 1, Minimum(Len(b.map), MaxCpmCount))

\* A second scan that takes the maps of every checkpoint.
LiveMap_AnyXid(b, xid) == b.type = "map" /\ b.cksum

LiveMap(b, xid) == b.type = "map" /\ b.xid = xid /\ b.cksum

\* One turn of the checkpoint-map scan.
CollectSlot ==
  /\ pc = "collect"
  /\ i < DescBlocks
  /\ mappings' = IF LiveMap(ring[i], best.xid) THEN mappings \o CappedMap(ring[i]) ELSE mappings
  /\ i' = i + 1
  /\ UNCHANGED <<image, pc, best, checked, last_magic, superblock, error>>

\* open: re-read and parse the chosen superblock.
RereadSuperblock ==
  /\ pc = "collect"
  /\ i = DescBlocks
  /\ LET b == ring[best.slot] IN
     \/ /\ ParseError(b) # NoError
        /\ Fail(ParseError(b))
     \/ /\ ParseError(b) = NoError
        /\ pc' = "open"
        /\ superblock' = b
        /\ UNCHANGED <<i, best, checked, last_magic, mappings, error>>
  /\ UNCHANGED image

\* Every read of the source may fail with an I/O error, which open returns; an
\* end of file at the re-read is one of them.
ReadFails ==
  /\ pc \in {"start", "scan", "collect"}
  /\ Fail([kind |-> "Io", checked |-> 0, last_magic |-> 0])
  /\ UNCHANGED image

Next ==
  \/ ReadBlockZero
  \/ BeginResolve
  \/ ScanSlot
  \/ EndScan
  \/ CollectSlot
  \/ RereadSuperblock
  \/ ReadFails

Spec == Init /\ [][Next]_vars

\* resolve_ephemeral: the first mapping of an ephemeral oid.
resolve_ephemeral(oid) ==
  LET hits == {k \in DOMAIN mappings : mappings[k].oid = oid}
  IN  IF hits = {} THEN None
      ELSE mappings[CHOOSE k \in hits : \A j \in hits : k <= j].paddr

----------------------------------------------------------------------------
\* Type invariant.
TypeOK ==
  /\ zero \in ZeroBlocks
  /\ ring \in [Slots -> Blocks]
  /\ pc \in {"start", "resolve", "scan", "collect", "open", "failed"}
  /\ i \in 0 .. DescBlocks
  /\ best \in {None} \cup [xid : Nat, slot : Slots]
  /\ checked \in 0 .. DescBlocks
  /\ last_magic \in Nat
  /\ mappings \in Seq([oid : Nat, paddr : Nat])
  /\ superblock \in {None} \cup Blocks
  /\ error \in [kind : {"None", "NoValidSuperblock", "ChecksumMismatch", "UnsupportedFusion",
                        "CheckpointTreeUnsupported", "FieldOutOfRange", "Io"},
                checked : Nat, last_magic : Nat]

\* A container superblock that was written to its end.
Whole(b) == b.type = "nxsb" /\ b.magic = NX_MAGIC /\ b.cksum

\* An open container holds the superblock of a slot that is checksum-valid and
\* that no valid slot of the ring supersedes; among copies of one xid it is the
\* first (resolve_live_checkpoint's strict comparison, open's re-read).
LiveIsNewest ==
  pc = "open" =>
    /\ superblock = ring[best.slot]
    /\ Whole(superblock)
    /\ \A s \in Slots : Whole(ring[s]) =>
         \/ ring[s].xid < superblock.xid
         \/ ring[s].xid = superblock.xid /\ best.slot <= s

\* The slots of a transaction's undamaged maps, and the mappings of a slot.
WholeMaps(xid) == {s \in Slots : ring[s].type = "map" /\ ring[s].cksum /\ ring[s].xid = xid}

Listed(s) == Range(CappedMap(ring[s]))

\* The mappings of an open container are those of the checksum-valid maps that
\* carry the live superblock's xid, all of them, and none of a superseded or
\* torn checkpoint that is still in the ring (the second scan's filter).
MappingsAreLive ==
  pc = "open" =>
    Range(mappings) = UNION {Listed(s) : s \in WholeMaps(superblock.xid)}

BootstrapUsable ==
  /\ zero.type # "eof" /\ zero.magic = NX_MAGIC /\ zero.cksum
  /\ ~zero.fusion /\ ~zero.tree /\ BlockSizeInRange(zero.block_size)

\* open refuses a container only when block zero is unusable, the ring holds no
\* valid superblock, or the source failed; and when the ring is to blame the
\* error counts the slots that could be read (NoValidSuperblock's fields).
RefusalHasAReason ==
  pc = "failed" =>
    \/ error.kind = "Io"
    \/ ~BootstrapUsable
    \/ /\ \A s \in Slots : ~Whole(ring[s])
       /\ error.kind = "NoValidSuperblock"
       /\ error.checked = Cardinality({s \in Slots : ring[s].type # "eof"})
=============================================================================
