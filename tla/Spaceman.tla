------------------------------ MODULE Spaceman ------------------------------
(***************************************************************************)
(* Free space: is_block_free, free_block_runs, free_runs and push_free_run *)
(* (core/src/spaceman.rs).                                                 *)
(*                                                                         *)
(* The device is cut into chunks of blocks_per_chunk blocks; the space     *)
(* manager lists chunk-info blocks (CIBs), each of which lists chunks, and *)
(* a chunk has an allocation bitmap or is free as a whole.  One operation  *)
(* asks for one block, the other enumerates the device as runs.  The walk  *)
(* over a bitmap is modelled bit by bit; a run goes to push_free_run when  *)
(* free_runs would have closed it.                                         *)
(***************************************************************************)
EXTENDS Integers, Sequences, FiniteSets

CONSTANTS
  Devices,     \* the devices to consider
  BitmapBits,  \* bits in a bitmap block: 8 * block_size
  None

\* A chunk's info: whether it has a bitmap, and the bits set in it.
ChunkInfo == [bitmap : BOOLEAN, set : SUBSET (0 .. BitmapBits - 1)]

Cib == [cksum : BOOLEAN, infos : Seq(ChunkInfo)]

\* What the code reads of a space manager; cibs stands for the address array.
IsDevice(d) ==
  /\ d.cksum \in BOOLEAN
  /\ d.blocks_per_chunk \in Nat /\ d.chunks_per_cib \in Nat
  /\ d.block_count \in Nat /\ d.chunk_count \in Nat
  /\ d.cab_count \in Nat
  /\ d.cibs \in Seq(Cib)

ASSUME SpacemanAssumption ==
  /\ \A d \in Devices : IsDevice(d)
  /\ BitmapBits \in Nat \ {0}
  /\ None \notin Nat

VARIABLES
  dev,     \* the device; no step changes it
  asked,   \* the block is_block_free is asked for, or None: enumerate
  pc,      \* "start", "query", "cib", "chunk", "bits", "done" or "failed"
  cib,     \* the CIB the enumeration is at
  within,  \* the chunk of that CIB
  bit,     \* the bit of that chunk
  start,   \* the first bit of the run being read, or None
  runs,    \* the runs collected
  free,    \* is_block_free's answer
  error

vars == <<dev, asked, pc, cib, within, bit, start, runs, free, error>>
walk == <<cib, within, bit, start, runs>>

Init ==
  /\ dev \in Devices
  /\ asked \in {None} \cup 0 .. dev.block_count
  /\ pc = "start"
  /\ cib = 0 /\ within = 0 /\ bit = 0
  /\ start = None
  /\ runs = << >>
  /\ free = FALSE
  /\ error = "None"

Fail(kind) ==
  /\ pc' = "failed"
  /\ error' = kind
  /\ UNCHANGED <<dev, asked, walk, free>>

\* read_obj_block: the read fails, or the block's checksum does not match.
read_obj_block_fails(cksum) ==
  \/ Fail("Io")
  \/ ~cksum /\ Fail("ChecksumMismatch")

----------------------------------------------------------------------------
NoGeometry == dev.blocks_per_chunk = 0 \/ dev.chunks_per_cib = 0

\* Both operations: read the space manager and check its geometry.
ReadSpaceman ==
  /\ pc = "start"
  /\ \/ read_obj_block_fails(dev.cksum)
     \/ dev.cksum /\ NoGeometry /\ Fail("FieldOutOfRange")
     \/ dev.cksum /\ ~NoGeometry /\ asked = None /\ dev.cab_count # 0 /\ Fail("UnsupportedSpacemanCab")
     \/ /\ dev.cksum /\ ~NoGeometry
        /\ asked = None => dev.cab_count = 0
        /\ pc' = IF asked = None THEN "cib" ELSE "query"
        /\ UNCHANGED <<dev, asked, walk, free, error>>

chunk_index(b) == b \div dev.blocks_per_chunk
cib_index(b) == chunk_index(b) \div dev.chunks_per_cib

within_cib(b) == chunk_index(b) % dev.chunks_per_cib

OutOfDevice ==
  \/ chunk_index(asked) >= dev.chunk_count
  \/ cib_index(asked) >= Len(dev.cibs)

\* A bit taken from the device and not from the chunk.
Allocated_Absolute(info, b) == info.bitmap /\ b \in info.set

\* A bit past the end of the bitmap is not set.
Allocated(info, b) == info.bitmap /\ b % dev.blocks_per_chunk \in info.set

\* is_block_free, after the space manager was read: the range checks, the CIB
\* and the bit.
Query ==
  /\ pc = "query"
  /\ \/ asked >= dev.block_count /\ Fail("FieldOutOfRange")
     \/ asked < dev.block_count /\ dev.cab_count # 0 /\ Fail("UnsupportedSpacemanCab")
     \/ asked < dev.block_count /\ dev.cab_count = 0 /\ OutOfDevice /\ Fail("FieldOutOfRange")
     \/ /\ asked < dev.block_count /\ dev.cab_count = 0 /\ ~OutOfDevice
        /\ LET c == dev.cibs[cib_index(asked) + 1] IN
           \/ read_obj_block_fails(c.cksum)
           \/ /\ c.cksum /\ within_cib(asked) < Len(c.infos)
              /\ c.infos[within_cib(asked) + 1].bitmap
              /\ Fail("Io")
           \/ c.cksum /\ within_cib(asked) >= Len(c.infos) /\ Fail("FieldOutOfRange")
           \/ /\ c.cksum /\ within_cib(asked) < Len(c.infos)
              /\ free' = ~Allocated(c.infos[within_cib(asked) + 1], asked)
              /\ pc' = "done"
              /\ UNCHANGED <<dev, asked, walk, error>>

----------------------------------------------------------------------------
\* free_block_runs: the next CIB, or the end.
NextCib ==
  /\ pc = "cib"
  /\ \/ /\ cib = Len(dev.cibs)
        /\ pc' = "done"
        /\ UNCHANGED <<dev, asked, walk, free, error>>
     \/ cib < Len(dev.cibs) /\ read_obj_block_fails(dev.cibs[cib + 1].cksum)
     \/ /\ cib < Len(dev.cibs) /\ dev.cibs[cib + 1].cksum
        /\ pc' = "chunk"
        /\ within' = 0
        /\ UNCHANGED <<dev, asked, cib, bit, start, runs, free, error>>

Chunk == cib * dev.chunks_per_cib + within
chunk_base == Chunk * dev.blocks_per_chunk
Infos == dev.cibs[cib + 1].infos

InDevice == within < Len(Infos) /\ Chunk < dev.chunk_count /\ chunk_base < dev.block_count

\* A clamp that forgets the last, shorter chunk.
blocks_in_chunk_Full == dev.blocks_per_chunk

blocks_in_chunk ==
  IF dev.blocks_per_chunk < dev.block_count - chunk_base
  THEN dev.blocks_per_chunk ELSE dev.block_count - chunk_base

\* push_free_run: a run that begins where the last one ends extends it.
push_free_run(first, len) ==
  IF len = 0 THEN runs
  ELSE IF runs # << >> /\ runs[Len(runs)].first + runs[Len(runs)].len = first
  THEN [runs EXCEPT ![Len(runs)] = [first |-> @.first, len |-> @.len + len]]
  ELSE Append(runs, [first |-> first, len |-> len])

\* The next chunk of a CIB: past the end, free as a whole, or with a bitmap.
NextChunk ==
  /\ pc = "chunk"
  /\ \/ /\ ~InDevice
        /\ pc' = "cib"
        /\ cib' = cib + 1
        /\ UNCHANGED <<dev, asked, within, bit, start, runs, free, error>>
     \/ /\ InDevice /\ ~Infos[within + 1].bitmap
        /\ runs' = push_free_run(chunk_base, blocks_in_chunk)
        /\ within' = within + 1
        /\ UNCHANGED <<dev, asked, pc, cib, bit, start, free, error>>
     \/ InDevice /\ Infos[within + 1].bitmap /\ Fail("Io")
     \/ /\ InDevice /\ Infos[within + 1].bitmap
        /\ pc' = "bits"
        /\ bit' = 0 /\ start' = None
        /\ UNCHANGED <<dev, asked, cib, within, runs, free, error>>

\* free_runs reads a bit past the end of the bitmap as allocated.
FreeBit(k) == k < BitmapBits /\ k \notin Infos[within + 1].set

\* One turn of free_runs' loop.
NextBit ==
  /\ pc = "bits" /\ bit < blocks_in_chunk
  /\ bit' = bit + 1
  /\ \/ /\ FreeBit(bit)
        /\ start' = IF start = None THEN bit ELSE start
        /\ UNCHANGED runs
     \/ /\ ~FreeBit(bit) /\ start # None
        /\ runs' = push_free_run(chunk_base + start, bit - start)
        /\ start' = None
     \/ /\ ~FreeBit(bit) /\ start = None
        /\ UNCHANGED <<start, runs>>
  /\ UNCHANGED <<dev, asked, pc, cib, within, free, error>>

\* The end of free_runs: the run the chunk ends in.
EndBits ==
  /\ pc = "bits" /\ bit = blocks_in_chunk
  /\ runs' = IF start = None THEN runs ELSE push_free_run(chunk_base + start, bit - start)
  /\ pc' = "chunk"
  /\ within' = within + 1
  /\ start' = None
  /\ UNCHANGED <<dev, asked, cib, bit, free, error>>

Next == ReadSpaceman \/ Query \/ NextCib \/ NextChunk \/ NextBit \/ EndBits

Spec == Init /\ [][Next]_vars

----------------------------------------------------------------------------
Ceil(m, n) == (m + n - 1) \div n

\* The geometry a space manager has: the counts follow from the block count, and
\* every CIB but the last is full.
Consistent(d) ==
  /\ d.blocks_per_chunk > 0 /\ d.chunks_per_cib > 0
  /\ d.chunk_count = Ceil(d.block_count, d.blocks_per_chunk)
  /\ Len(d.cibs) = Ceil(d.chunk_count, d.chunks_per_cib)
  /\ \A k \in DOMAIN d.cibs :
       Len(d.cibs[k].infos) =
         IF k < Len(d.cibs) THEN d.chunks_per_cib ELSE d.chunk_count - (k - 1) * d.chunks_per_cib

\* The blocks whose bit is there and clear, by chunk: the reference both operations
\* are measured against.  A bitmap may be too small for the chunk.
FreeIn(d, k, j) ==
  {b \in 0 .. d.block_count - 1 :
     LET base == ((k - 1) * d.chunks_per_cib + j - 1) * d.blocks_per_chunk
         info == d.cibs[k].infos[j]
     IN  /\ base <= b /\ b < base + d.blocks_per_chunk
         /\ info.bitmap => b - base < BitmapBits /\ b - base \notin info.set}

FreeBlocks(d) == UNION {UNION {FreeIn(d, k, j) : j \in DOMAIN d.cibs[k].infos} : k \in DOMAIN d.cibs}

BlocksOf(r) == r.first .. r.first + r.len - 1

Covered == UNION {BlocksOf(runs[k]) : k \in DOMAIN runs}

\* Type invariant.
TypeOK ==
  /\ IsDevice(dev)
  /\ asked \in {None} \cup Nat
  /\ pc \in {"start", "query", "cib", "chunk", "bits", "done", "failed"}
  /\ cib \in 0 .. Len(dev.cibs)
  /\ within \in Nat /\ bit \in Nat
  /\ start \in {None} \cup 0 .. bit
  /\ runs \in Seq([first : Nat, len : Nat \ {0}])
  /\ free \in BOOLEAN
  /\ error \in {"None", "Io", "ChecksumMismatch", "FieldOutOfRange", "UnsupportedSpacemanCab"}

\* On a consistent device the enumeration that ends covers the free blocks, all
\* of them and no other, trailing padding bits excluded; a damaged CIB makes it
\* fail and not skip (free_block_runs), and a bitmap that ends before its chunk
\* does not make blocks free (free_runs).  The runs ascend and are maximal also
\* across chunk and CIB boundaries: between two of them lies at least one
\* allocated block (push_free_run).
RunsAreTheFreeBlocks ==
  Consistent(dev) /\ pc = "done" /\ asked = None =>
    /\ Covered = FreeBlocks(dev)
    /\ \A k \in 1 .. Len(runs) - 1 : runs[k].first + runs[k].len < runs[k + 1].first

\* On a consistent device is_block_free answers for a block what the enumeration
\* says of it, "the inverse predicate of is_block_free", if a bitmap has a bit for
\* each block of its chunk; if nothing is damaged, either of them refuses only for
\* a failed read, a block past the end or the CAB tier.
QueryAgrees ==
  Consistent(dev) =>
    /\ pc = "done" /\ asked # None /\ dev.blocks_per_chunk <= BitmapBits =>
         (free <=> asked \in FreeBlocks(dev))
    /\ pc = "failed" /\ dev.cksum /\ (\A k \in DOMAIN dev.cibs : dev.cibs[k].cksum) =>
         \/ error = "Io"
         \/ error = "FieldOutOfRange" /\ asked # None /\ asked >= dev.block_count
         \/ error = "UnsupportedSpacemanCab" /\ dev.cab_count # 0
=============================================================================
