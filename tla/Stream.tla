------------------------------- MODULE Stream -------------------------------
(***************************************************************************)
(* The bytes of a data stream: read_stream and list_extents                *)
(* (core/src/extent.rs).  Module FileData calls it for a file's data and   *)
(* for a resource fork.                                                    *)
(*                                                                         *)
(* Extents map ranges of a stream to blocks of the image.  A block may be  *)
(* encrypted as one sector under a tweak; a byte of it is clear only if    *)
(* the whole sector is decrypted with that tweak.                          *)
(***************************************************************************)
EXTENDS Integers, Sequences

CONSTANTS
  BlockSize,   \* bytes in a block
  ImageBlocks, \* blocks in the image
  MaxFileBytes, \* MAX_FILE_BYTES
  MaxU64       \* the largest u64

\* FileExtent; crypto_id 0 means not encrypted.
Extent == [logical_offset : Nat, len : Nat, phys_block_num : Nat, crypto_id : Nat]

\* The streams of a file; tweak[b] is the tweak block b of the image is encrypted
\* under, or 0.
HasStreams(f) ==
  /\ f.streams \subseteq Nat /\ f.extents \in [f.streams -> Seq(Extent)]
  /\ f.vek \in BOOLEAN
  /\ f.tweak \in [0 .. ImageBlocks - 1 -> 0 .. MaxU64]

\* Positions in the image are u64.
ASSUME StreamAssumption ==
  /\ BlockSize \in Nat \ {0} /\ ImageBlocks \in Nat /\ MaxFileBytes \in Nat
  /\ MaxU64 \in Nat /\ ImageBlocks * BlockSize <= MaxU64

\* A byte of the image, clear or not; and the byte a hole is filled with.
Byte(at, clear) == [at |-> at, clear |-> clear]
Zero == Byte(-1, TRUE)

VARIABLES
  file,    \* the file; no step changes it
  fpc,     \* "stream", "copy", "read", "failed", or where the caller is
  wanted,  \* the stream that is read: [oid, size, use]
  exts,    \* its extents, sorted
  next,    \* the extent the loop is at
  out,     \* the buffer
  error

streamvars == <<file, fpc, wanted, exts, next, out, error>>

Nothing == [oid |-> 0, size |-> 0, use |-> "data"]

StreamInit ==
  /\ wanted = Nothing
  /\ exts = << >> /\ next = 1
  /\ out = << >>
  /\ error = "None"

Fail(kind) ==
  /\ fpc' = "failed"
  /\ error' = kind
  /\ UNCHANGED <<file, wanted, exts, next, out>>

\* A call of read_stream.
ReadStream(oid, size, use) ==
  /\ wanted' = [oid |-> oid, size |-> size, use |-> use]
  /\ fpc' = "stream"
  /\ UNCHANGED <<file, exts, next, out, error>>

\* A walk of the file-system tree (module FsTree) can fail.
WalkFails == Fail("Structural")

----------------------------------------------------------------------------
\* sort_by_key: by offset, and extents of one offset in the order of the tree.
Sorts(order, s) ==
  /\ \A j, k \in DOMAIN s :
       j < k => LET a == s[order[j]].logical_offset
                    b == s[order[k]].logical_offset
                IN  a < b \/ (a = b /\ order[j] < order[k])
  /\ \A n \in DOMAIN s : \E k \in DOMAIN s : order[k] = n

ExtentsOf(oid) == IF oid \in file.streams THEN file.extents[oid] ELSE << >>

\* The zeroed buffer.
Buffer(n) == [i \in 1 .. n |-> Zero]

\* read_stream: the size cap, list_extents, the buffer.
BeginStream ==
  /\ fpc = "stream"
  /\ \/ wanted.size > MaxFileBytes /\ Fail("FieldOutOfRange")
     \/ wanted.size <= MaxFileBytes /\ WalkFails
     \/ /\ wanted.size <= MaxFileBytes
        /\ LET s == ExtentsOf(wanted.oid) IN
           \E order \in [DOMAIN s -> DOMAIN s] :
             Sorts(order, s) /\ exts' = [k \in DOMAIN s |-> s[order[k]]]
        /\ next' = 1
        /\ out' = Buffer(wanted.size)
        /\ fpc' = "copy"
        /\ UNCHANGED <<file, wanted, error>>

copy_len(e) == IF e.len < wanted.size - e.logical_offset THEN e.len ELSE wanted.size - e.logical_offset

Decrypts(e) == file.vek /\ e.crypto_id # 0

\* One block more than the bytes need when they end at a block.
Span_Extra(e) ==
  IF Decrypts(e) THEN (copy_len(e) \div BlockSize + 1) * BlockSize ELSE copy_len(e)

\* Bytes read from the image: whole blocks when they are to be decrypted.
Span(e) ==
  IF Decrypts(e) THEN ((copy_len(e) + BlockSize - 1) \div BlockSize) * BlockSize ELSE copy_len(e)

byte_off(e) == e.phys_block_num * BlockSize

\* A read of no bytes succeeds anywhere.
InImage(e) == Span(e) = 0 \/ byte_off(e) + Span(e) <= ImageBlocks * BlockSize

\* One tweak for the whole extent.
TweakOf_First(e, i) == e.crypto_id

\* The tweak advances with the blocks of an extent, saturating.
TweakOf(e, i) ==
  LET t == e.crypto_id + (i \div BlockSize) IN IF t > MaxU64 THEN MaxU64 ELSE t

\* Byte i of an extent, as the loop leaves it in the buffer.
ByteOf(e, i) ==
  LET at == byte_off(e) + i
      t == file.tweak[at \div BlockSize]
  IN  Byte(at, t = IF Decrypts(e) THEN TweakOf(e, i) ELSE 0)

\* An extent that starts past the end, or a hole, is passed over.
Skipped(e) == e.logical_offset >= wanted.size \/ e.phys_block_num = 0

\* One turn of read_stream's loop, over an extent that is passed over ...
SkipExtent ==
  /\ fpc = "copy" /\ next <= Len(exts) /\ Skipped(exts[next])
  /\ next' = next + 1
  /\ UNCHANGED <<file, fpc, wanted, exts, out, error>>

\* ... and over one that is read: its byte offset may overflow, its read fail or
\* end with the image (an Io error too, of kind UnexpectedEof), or succeed.
CopyExtent ==
  /\ fpc = "copy" /\ next <= Len(exts) /\ ~Skipped(exts[next])
  /\ LET e == exts[next] IN
     \/ byte_off(e) > MaxU64 /\ Fail("FieldOutOfRange")
     \/ byte_off(e) <= MaxU64 /\ Fail("Io")
     \/ byte_off(e) <= MaxU64 /\ ~InImage(e) /\ Fail("UnexpectedEof")
     \/ /\ byte_off(e) <= MaxU64 /\ InImage(e)
        /\ out' = [i \in 1 .. wanted.size |->
                     IF e.logical_offset < i /\ i <= e.logical_offset + copy_len(e)
                     THEN ByteOf(e, i - 1 - e.logical_offset) ELSE out[i]]
        /\ next' = next + 1
        /\ UNCHANGED <<file, fpc, wanted, exts, error>>

\* read_stream returns the buffer.
EndStream ==
  /\ fpc = "copy" /\ next > Len(exts)
  /\ fpc' = "read"
  /\ UNCHANGED <<file, wanted, exts, next, out, error>>

StreamNext == BeginStream \/ SkipExtent \/ CopyExtent \/ EndStream

----------------------------------------------------------------------------
\* The bytes a stream has, by its extents: the reference read_stream is measured
\* against.
Holds(oid, i, b) ==
  \/ /\ b = Zero
     /\ \A k \in DOMAIN ExtentsOf(oid) :
          LET e == ExtentsOf(oid)[k] IN
          e.phys_block_num = 0 \/ i < e.logical_offset \/ i >= e.logical_offset + e.len
  \/ \E k \in DOMAIN ExtentsOf(oid) :
       LET e == ExtentsOf(oid)[k] IN
       /\ e.phys_block_num # 0 /\ e.logical_offset <= i /\ i < e.logical_offset + e.len
       /\ b = Byte(e.phys_block_num * BlockSize + i - e.logical_offset, TRUE)

\* What a writer guarantees of a stream: its extents are one or more whole blocks
\* inside the image, do not overlap, and are encrypted block by block under consecutive
\* tweaks, for which there is a key.
WellWritten(oid) ==
  \A k \in DOMAIN ExtentsOf(oid) :
    LET e == ExtentsOf(oid)[k] IN
    /\ e.len > 0 /\ e.len % BlockSize = 0 /\ e.logical_offset % BlockSize = 0
    /\ \A j \in DOMAIN ExtentsOf(oid) \ {k} :
         LET g == ExtentsOf(oid)[j] IN
         g.logical_offset + g.len <= e.logical_offset \/ e.logical_offset + e.len <= g.logical_offset
    /\ e.phys_block_num # 0 =>
         \A n \in 0 .. (e.len \div BlockSize) - 1 :
           /\ e.phys_block_num + n < ImageBlocks
           /\ file.tweak[e.phys_block_num + n] = IF e.crypto_id = 0 THEN 0 ELSE e.crypto_id + n
           /\ e.crypto_id # 0 => file.vek

\* A stream that has been read is byte for byte what its extents say, holes zero,
\* the last block cut at the logical size, and every encrypted byte clear although
\* sectors are decrypted one by one (read_stream); this is what is returned, and
\* what a resource fork is decoded from.
StreamIsExact ==
  /\ wanted # Nothing /\ WellWritten(wanted.oid)
  /\ fpc \in {"read", "decode", "done"}
  => \A i \in 1 .. wanted.size : Holds(wanted.oid, i - 1, out[i])

\* A well-written stream is refused only if the device fails, the tree walk does, or
\* its size is over the cap: rounding a read up to whole blocks never asks for more
\* than the image has (read_stream).
RefusesOnlyDamage ==
  /\ wanted # Nothing /\ WellWritten(wanted.oid) /\ wanted.size <= MaxFileBytes
  => error \notin {"FieldOutOfRange", "UnexpectedEof"}
=============================================================================
