------------------------------ MODULE FileData ------------------------------
(***************************************************************************)
(* A file's contents: read_data (core/src/extent.rs), the attributes it    *)
(* depends on (core/src/xattr.rs) and read_compressed                      *)
(* (core/src/compression.rs), over read_stream (module Stream) and         *)
(* decompress_decmpfs (module Decmpfs), with the size load_inode           *)
(* (core/src/dir.rs, module XFields) finds; and symlink_target.  Module    *)
(* DataStreams reads files and attributes through it.                      *)
(*                                                                         *)
(* What a byte of the image means to the decoder is a cell of module       *)
(* Decmpfs.                                                                *)
(***************************************************************************)
EXTENDS Stream, XFields

CONSTANTS
  Files,      \* the files to consider
  ChunkSize   \* CHUNK_SIZE

\* Xattr: an embedded value, its bytes, or a stream.
Xattr == [name : {"decmpfs", "ResourceFork", "symlink", "other"}, form : {"Embedded", "Stream"},
          dstream_oid : Nat, size : Nat, bytes : Seq([at : Nat, clear : BOOLEAN])]

\* A file.  value is that of its inode record, header is the value of an embedded decmpfs attribute, fork that of an
\* embedded resource fork, cell[b] what byte b of the image means, if it means anything.  Of a file that
\* a compressor wrote, contents, which the code never sees, is what it compressed.
IsFile(f) ==
  /\ IsInodeValue(f.value) /\ f.private_id \in Nat
  /\ f.xattrs \in Seq(Xattr)
  /\ HasStreams(f)
  /\ DOMAIN f.cell \subseteq 0 .. ImageBlocks * BlockSize - 1
  /\ f.header.type \in Nat /\ f.header.size \in Nat
  /\ f.header.typed \in BOOLEAN /\ f.header.whole \in BOOLEAN /\ f.header.magic \in BOOLEAN
  /\ f.written \in BOOLEAN

ASSUME FileDataAssumption ==
  /\ ChunkSize \in Nat \ {0}
  /\ \A f \in Files : IsFile(f)

VARIABLES
  op,       \* what is called: "read_data", "symlink_target", or by module DataStreams
  result,   \* what is returned: "raw", "decoded", "attribute", "target" or "none"
  payload,  \* the variables of the decoder
  dpc,
  slot,
  src,
  decoded

D == INSTANCE Decmpfs WITH p <- payload, pc <- dpc, i <- slot, out <- decoded

decoder == <<payload, dpc, slot, src, decoded>>
filevars == <<streamvars, xvars, op, result, decoder>>

\* A call, of one of the operations ops on one of some files.
FileInit(files, ops) ==
  /\ file \in files
  /\ op \in ops
  /\ fpc = IF op = "symlink_target" THEN "start" ELSE "inode"
  /\ StreamInit
  /\ value = file.value
  /\ XInit
  /\ result = "none"
  /\ payload = file.header
  /\ D!Init

ReturnFile(what) ==
  /\ fpc' = "done"
  /\ result' = what
  /\ UNCHANGED <<file, wanted, exts, next, out, error, op, decoder>>

\* read_compressed calls the decoder.
Decompress(has_fork, fork) ==
  /\ D!Call(has_fork, fork)
  /\ fpc' = "decode"
  /\ UNCHANGED <<file, wanted, exts, next, out, error, op, result>>

----------------------------------------------------------------------------
\* get_xattr: the first attribute of a name, if there is one.
Named(name, k) ==
  /\ k \in DOMAIN file.xattrs /\ file.xattrs[k].name = name
  /\ \A j \in 1 .. k - 1 : file.xattrs[j].name # name

Absent(name) == \A k \in DOMAIN file.xattrs : file.xattrs[k].name # name

\* decmpfs_header: only an embedded attribute counts.
IsCompressed == \E k \in DOMAIN file.xattrs : Named("decmpfs", k) /\ file.xattrs[k].form = "Embedded"

\* load_inode: the record is found (module FsTree) and parsed.
LoadInode ==
  /\ fpc = "inode" /\ xpc = "idle"
  /\ \/ WalkFails /\ UNCHANGED xvars
     \/ ParseInode /\ UNCHANGED streamvars
  /\ UNCHANGED <<op, result, decoder>>

Parsing == ParseNext /\ UNCHANGED <<streamvars, op, result, decoder>>

InodeLoaded ==
  /\ fpc = "inode" /\ xpc = "parsed"
  /\ fpc' = "start"
  /\ xpc' = "idle"
  /\ UNCHANGED <<file, wanted, exts, next, out, error, value, xi, value_off, inode, op, result, decoder>>

\* A directory has no size.
inode_size == IF inode.size = -1 THEN 0 ELSE inode.size

\* read_data: compressed, or the stream of the inode.
ReadData ==
  /\ fpc = "start" /\ op \in {"read_data", "read_at"}
  /\ \/ WalkFails
     \/ /\ IsCompressed
        /\ fpc' = "compressed"
        /\ UNCHANGED <<file, wanted, exts, next, out, error>>
     \/ ~IsCompressed /\ ReadStream(file.private_id, inode_size, "data")
  /\ UNCHANGED <<op, result, decoder>>

\* read_compressed: the type must be readable; it tells whether there is a fork.
needs_fork == D!storage = "ResourceFork"

ReadCompressed ==
  /\ fpc = "compressed"
  /\ \/ ~payload.typed /\ Fail("Decmpfs") /\ UNCHANGED <<op, result, decoder>>
     \/ payload.typed /\ ~needs_fork /\ Decompress(FALSE, << >>)

\* resource_fork: none, embedded, or a stream.
ResourceFork ==
  /\ fpc = "compressed" /\ payload.typed /\ needs_fork
  /\ \/ WalkFails /\ UNCHANGED <<op, result, decoder>>
     \/ Absent("ResourceFork") /\ Decompress(FALSE, << >>)
     \/ \E k \in DOMAIN file.xattrs :
          LET x == file.xattrs[k] IN
          /\ Named("ResourceFork", k)
          /\ \/ x.form = "Embedded" /\ Decompress(TRUE, file.fork)
             \/ /\ x.form = "Stream" /\ ReadStream(x.dstream_oid, x.size, "fork")
                /\ UNCHANGED <<op, result, decoder>>

\* What the decoder finds in a byte: zero in a hole, noise in a sector that was
\* not decrypted or decrypted with another tweak.
CellOf(b) ==
  CASE b = Zero -> D!Field(0)
    [] b # Zero /\ b.clear /\ b.at \in DOMAIN file.cell -> file.cell[b.at]
    [] OTHER -> D!Raw("?")

Fork(s) == [k \in DOMAIN s |-> CellOf(s[k])]

\* The stream has been read: it is the data, or a fork to decode.
StreamRead ==
  /\ fpc = "read"
  /\ \/ wanted.use = "data" /\ ReturnFile("raw")
     \/ wanted.use = "fork" /\ Decompress(TRUE, Fork(out))

Decoding ==
  /\ fpc = "decode"
  /\ D!Next
  /\ UNCHANGED <<streamvars, op, result>>

Decoded ==
  /\ fpc = "decode"
  /\ \/ dpc = "done" /\ ReturnFile("decoded")
     \/ dpc = "failed" /\ Fail("Decmpfs") /\ UNCHANGED <<op, result, decoder>>

\* symlink_target: an embedded attribute, or None.
SymlinkTarget ==
  /\ fpc = "start" /\ op = "symlink_target"
  /\ \/ WalkFails /\ UNCHANGED <<op, result, decoder>>
     \/ \E k \in DOMAIN file.xattrs :
          /\ Named("symlink", k)
          /\ ReturnFile(IF file.xattrs[k].form = "Embedded" THEN "target" ELSE "none")
     \/ Absent("symlink") /\ ReturnFile("none")

Streaming == StreamNext /\ UNCHANGED <<op, result, decoder>>

FileNext ==
  \/ LoadInode \/ Parsing \/ InodeLoaded
  \/ /\ \/ ReadData \/ ReadCompressed \/ ResourceFork
        \/ Streaming \/ StreamRead
        \/ Decoding \/ Decoded
        \/ SymlinkTarget
     /\ UNCHANGED xvars

----------------------------------------------------------------------------
\* Type invariant.
FileTypeOK ==
  /\ IsFile(file) /\ op \in {"read_data", "symlink_target", "data_streams", "read_at", "read_xattr_at"}
  /\ fpc \in {"inode", "start", "compressed", "stream", "copy", "read", "decode", "done", "end", "failed"}
  /\ xpc \in {"idle", "fields", "parsed"} /\ xi \in 0 .. num
  /\ exts \in Seq(Extent) /\ next \in 1 .. Len(exts) + 1
  /\ fpc = "copy" => Len(out) = wanted.size
  /\ \A k \in DOMAIN out : out[k].at \in Int
  /\ dpc \in {"idle", "check", "blocks", "chunks", "length", "done", "failed"}
  /\ slot \in Nat /\ src \in Nat
  /\ result \in {"raw", "decoded", "attribute", "target", "none"}
  /\ error \in {"None", "Structural", "Io", "UnexpectedEof", "FieldOutOfRange", "Decmpfs"}

\* The resource fork a compressor wrote is where it put it: in an attribute, or in
\* a well-written stream that says the same.
ForkIsStored ==
  \A k \in DOMAIN file.xattrs :
    LET x == file.xattrs[k] IN
    x.name = "ResourceFork" /\ x.form = "Stream" =>
      /\ WellWritten(x.dstream_oid) /\ x.size = Len(file.fork) /\ x.size <= MaxFileBytes
      /\ \A j \in DOMAIN file.fork :
           \E at \in -1 .. ImageBlocks * BlockSize - 1 :
             /\ Holds(x.dstream_oid, j - 1, Byte(at, TRUE))
             /\ at # -1 => at \in DOMAIN file.cell
             /\ file.fork[j] = IF at = -1 THEN D!Field(0) ELSE file.cell[at]

\* What a compressor wrote for some contents is read as exactly those contents, in
\* every layout and wherever the fork lies: scattered over the image, encrypted or
\* with holes.  The decoder's loops stop neither early nor in the padding of unused
\* slots, and no check refuses it (read_data through decompress_decmpfs).
RoundTrip ==
  file.written /\ op = "read_data" /\ ForkIsStored =>
    /\ error # "Decmpfs"
    /\ fpc = "done" => result = "decoded" /\ decoded = file.contents
=============================================================================
