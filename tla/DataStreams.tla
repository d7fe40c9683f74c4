---------------------------- MODULE DataStreams -----------------------------
(***************************************************************************)
(* The streams of a file as the virtual file system offers them:           *)
(* data_streams, read_at and read_xattr_at (core/src/vfs.rs).              *)
(*                                                                         *)
(* A caller lists the streams, picks one, and reads it through a buffer    *)
(* from the start, each call where the last one ended, until one returns   *)
(* nothing.  Every call reads the inode or the attributes again, and the   *)
(* whole stream, before it cuts the window out.                            *)
(***************************************************************************)
EXTENDS FileData

CONSTANTS
  Windowed,     \* the files that are read this way, and as links
  MaxStreamId,  \* the largest id of an attribute: u16::MAX
  BufLens       \* the lengths of buffers

ASSUME DataStreamsAssumption ==
  (\A f \in Windowed : IsFile(f)) /\ MaxStreamId \in Nat /\ BufLens \subseteq Nat \ {0}

VARIABLES
  listing,  \* the streams listed: [id, size], where the default one's id is -1
  chosen,   \* the one the caller picks, or 0
  stream,   \* its id
  buf_len,  \* the length of the caller's buffer
  off,      \* the offset of the call
  returned       \* what the calls have returned

adapter == <<listing, chosen, stream, buf_len, off, returned>>

Default == -1

AdapterInit ==
  /\ FileInit(Files, {"read_data"}) \/ FileInit(Windowed, {"data_streams", "symlink_target"})
  /\ listing = << >> /\ chosen = 0 /\ stream = Default
  /\ buf_len \in IF op = "data_streams" THEN BufLens ELSE {0}
  /\ off = 0 /\ returned = << >>

Core == FileNext /\ UNCHANGED adapter

----------------------------------------------------------------------------
\* u16::try_from(i).unwrap_or(u16::MAX)
StreamIdOf(k) == IF k <= MaxStreamId THEN k ELSE MaxStreamId

XattrLen(a) == IF a.form = "Embedded" THEN Len(a.bytes) ELSE a.size

\* The default stream, then one for each attribute in the reader's order.
Listing ==
  <<[id |-> Default, size |-> inode_size]>>
    \o [k \in DOMAIN file.xattrs |-> [id |-> StreamIdOf(k - 1), size |-> XattrLen(file.xattrs[k])]]

\* A call of read_at.
ReadAt(id) ==
  \/ id = Default /\ op' = "read_at" /\ fpc' = "inode"
  \/ id # Default /\ op' = "read_xattr_at" /\ fpc' = "start"

\* data_streams, its inode loaded, lists the attributes; the caller picks a stream, or
\* asks for an id past the list.
ListStreams ==
  /\ fpc = "start" /\ op = "data_streams"
  /\ \/ WalkFails /\ UNCHANGED <<op, adapter>>
     \/ /\ listing' = Listing
        /\ \/ \E k \in DOMAIN Listing : chosen' = k /\ stream' = Listing[k].id /\ ReadAt(Listing[k].id)
           \/ chosen' = 0 /\ stream' = Len(file.xattrs) /\ ReadAt(Len(file.xattrs))
        /\ UNCHANGED <<file, wanted, exts, next, out, error, buf_len, off, returned>>
  /\ UNCHANGED <<result, decoder, xvars>>

\* Bytes that need no stream.
Bytes(bytes) ==
  /\ out' = bytes
  /\ wanted' = Nothing
  /\ fpc' = "done"
  /\ result' = "attribute"
  /\ UNCHANGED <<file, exts, next, error>>

\* read_xattr_at: the attribute at that position, embedded or a stream; none is 0 bytes.
ReadXattrAt ==
  /\ fpc = "start" /\ op = "read_xattr_at"
  /\ \/ WalkFails /\ UNCHANGED result
     \/ stream >= Len(file.xattrs) /\ Bytes(<< >>)
     \/ /\ stream < Len(file.xattrs)
        /\ LET a == file.xattrs[stream + 1] IN
           \/ a.form = "Embedded" /\ Bytes(a.bytes)
           \/ a.form = "Stream" /\ ReadStream(a.dstream_oid, a.size, "data") /\ UNCHANGED result
  /\ UNCHANGED <<op, decoder, xvars, adapter>>

data == IF result = "decoded" THEN decoded ELSE out

\* A window whose first byte is the last one of the window before.
Window_Overlaps(start) ==
  LET n == IF buf_len < Len(data) - start THEN buf_len ELSE Len(data) - start IN
  SubSeq(data, IF start = 0 THEN 1 ELSE start, start + n)

\* The bytes of a window: as many as there are, at most the buffer.
Window(start) ==
  LET n == IF buf_len < Len(data) - start THEN buf_len ELSE Len(data) - start IN
  SubSeq(data, start + 1, start + n)

\* read_at returns, and is called again where the window ended; or the stream has ended.
Returned ==
  /\ fpc = "done" /\ op \in {"read_at", "read_xattr_at"}
  /\ \/ /\ off >= Len(data)
        /\ fpc' = "end"
        /\ UNCHANGED <<op, off, returned, decoder, result>>
     \/ /\ off < Len(data)
        /\ returned' = returned \o Window(off)
        /\ off' = off + Len(Window(off))
        /\ ReadAt(stream)
        /\ payload' = file.header /\ dpc' = "idle" /\ slot' = 0 /\ src' = 0 /\ decoded' = << >>
        /\ result' = "none"
  /\ UNCHANGED <<file, wanted, exts, next, out, error, xvars, listing, chosen, stream, buf_len>>

AdapterNext == Core \/ ListStreams \/ ReadXattrAt \/ Returned

AdapterSpec == AdapterInit /\ [][AdapterNext]_<<filevars, adapter>>

----------------------------------------------------------------------------
\* What attribute k holds, if it is sound.
IsAttribute(k, bytes) ==
  LET a == file.xattrs[k] IN
  IF a.form = "Embedded" THEN bytes = a.bytes
  ELSE WellWritten(a.dstream_oid) =>
         /\ Len(bytes) = a.size
         /\ \A i \in 1 .. a.size : Holds(a.dstream_oid, i - 1, bytes[i])

\* The windows of a stream, put together, are the whole stream and nothing else,
\* whatever the buffer: of a listed attribute exactly that attribute, as long as the
\* listing said, as long as its position fits an id (the 65536th and later ones share
\* one); of the default stream the file's data, decompressed (data_streams, read_at,
\* read_xattr_at).
WindowsAreTheStream ==
  fpc = "end" =>
    /\ chosen = 0 => returned = << >>
    /\ chosen > 1 /\ chosen - 2 <= MaxStreamId =>
         IsAttribute(chosen - 1, returned) /\ Len(returned) = listing[chosen].size
    /\ chosen = 1 /\ file.written /\ ForkIsStored => returned = file.contents
    /\ chosen = 1 /\ ~IsCompressed /\ WellWritten(file.private_id) =>
         /\ Len(returned) = listing[1].size
         /\ \A i \in 1 .. Len(returned) : Holds(file.private_id, i - 1, returned[i])
=============================================================================
