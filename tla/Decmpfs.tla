------------------------------ MODULE Decmpfs -------------------------------
(***************************************************************************)
(* decompress_decmpfs (core/src/compression.rs): the checks of the header, *)
(* the inline payload and the two layouts of a resource fork, a block      *)
(* table (zlib) and chunk end-offsets (LZVN, LZFSE, uncompressed).         *)
(*                                                                         *)
(* The codecs are external: a compressed piece is one cell Packed(bytes),  *)
(* unpacked to those bytes.  A fork is a sequence of cells; offsets count  *)
(* cells, and a 4-byte field of a header is one cell.                      *)
(***************************************************************************)
EXTENDS Integers, Sequences

CONSTANT ChunkSize  \* CHUNK_SIZE

Packed(bytes) == [kind |-> "packed", bytes |-> bytes]
Raw(b) == [kind |-> "raw", byte |-> b]
Marker == [kind |-> "marker"]
Field(n) == [kind |-> "field", value |-> n]

VARIABLES
  p,     \* the header, and the resource fork once it has been read
  pc,    \* "idle", "check", "blocks", "chunks", "length", "done" or "failed"
  i,     \* the loop's index
  src,   \* where the next chunk starts
  out    \* what has been decoded

vars == <<p, pc, i, src, out>>

Init ==
  /\ p.fork = << >> /\ ~p.has_fork
  /\ pc = "idle"
  /\ i = 0 /\ src = 0
  /\ out = << >>

\* decompress_decmpfs is called with the header and, perhaps, a fork.
Call(has_fork, fork) ==
  /\ pc = "idle"
  /\ pc' = "check"
  /\ p' = [p EXCEPT !.has_fork = has_fork, !.fork = fork]
  /\ UNCHANGED <<i, src, out>>

\* ApfsError::Decmpfs; what was decoded is dropped.
Fail == pc' = "failed" /\ out' = << >> /\ UNCHANGED <<p, i, src>>

----------------------------------------------------------------------------
\* decmpfs::classify, a table of the forensicnomicon crate.
classify(t) ==
  CASE t \in {1, 9} -> <<"Uncompressed", "Inline">>
    [] t = 3 -> <<"Zlib", "Inline">>
    [] t = 4 -> <<"Zlib", "ResourceFork">>
    [] t = 7 -> <<"Lzvn", "Inline">>
    [] t = 8 -> <<"Lzvn", "ResourceFork">>
    [] t = 10 -> <<"Uncompressed", "ResourceFork">>
    [] t = 11 -> <<"Lzfse", "Inline">>
    [] t = 12 -> <<"Lzfse", "ResourceFork">>
    [] t = 13 -> <<"LzBitmap", "Inline">>
    [] t = 14 -> <<"LzBitmap", "ResourceFork">>
    [] OTHER -> <<"None", "None">>

algorithm == classify(p.type)[1]
storage == classify(p.type)[2]

\* The codecs: a packed cell first, and for LZVN, which is length-tolerant and
\* stops at the wanted length, or zlib, anything after it.
Unpacks(cells, alg) ==
  /\ cells # << >> /\ cells[1].kind = "packed"
  /\ alg = "Lzfse" => Len(cells) = 1

Unpacked(cells, alg, limit) ==
  LET b == cells[1].bytes IN
  IF alg = "Lzvn" /\ Len(b) > limit THEN SubSeq(b, 1, limit) ELSE b

\* Bytes stored as they are.
Stored(cells) == [k \in DOMAIN cells |-> IF cells[k].kind = "raw" THEN cells[k].byte ELSE "?"]

\* A le_u32 or be_u32 of cell n (from 0) of the fork: what is no field reads as
\* some other number, here 0.
HasCell(n) == n < Len(p.fork)
FieldAt(n) == IF p.fork[n + 1].kind = "field" THEN p.fork[n + 1].value ELSE 0

\* The checks of decompress_decmpfs before it decodes.
Refused ==
  \/ ~p.whole \/ ~p.magic
  \/ algorithm \in {"None", "LzBitmap"}
  \/ storage = "ResourceFork" /\ ~p.has_fork

----------------------------------------------------------------------------
\* decode_inline: types and markers whose payload is stored.
Verbatim ==
  \/ algorithm = "Uncompressed"
  \/ algorithm \in {"Zlib", "Lzvn"} /\ p.inline # << >> /\ p.inline[1] = Marker

\* Type 1 is stored without a marker.
AfterMarker == IF p.type = 1 THEN p.inline ELSE SubSeq(p.inline, 2, Len(p.inline))

DecodeInline ==
  /\ pc = "check" /\ ~Refused /\ storage = "Inline"
  /\ \/ /\ Verbatim
        /\ out' = Stored(AfterMarker)
        /\ pc' = "length"
        /\ UNCHANGED <<p, i, src>>
     \/ /\ ~Verbatim /\ Unpacks(p.inline, algorithm)
        /\ out' = Unpacked(p.inline, algorithm, p.size)
        /\ pc' = "length"
        /\ UNCHANGED <<p, i, src>>
     \/ ~Verbatim /\ ~Unpacks(p.inline, algorithm) /\ Fail

Refuse == pc = "check" /\ Refused /\ Fail

----------------------------------------------------------------------------
\* decode_zlib_resource_fork: the block table is after the header; cell 0 holds
\* the header's size, and one cell of total size precedes the count.
table == FieldAt(0) + 1

BeginBlocks ==
  /\ pc = "check" /\ ~Refused /\ storage = "ResourceFork" /\ algorithm = "Zlib"
  /\ IF HasCell(0) /\ HasCell(table)
     THEN pc' = "blocks" /\ UNCHANGED <<p, i, src, out>>
     ELSE Fail

num_blocks == FieldAt(table)

\* Block offsets are relative to the count of the table.
BlockStart(entry) == table + FieldAt(entry)

\* One block: two cells of the table, then its data.
DecodeBlock ==
  /\ pc = "blocks" /\ i < num_blocks
  /\ LET entry == table + 1 + 2 * i
         start == BlockStart(entry)
         end == start + FieldAt(entry + 1)
         block == SubSeq(p.fork, start + 1, end)
     IN  IF HasCell(entry + 1) /\ end <= Len(p.fork) /\ Unpacks(block, "Zlib")
         THEN /\ out' = out \o Unpacked(block, "Zlib", p.size)
              /\ i' = i + 1
              /\ UNCHANGED <<p, pc, src>>
         ELSE Fail

----------------------------------------------------------------------------
\* A loop over every slot, also the unused ones.
InChunks_EverySlot == i < FieldAt(0) - 1

\* decode_chunked_resource_fork stops when it has enough.
InChunks == i < FieldAt(0) - 1 /\ Len(out) < p.size

\* The header has at least the cell of its own size.
BeginChunks ==
  /\ pc = "check" /\ ~Refused /\ storage = "ResourceFork" /\ algorithm # "Zlib"
  /\ IF HasCell(0) /\ FieldAt(0) >= 1
     THEN /\ pc' = "chunks"
          /\ src' = FieldAt(0)
          /\ UNCHANGED <<p, i, out>>
     ELSE Fail

ChunkLimit == IF p.size - Len(out) < ChunkSize THEN p.size - Len(out) ELSE ChunkSize

AfterChunk == i' = i + 1 /\ src' = FieldAt(i + 1)

\* End-offsets do not go backward, nor past the fork.
InFork(end) == src <= end /\ end <= Len(p.fork)

\* One chunk, from the end of the one before to its own end-offset.
DecodeChunk ==
  /\ pc = "chunks" /\ InChunks
  /\ LET end == FieldAt(i + 1)
         chunk == SubSeq(p.fork, src + 1, IF end < Len(p.fork) THEN end ELSE Len(p.fork))
     IN  IF /\ HasCell(i + 1) /\ InFork(end)
            /\ algorithm = "Uncompressed" \/ Unpacks(chunk, algorithm)
         THEN /\ out' = out \o IF algorithm = "Uncompressed" THEN Stored(chunk)
                                ELSE Unpacked(chunk, algorithm, ChunkLimit)
              /\ AfterChunk
              /\ UNCHANGED <<p, pc>>
         ELSE Fail

EndFork ==
  /\ \/ pc = "blocks" /\ i >= num_blocks
     \/ pc = "chunks" /\ ~InChunks
  /\ pc' = "length"
  /\ UNCHANGED <<p, i, src, out>>

----------------------------------------------------------------------------
LengthAgrees == Len(out) = p.size

\* decompress_decmpfs compares the length, and returns.
CheckLength ==
  /\ pc = "length"
  /\ IF LengthAgrees THEN pc' = "done" /\ UNCHANGED <<p, i, src, out>> ELSE Fail

Next ==
  \/ Refuse \/ DecodeInline
  \/ BeginBlocks \/ DecodeBlock
  \/ BeginChunks \/ DecodeChunk
  \/ EndFork \/ CheckLength
=============================================================================
