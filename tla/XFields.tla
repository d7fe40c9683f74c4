------------------------------ MODULE XFields -------------------------------
(***************************************************************************)
(* The value of an inode record: Inode::parse (core/src/inode.rs) and the  *)
(* extended fields it walks, parse_xfields (core/src/fsrecord.rs).  Module *)
(* FileData takes a file's size from it.                                   *)
(*                                                                         *)
(* Lengths and offsets are bytes, with the constants of the code.  What    *)
(* the bytes say is kept per field, at the offset where its value starts.  *)
(***************************************************************************)
EXTENDS Integers, Sequences

CONSTANT MAX_XF_NUM_EXTS

ASSUME XFieldsAssumption == MAX_XF_NUM_EXTS \in Nat

OFF_XFIELDS == 92
XF_DESC_OFF == 4
XF_DESC_LEN == 4

\* INO_EXT_TYPE_NAME and INO_EXT_TYPE_DSTREAM.
NameType == 4
DstreamType == 8

\* A field as it was written: its value starts at start, from the blob, and says content.
XField == [type : 0 .. 255, size : Nat, start : Nat, content : Nat]

\* An inode's value: its length, perhaps cut, and the fields that were written.
IsInodeValue(v) == v.len \in Nat /\ v.fields \in Seq(XField)

VARIABLES
  value,      \* the value that is parsed
  xpc,        \* "idle", "fields" or "parsed"
  xi,          \* the loop's index, from 0
  value_off,  \* where the next value starts
  inode       \* the fields found: name and size, or -1

xvars == <<value, xpc, xi, value_off, inode>>

NoInode == [name |-> -1, size |-> -1]

XInit == xpc = "idle" /\ xi = 0 /\ value_off = 0 /\ inode = NoInode

blob_len == value.len - OFF_XFIELDS
num == IF Len(value.fields) < MAX_XF_NUM_EXTS THEN Len(value.fields) ELSE MAX_XF_NUM_EXTS
desc_end == XF_DESC_OFF + num * XF_DESC_LEN

\* Inode::parse: no blob, a cut header, a table of descriptors that is cut, or the loop.
ParseInode ==
  /\ inode' = NoInode
  /\ xi' = 0
  /\ value_off' = desc_end
  /\ \/ blob_len < XF_DESC_OFF /\ xpc' = "parsed"
     \/ blob_len >= XF_DESC_OFF /\ desc_end > blob_len /\ xpc' = "parsed"
     \/ blob_len >= XF_DESC_OFF /\ desc_end <= blob_len /\ xpc' = "fields"
  /\ UNCHANGED value

x_type == value.fields[xi + 1].type
x_size == value.fields[xi + 1].size

\* What the bytes from value_off say: a value starts there, or something else is read.
ContentAt(off) ==
  IF \E k \in DOMAIN value.fields : value.fields[k].start = off
  THEN value.fields[CHOOSE k \in DOMAIN value.fields : value.fields[k].start = off].content
  ELSE 1

\* Values one after the other.
Aligned_Packed(n) == n

\* The next value starts at a multiple of 8 from the first.
Aligned(n) == ((n + 7) \div 8) * 8

\* le_u64 of a value: 0 if it is shorter.
FirstU64 == IF x_size < 8 THEN 0 ELSE ContentAt(value_off)

\* One turn: a value that is cut ends the walk.
FieldTurn ==
  /\ xpc = "fields" /\ xi < num
  /\ \/ /\ value_off + x_size > blob_len
        /\ xpc' = "parsed"
        /\ UNCHANGED <<xi, value_off, inode>>
     \/ /\ value_off + x_size <= blob_len
        /\ inode' = CASE x_type = NameType -> [inode EXCEPT !.name = ContentAt(value_off)]
                      [] x_type = DstreamType -> [inode EXCEPT !.size = FirstU64]
                      [] OTHER -> inode
        /\ value_off' = value_off + Aligned(x_size)
        /\ xi' = xi + 1
        /\ UNCHANGED xpc
  /\ UNCHANGED value

FieldsEnd ==
  /\ xpc = "fields" /\ xi = num
  /\ xpc' = "parsed"
  /\ UNCHANGED <<value, xi, value_off, inode>>

ParseNext == FieldTurn \/ FieldsEnd

----------------------------------------------------------------------------
\* What a writer guarantees of a value, before it is cut: no more fields than the cap,
\* none empty, a size in 8 bytes or more; the values follow the table and each other,
\* and each takes a multiple of 8 bytes.
LaidOut ==
  LET f == value.fields
      room(k) == 8 * ((f[k].size + 7) \div 8)
  IN  /\ Len(f) <= MAX_XF_NUM_EXTS
      /\ \A k \in DOMAIN f : f[k].size > 0 /\ (f[k].type = DstreamType => f[k].size >= 8)
      /\ Len(f) > 0 => f[1].start = XF_DESC_OFF + XF_DESC_LEN * Len(f)
      /\ \A j, k \in DOMAIN f : j < k => f[j].start + room(j) <= f[k].start
      /\ \A k \in 1 .. Len(f) - 1 : f[k + 1].start = f[k].start + room(k)

\* The inode's fields of a type that lie in the value whole.
Whole(t) ==
  {k \in DOMAIN value.fields :
     /\ value.fields[k].type = t
     /\ XF_DESC_OFF + XF_DESC_LEN * Len(value.fields) <= value.len - OFF_XFIELDS
     /\ value.fields[k].start + value.fields[k].size <= value.len - OFF_XFIELDS}

\* A file has exactly the size, and the name, that were written in its inode, among
\* whatever other fields of whatever lengths; if the value is cut, the fields before
\* the cut still have theirs, and a field that is cut is missing rather than wrong
\* (Inode::parse through parse_xfields).
FieldsAsWritten ==
  LaidOut /\ xpc = "parsed" =>
    \A t \in {NameType, DstreamType} :
      LET found == IF t = NameType THEN inode.name ELSE inode.size IN
      IF Whole(t) = {} THEN found = -1
      ELSE \E k \in Whole(t) : found = value.fields[k].content
=============================================================================
