---------------------------- MODULE NodeEntries ----------------------------
(***************************************************************************)
(* The entries of one B-tree node: node_entries and parse_node_header      *)
(* (core/src/btree.rs), over a node laid out as the file system lays it    *)
(* out.                                                                    *)
(*                                                                         *)
(* A node is its header, a table of contents, an area of keys that grows   *)
(* up from the end of the table, an area of values that grows down from    *)
(* the end of the node, or from the footer if it is the root.  A unit is a *)
(* u16: a number to the table of contents, an opaque piece of a key or a   *)
(* value elsewhere.                                                        *)
(*                                                                         *)
(* The writer is external.  It puts records anywhere in the free space, as *)
(* insertions and removals leave them, whatever their place in the table.  *)
(* The node may then hold one malformed table entry, or a count that is    *)
(* too large; its checksum is right, so that no caller stops before        *)
(* node_entries.                                                           *)
(***************************************************************************)
EXTENDS Integers, Sequences

CONSTANTS
  BlockLen,        \* units in a block
  BTN_DATA_OFF,    \* where the node's data begins
  BTREE_INFO_LEN,  \* units of the footer of a root
  TOC_FIXED_LEN,   \* units of a table entry of fixed and of variable size
  TOC_VAR_LEN,
  MAX_BTN_NKEYS,   \* cap on the number of entries
  FixedKeyLen,     \* fixed_key_len
  FixedLeafLen,    \* fixed_leaf_val_len
  FixedBranchLen,  \* fixed_branch_val_len
  Headers,         \* the headers of empty nodes
  Lens,            \* lengths of keys and values of variable size
  MaxRecords,      \* bound on the records the writer puts in a node
  BadNumbers       \* what a malformed field may hold

\* The fields of a node header; leaf is what is_leaf returns.
NodeHeader == [root : BOOLEAN, leaf : BOOLEAN, fixed : BOOLEAN, nkeys : Nat, toc_off : Nat, toc_len : Nat]

ASSUME NodeAssumption ==
  /\ BTN_DATA_OFF \in Nat /\ BlockLen \in Nat /\ BTN_DATA_OFF <= BlockLen
  /\ BTREE_INFO_LEN \in Nat
  /\ TOC_FIXED_LEN = 2 /\ TOC_VAR_LEN = 4
  /\ MAX_BTN_NKEYS \in Nat
  /\ FixedKeyLen \in Nat /\ FixedLeafLen \in Nat /\ FixedBranchLen \in Nat
  /\ Headers \subseteq NodeHeader /\ Lens \subseteq Nat
  /\ MaxRecords \in Nat /\ BadNumbers \subseteq Nat

VARIABLES
  hdr,      \* the node's header
  block,    \* its units
  written,  \* the records, in the order of the table; the code never sees them
  damaged,  \* the malformed table entry, or 0
  npc,      \* "writing", "loop" or "done"
  i,        \* the table entry the loop is at
  out       \* the entries found; at, which the code does not keep, is their number

node == <<hdr, block, written, damaged>>
nodevars == <<node, npc, i, out>>

\* A unit: its number, and what it is a piece of.
Tag == {"spare", "toc", "key", "val"} \X Nat \X Nat
Unit(n, of) == [n |-> n, of |-> of]
Spare == Unit(0, <<"spare", 0, 0>>)
Toc(n) == Unit(n, <<"toc", 0, 0>>)

NodeInit ==
  /\ hdr \in Headers
  /\ block = [u \in 0 .. BlockLen - 1 |-> Spare]
  /\ written = << >>
  /\ damaged = 0
  /\ npc = "writing"
  /\ i = 0
  /\ out = << >>

----------------------------------------------------------------------------
\* The places of a node.
toc_start == BTN_DATA_OFF + hdr.toc_off
key_area == toc_start + hdr.toc_len
entry_len == IF hdr.fixed THEN TOC_FIXED_LEN ELSE TOC_VAR_LEN
key_len == FixedKeyLen
val_len == IF hdr.leaf THEN FixedLeafLen ELSE FixedBranchLen

\* Values are counted from the end of the node, or from the footer.
val_base ==
  IF ~hdr.root THEN BlockLen
  ELSE IF BlockLen < BTREE_INFO_LEN THEN 0 ELSE BlockLen - BTREE_INFO_LEN

----------------------------------------------------------------------------
\* The writer.  A record's key starts k units into the key area, its value v units
\* before the end of the values.
ValueEnd == IF hdr.root THEN BlockLen - BTREE_INFO_LEN ELSE BlockLen

\* Two records share no unit, and keys lie below values.
Apart(q, r) ==
  /\ q.k + q.klen <= r.k \/ r.k + r.klen <= q.k
  /\ q.v <= r.v - r.vlen \/ r.v <= q.v - q.vlen
  /\ key_area + q.k + q.klen <= ValueEnd - r.v
  /\ key_area + r.k + r.klen <= ValueEnd - q.v

Fits(r) ==
  /\ r.vlen <= r.v /\ key_area + r.k + r.klen <= ValueEnd - r.v
  /\ \A j \in 1 .. Len(written) : Apart(written[j], r)

KeyLens == IF hdr.fixed THEN {key_len} ELSE Lens
ValLens == IF hdr.fixed THEN {val_len} ELSE Lens
Room == 0 .. ValueEnd - key_area
Records == [k : Room, klen : KeyLens, v : Room, vlen : ValLens]

\* One more record, somewhere.
Put(r) ==
  /\ npc = "writing" /\ Len(written) < MaxRecords
  /\ (Len(written) + 1) * entry_len <= hdr.toc_len
  /\ Fits(r)
  /\ written' = Append(written, r)
  /\ UNCHANGED <<hdr, block, damaged, npc, i, out>>

\* Field f of the table entry of a record.
TocField(r, f) == IF hdr.fixed THEN <<r.k, r.v>>[f] ELSE <<r.k, r.klen, r.v, r.vlen>>[f]

TocUnit(j, f) == toc_start + (j - 1) * entry_len + f - 1

\* Whose table entry, key or value a unit is part of.
EntryAt(u) == (u - toc_start) \div entry_len + 1
InKey(u, r) == key_area + r.k <= u /\ u < key_area + r.k + r.klen
InVal(u, r) == ValueEnd - r.v <= u /\ u < ValueEnd - r.v + r.vlen

\* A unit of the node as it is written.
UnitAt(u) ==
  IF toc_start <= u /\ EntryAt(u) <= Len(written)
  THEN Toc(TocField(written[EntryAt(u)], ((u - toc_start) % entry_len) + 1))
  ELSE IF \E j \in 1 .. Len(written) : InKey(u, written[j])
  THEN LET j == CHOOSE n \in 1 .. Len(written) : InKey(u, written[n])
       IN  Unit(0, <<"key", j, u - (key_area + written[j].k)>>)
  ELSE IF \E j \in 1 .. Len(written) : InVal(u, written[j])
  THEN LET j == CHOOSE n \in 1 .. Len(written) : InVal(u, written[n])
       IN  Unit(0, <<"val", j, u - (ValueEnd - written[j].v)>>)
  ELSE Spare

Written == [u \in 0 .. BlockLen - 1 |-> UnitAt(u)]

Counted(n) == [hdr EXCEPT !.nkeys = n]

\* The node is complete, or one field of one table entry is malformed, or the count
\* of the header is too large; it is read.
Finish ==
  /\ npc = "writing"
  /\ \/ block' = Written /\ hdr' = Counted(Len(written)) /\ damaged' = 0
     \/ \E j \in 1 .. Len(written), f \in 1 .. entry_len, n \in BadNumbers :
          /\ block' = [Written EXCEPT ![TocUnit(j, f)] = Toc(n)]
          /\ hdr' = Counted(Len(written))
          /\ damaged' = j
     \/ /\ block' = Written /\ damaged' = 0
        /\ \E n \in BadNumbers : n > Len(written) /\ hdr' = Counted(n)
  /\ npc' = "loop"
  /\ UNCHANGED <<written, i, out>>

----------------------------------------------------------------------------
nkeys == IF hdr.nkeys < MAX_BTN_NKEYS THEN hdr.nkeys ELSE MAX_BTN_NKEYS

\* le_u16: 0 past the end.
le_u16(u) == IF u < BlockLen THEN block[u].n ELSE 0

entry == toc_start + i * entry_len

\* A test that takes the last entry of a full table for out of bounds.
InToc_Strict == entry + entry_len < key_area /\ entry + entry_len <= BlockLen

InToc == entry + entry_len <= key_area /\ entry + entry_len <= BlockLen

koff == le_u16(entry)
voff == IF hdr.fixed THEN le_u16(entry + 1) ELSE le_u16(entry + 2)
this_key_len == IF hdr.fixed THEN key_len ELSE le_u16(entry + 1)
this_val_len == IF hdr.fixed THEN val_len ELSE le_u16(entry + 3)

kstart == key_area + koff
vstart == val_base - voff

\* block.get(start .. start + len)
InBlock(start, len) == start + len <= BlockLen
Slice(start, len) == [j \in 1 .. len |-> block[start + j - 1].of]

Found == voff <= val_base /\ InBlock(kstart, this_key_len) /\ InBlock(vstart, this_val_len)

\* One turn of the loop: an entry that does not lie in the node is passed over.
Turn ==
  /\ npc = "loop" /\ i < nkeys /\ InToc
  /\ \/ ~Found /\ UNCHANGED out
     \/ /\ Found
        /\ out' = Append(out, [at |-> i + 1, key |-> Slice(kstart, this_key_len),
                               value |-> Slice(vstart, this_val_len)])
  /\ i' = i + 1
  /\ UNCHANGED <<node, npc>>

\* The loop ends with the count, or at the end of the table.
End ==
  /\ npc = "loop"
  /\ \/ i = nkeys
     \/ i < nkeys /\ ~InToc
  /\ npc' = "done"
  /\ UNCHANGED <<node, i, out>>

NodeNext ==
  \/ \E r \in Records : Put(r)
  \/ Finish
  \/ Turn
  \/ End

NodeSpec == NodeInit /\ [][NodeNext]_nodevars

----------------------------------------------------------------------------
NodeEntry == [at : Nat, key : Seq(Tag), value : Seq(Tag)]
Record == [k : Nat, klen : Nat, v : Nat, vlen : Nat]

\* Type invariant.
NodeTypeOK ==
  /\ hdr \in NodeHeader
  /\ block \in [0 .. BlockLen - 1 -> [n : Nat, of : Tag]]
  /\ written \in Seq(Record)
  /\ damaged \in 0 .. Len(written)
  /\ npc \in {"writing", "loop", "done"}
  /\ i \in 0 .. nkeys
  /\ out \in Seq(NodeEntry)

\* The entry a record should give.
EntryOf(j) ==
  LET r == written[j]
  IN  [at |-> j, key |-> [n \in 1 .. r.klen |-> <<"key", j, n - 1>>],
                 value |-> [n \in 1 .. r.vlen |-> <<"val", j, n - 1>>]]

SoundNode == damaged = 0 /\ hdr.nkeys = Len(written)

\* A sound node gives every record with exactly its key and its value, in the order
\* of the table, and nothing else, wherever the two lie, in roots and other nodes,
\* leaves and index nodes, with entries of fixed and of variable size; and whatever
\* comes out of a node with a malformed table entry or a count that is too large, no
\* other record is distorted or moved by it (node_entries).
EntriesAsWritten ==
  npc = "done" =>
    /\ \A n \in 1 .. Len(out) :
         out[n].at <= Len(written) /\ out[n].at # damaged => out[n] = EntryOf(out[n].at)
    /\ \A m, n \in 1 .. Len(out) : m < n => out[m].at < out[n].at
    /\ SoundNode => Len(out) = nkeys /\ \A j \in 1 .. nkeys : out[j] = EntryOf(j)

\* A node with an entry "whose key/value slice would run past the node" gives no
\* entry at all, as the comment of node_entries says; the code passes over the one
\* and returns the others.
MalformedIsEmpty ==
  npc = "done" /\ damaged # 0 /\ (\E f \in 1 .. entry_len : block[TocUnit(damaged, f)].n > BlockLen)
    => out = << >>
=============================================================================
