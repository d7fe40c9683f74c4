---------------------------- MODULE MCCheckpoint ----------------------------
(* Every ring of three slots over the blocks that exercise each test of the *)
(* scans, against block zeros that pass or fail one bootstrap check each.   *)
EXTENDS Checkpoint

B(type, magic, cksum, xid, size, map) ==
  [type |-> type, magic |-> magic, cksum |-> cksum, xid |-> xid, block_size |-> size,
   fusion |-> FALSE, tree |-> FALSE, map |-> map]

M(oid, paddr) == [oid |-> oid, paddr |-> paddr]

Maps == {<< >>, <<M(1, 10)>>, <<M(1, 11), M(2, 12), M(3, 13)>>}

MCBlocks ==
  {B("eof", 0, FALSE, 0, 0, << >>), B("other", 0, TRUE, 2, 0, << >>)}
    \cup {B("nxsb", m, c, x, 4, << >>) : m \in {0, 1}, c \in BOOLEAN, x \in 1 .. 3}
    \cup {B("nxsb", 1, TRUE, 3, 9, << >>)}
    \cup {B("map", 0, c, x, 0, l) : c \in BOOLEAN, x \in 1 .. 2, l \in Maps}

Good == B("nxsb", 1, TRUE, 1, 4, << >>)

MCZeroBlocks ==
  {Good, B("eof", 0, FALSE, 0, 0, << >>), [Good EXCEPT !.magic = 0], [Good EXCEPT !.cksum = FALSE],
   [Good EXCEPT !.fusion = TRUE], [Good EXCEPT !.tree = TRUE], [Good EXCEPT !.block_size = 9]}
=============================================================================
