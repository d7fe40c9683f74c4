-------------------------- MODULE MCSnapshotMount --------------------------
(* Transactions over two objects and three snapshot names, few enough blocks    *)
(* for freed ones to be used again.  Found trees: three snapshots and their     *)
(* names, distributed over three leaves in any way, below a root or below two   *)
(* index nodes, sound or with one damaged node, the root in block 9; and three  *)
(* nodes with arbitrary links, the root's own number among them.                *)
EXTENDS SnapshotMount, TLC

CONSTANTS NameA, NameB, NameC

MCNames == {NameA, NameB, NameC}

\* Nothing tells the two objects apart.
MCSymmetry == Permutations(Oids)

R(t, x, n, r) == [type |-> t, xid |-> x, name |-> n, ref |-> r]

\* The names are out of xid order, and one key does not decode.
Records == <<R("SnapMetadata", 3, NameA, 0), R("SnapMetadata", 5, NameB, 0), R("SnapMetadata", 8, NameB, 0),
             R("SnapName", 5, NameB, 0), R("SnapName", 3, NoName, 0)>>

LeafOf(S) == [cksum |-> TRUE, level |-> 0, leaf |-> TRUE,
              entries |-> LET nth(j) == CHOOSE n \in S : Cardinality({m \in S : m <= n}) = j
                          IN  [j \in 1 .. Cardinality(S) |-> Records[nth(j)]]]
Index(level, refs) ==
  [cksum |-> TRUE, level |-> level, leaf |-> FALSE,
   entries |-> [k \in DOMAIN refs |-> R("other", 0, NoName, refs[k])]]

\* The root is in block root, node o in block 10 + o.
Sapling(root, rootNode, nodes, stored) ==
  [omap_header |-> "ok", oids |-> DOMAIN nodes, paddrs |-> {root} \cup {10 + o : o \in DOMAIN nodes},
   omap |-> [o \in DOMAIN nodes |-> [error |-> "None", paddr |-> 10 + o]],
   blocks |-> [p \in {root} \cup {10 + o : o \in DOMAIN nodes} |-> IF p = root THEN rootNode ELSE nodes[p - 10]],
   snap_meta_tree_oid |-> root, stored |-> stored]

Split(f, k) == {n \in 1 .. 5 : f[n] = k}

Stored(S) == {Records[n] : n \in S}

Flat(root, f) ==
  Sapling(root, Index(1, <<1, 2, 3>>), [k \in 1 .. 3 |-> LeafOf(Split(f, k))], Stored(1 .. 5))
Deep(root, f) ==
  Sapling(root, Index(2, <<4, 5>>),
         [k \in 1 .. 3 |-> LeafOf(Split(f, k))] \o <<Index(1, <<1, 2>>), Index(1, <<3>>)>>, Stored(1 .. 5))
Alone(S) == Sapling(9, LeafOf(S), << >>, Stored(S))

SoundTrees(root) ==
  {Flat(root, f) : f \in [1 .. 5 -> 1 .. 3]} \cup {Deep(root, f) : f \in [1 .. 5 -> 1 .. 3]}
    \cup {Alone(S) : S \in SUBSET (1 .. 5)}

Damaged(v) ==
  {[v EXCEPT !.blocks[12].cksum = FALSE], [v EXCEPT !.omap[2].error = "OmapUnresolved"],
   [v EXCEPT !.omap[1].error = "CycleGuard"], [v EXCEPT !.omap_header = "ChecksumMismatch"]}

WholeTrees ==
  SoundTrees(9) \cup UNION {Damaged(Deep(9, f)) : f \in {<<1, 2, 3, 1, 2>>, <<3, 3, 2, 1, 1>>, <<2, 2, 2, 2, 2>>}}

Seqs(S, n) == UNION {[1 .. k -> S] : k \in 0 .. n}
Inner == {Index(1, s) : s \in Seqs(1 .. 4, 1)} \cup {[LeafOf({1}) EXCEPT !.cksum = c] : c \in BOOLEAN}
Tangles ==
  {Sapling(root, Index(1, s), <<c, d>>, {}) : root \in {1, 9}, s \in Seqs(1 .. 3, 2), c \in Inner, d \in Inner}
    \cup {[Sapling(9, Index(1, <<1>>), <<LeafOf({1})>>, {}) EXCEPT !.omap[1].paddr = 99]}

\* A chain of nodes longer than the cap allows.
Chain == Sapling(9, Index(5, <<1>>), [o \in 1 .. 5 |-> Index(5 - o, <<o + 1>>)], {})

MCFoundTrees == WholeTrees \cup Tangles \cup {Chain}
=============================================================================
