------------------------------- MODULE MCOmap -------------------------------
(* Trees: every ordered tree of two leaves below a root, and of four leaves   *)
(* in two index nodes, over subsets of six keys, with tight separators and    *)
(* with the loosest ones, and with the first leaf damaged.  Graphs: three     *)
(* blocks with arbitrary links, damaged checksums, keys out of order, empty   *)
(* nodes and links out of the image, some past any offset; and a chain deeper *)
(* than the cap.                                                              *)
EXTENDS OmapRefinement, SequencesExt

Keys == 1 .. 6
EntryOf(n, ptr) == [oid |-> ((n - 1) \div 3) + 1, xid |-> ((n - 1) % 3) + 1, ptr |-> ptr]
LeafEntry(n) == EntryOf(n, 10 + n)

Nth(S, j) == CHOOSE n \in S : Cardinality({m \in S : m <= n}) = j

Leaf(S) ==
  [cksum |-> TRUE, level |-> 0, leaf |-> TRUE,
   entries |-> [j \in 1 .. Cardinality(S) |-> LeafEntry(Nth(S, j))]]
Index(level, s) == [cksum |-> TRUE, level |-> level, leaf |-> FALSE, entries |-> s]

\* The keys of S above cut a and up to cut b.
Part(S, a, b) == {n \in S : a < n /\ n <= b}

\* The separator of the part that begins after cut a.
Sep(S, loose, a) == IF loose THEN a + 1 ELSE Min({n \in S : a < n})

Image(tree, content, oids, x) ==
  [size_ok |-> TRUE, header |-> [omap |-> TRUE, cksum |-> TRUE, tree_oid |-> 1],
   paddrs |-> DOMAIN tree, tree |-> tree, content |-> content, fs_oids |-> oids, xid |-> x]

LeafContent(S) == {LeafEntry(n) : n \in S}

TwoLeaves(S, a, loose, oids, x) ==
  LET l == Part(S, 0, a)
      r == Part(S, a, 6)
  IN  Image(<<Index(1, <<EntryOf(Sep(S, loose, 0), 2), EntryOf(Sep(S, loose, a), 3)>>), Leaf(l), Leaf(r)>>,
            <<LeafContent(S), LeafContent(l), LeafContent(r)>>, oids, x)

FourLeaves(S, a, b, c, loose, oids, x) ==
  LET P(lo, hi) == Part(S, lo, hi)
      I(lo, ptr) == EntryOf(Sep(S, loose, lo), ptr)
  IN  Image(<<Index(2, <<I(0, 2), I(b, 3)>>), Index(1, <<I(0, 4), I(a, 5)>>), Index(1, <<I(b, 6), I(c, 7)>>),
              Leaf(P(0, a)), Leaf(P(a, b)), Leaf(P(b, c)), Leaf(P(c, 6))>>,
            <<LeafContent(S), LeafContent(P(0, b)), LeafContent(P(b, 6)),
              LeafContent(P(0, a)), LeafContent(P(a, b)), LeafContent(P(b, c)), LeafContent(P(c, 6))>>,
            oids, x)

Requests == {<<1>>, <<2, 1>>, <<3>>}

TreeImages ==
  {TwoLeaves(S, a, loose, oids, x) :
     S \in {T \in SUBSET Keys : T \cap 1 .. 3 # {} /\ T \cap 4 .. 6 # {}},
     a \in {3}, loose \in BOOLEAN, oids \in Requests, x \in 0 .. 3}
  \cup
  UNION {{[FourLeaves(S, cut[1], cut[2], cut[3], loose, oids, x) EXCEPT !.tree[4].cksum = c]
            : loose \in BOOLEAN, oids \in Requests, x \in 1 .. 2, c \in BOOLEAN}
         : <<S, cut>> \in {<<T, u>> \in (SUBSET Keys) \X (Keys \X Keys \X Keys) :
              /\ u[1] \in T /\ u[2] \in T /\ u[3] \in T
              /\ u[1] < u[2] /\ u[2] < u[3] /\ Part(T, u[3], 6) # {}}}

Link(x, ptr) == [oid |-> 1, xid |-> x, ptr |-> ptr]
Links == {Link(x, p) : x \in 1 .. 2, p \in 1 .. 4}
Indexes(n) == {Index(1, s) : s \in BoundedSeq(Links, n)}
Leaves == {[cksum |-> TRUE, level |-> 0, leaf |-> TRUE, entries |-> s]
             : s \in BoundedSeq({Link(x, 10 + x) : x \in 1 .. 2}, 2)}
Odd == {[cksum |-> FALSE, level |-> 0, leaf |-> TRUE, entries |-> <<Link(1, 11)>>],
        [cksum |-> TRUE, level |-> 1, leaf |-> TRUE, entries |-> <<Link(1, 11)>>]}

GraphImages ==
  {Image(<<r, c, d>>, [p \in 1 .. 3 |-> {}], <<1>>, 1)
     : r \in Indexes(2) \cup Leaves, c \in Indexes(1) \cup Leaves \cup Odd, d \in Indexes(1) \cup Leaves \cup Odd}
  \cup
  {[Image(<<Index(1, <<Link(1, 1)>>)>>, <<{}>>, <<1>>, 1) EXCEPT !.size_ok = s, !.header.omap = o, !.header.cksum = c]
     : s \in BOOLEAN, o \in BOOLEAN, c \in BOOLEAN}

Chain == Image([p \in 1 .. 5 |-> Index(5 - p, <<Link(1, p + 1)>>)], [p \in 1 .. 5 |-> {}], <<1>>, 1)

Beyond == Image(<<Index(1, <<Link(1, LastPaddr + 1)>>)>>, <<{}>>, <<1>>, 1)

MCImages == TreeImages \cup GraphImages \cup {Chain, Beyond}
=============================================================================
