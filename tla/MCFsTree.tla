------------------------------ MODULE MCFsTree ------------------------------
(* Trees: seven records of a root directory (2), a directory in it (3) that    *)
(* holds two entries of one name, and a file (4); every subset of them in four *)
(* leaves below two index nodes, with tight and with the loosest separators;   *)
(* and the full tree with one node damaged, unmapped or encrypted.  Graphs:    *)
(* three nodes with arbitrary links.                                           *)
EXTENDS FsTree

R(oid, sub, type, name, ref) == [oid |-> oid, sub |-> sub, type |-> type, name |-> name, ref |-> ref]

Records == <<R(2, 0, "inode", 0, 0), R(2, 1, "drec", 1, 3), R(2, 2, "drec", 2, 4),
             R(3, 0, "inode", 0, 0), R(3, 1, "drec", 1, 4), R(3, 2, "drec", 1, 2), R(4, 0, "inode", 0, 0)>>
N == Len(Records)

Nth(S, j) == CHOOSE n \in S : Cardinality({m \in S : m <= n}) = j
Lowest(S) == Nth(S, 1)

Leaf(S) == [cksum |-> TRUE, cipher |-> FALSE, level |-> 0, leaf |-> TRUE,
            entries |-> [j \in 1 .. Cardinality(S) |-> Records[Nth(S, j)]]]
Index(level, s) == [cksum |-> TRUE, cipher |-> FALSE, level |-> level, leaf |-> FALSE, entries |-> s]
Held(S) == {Records[n] : n \in S}

Part(S, a, b) == {n \in S : a < n /\ n <= b}

\* Node o is mapped to block 10 + o.
Volume(nodes, content) ==
  [omap_header |-> "ok", oids |-> DOMAIN nodes, paddrs |-> {10 + o : o \in DOMAIN nodes},
   omap |-> [o \in DOMAIN nodes |-> [error |-> "None", paddr |-> 10 + o, encrypted |-> FALSE]],
   blocks |-> [p \in {10 + o : o \in DOMAIN nodes} |-> nodes[p - 10]],
   content |-> content, root_tree_oid |-> 1, vek |-> FALSE]

FourLeaves(S, a, b, c, loose) ==
  LET P(lo, hi) == Part(S, lo, hi)
      I(lo, child) == [Records[IF loose THEN lo + 1 ELSE Lowest(Part(S, lo, N))] EXCEPT !.ref = child]
  IN  Volume(<<Index(2, <<I(0, 2), I(b, 3)>>), Index(1, <<I(0, 4), I(a, 5)>>), Index(1, <<I(b, 6), I(c, 7)>>),
               Leaf(P(0, a)), Leaf(P(a, b)), Leaf(P(b, c)), Leaf(P(c, N))>>,
             <<Held(S), Held(P(0, b)), Held(P(b, N)), Held(P(0, a)), Held(P(a, b)), Held(P(b, c)), Held(P(c, N))>>)

Cuts(S) == {u \in S \X S \X S : u[1] < u[2] /\ u[2] < u[3] /\ Part(S, u[3], N) # {}}

SoundVolumes ==
  UNION {{FourLeaves(S, u[1], u[2], u[3], loose) : u \in Cuts(S), loose \in BOOLEAN} : S \in SUBSET (1 .. N)}

Encrypted(v, vek) ==
  [v EXCEPT !.vek = vek, !.omap = [o \in v.oids |-> [v.omap[o] EXCEPT !.encrypted = TRUE]],
            !.blocks = [p \in v.paddrs |-> [v.blocks[p] EXCEPT !.cipher = TRUE]]]

\* The ways one volume can be damaged, around node o.
Damaged(v, o) ==
  {[v EXCEPT !.blocks[10 + o].cksum = FALSE],
   [v EXCEPT !.omap[o].error = "OmapUnresolved"],
   [v EXCEPT !.omap[o].error = "CycleGuard"],
   [v EXCEPT !.omap[o].encrypted = TRUE, !.vek = TRUE],
   [v EXCEPT !.omap[o].encrypted = TRUE, !.blocks[10 + o].cipher = TRUE],
   [v EXCEPT !.omap_header = "ChecksumMismatch"],
   Encrypted(v, TRUE), Encrypted(v, FALSE)}

TreeVolumes ==
  SoundVolumes \cup UNION {Damaged(FourLeaves(1 .. N, u[1], u[2], u[3], FALSE), o) : u \in Cuts(1 .. N), o \in {3, 5}}

Q(op, oid, path) == [op |-> op, oid |-> oid, path |-> path]

MCRequests ==
  {Q("list_dir", 2, << >>), Q("list_dir", 3, << >>), Q("lookup_child", 3, <<1>>), Q("lookup_child", 2, <<2>>),
   Q("load_inode", 3, << >>), Q("open_path", 0, << >>), Q("open_path", 0, <<1, 1>>), Q("open_path", 0, <<2>>)}

Link(n, child) == R(n, 0, "other", 0, child)
Links == {Link(n, o) : n \in 2 .. 3, o \in 1 .. 4}
Seqs(S, n) == UNION {[1 .. k -> S] : k \in 0 .. n}
Inner == {Index(1, s) : s \in Seqs(Links, 1)}
           \cup {[Index(0, <<Records[1]>>) EXCEPT !.cksum = c, !.leaf = TRUE] : c \in BOOLEAN}

GraphVolumes ==
  {Volume(<<r, c, d>>, [o \in 1 .. 3 |-> {}]) : r \in {Index(1, s) : s \in Seqs(Links, 2)}, c \in Inner, d \in Inner}
    \cup {[Volume(<<Index(1, <<Link(2, 1)>>)>>, <<{}>>) EXCEPT !.paddrs = {}, !.blocks = << >>]}


\* A chain of nodes longer than the cap allows.
Chain == Volume([o \in 1 .. 6 |-> Index(6 - o, <<Link(2, o + 1)>>)], [o \in 1 .. 6 |-> {}])

MCVolumes == TreeVolumes \cup GraphVolumes \cup {Chain}
=============================================================================
