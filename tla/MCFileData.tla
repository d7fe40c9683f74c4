---------------------------- MODULE MCFileData -----------------------------
(* Plain files: blocks of two bytes; sizes up to five bytes and one over the   *)
(* cap; one or two extents in either order of the tree, at any offset, plain,  *)
(* sparse or encrypted under consecutive tweaks, inside the image or past it;  *)
(* with and without the key.  Compressed files: contents of zero to five bytes *)
(* in chunks of two, written in every layout with zero to two unused slots,    *)
(* the fork embedded or scattered over the image; and the same with one cell   *)
(* replaced, the fork cut short or the header altered.  Inodes: up to three    *)
(* extended fields, the value cut at every byte.  Attributes: up to four,      *)
(* embedded or streams, with ids up to 2, through buffers of one to four bytes.*)
EXTENDS DataStreams, SequencesExt

X(name, form, oid, size) ==
  [name |-> name, form |-> form, dstream_oid |-> oid, size |-> size,
   bytes |-> [k \in 1 .. IF form = "Embedded" THEN size ELSE 0 |-> Byte(100 * oid + k, TRUE)]]

\* The value of an inode with some fields, each value padded to 8 bytes, cut to len.
Value(fs, len) ==
  LET pad(n) == ((n + 7) \div 8) * 8
      start[k \in 1 .. Len(fs) + 1] == IF k = 1 THEN 4 + 4 * Len(fs) ELSE start[k - 1] + pad(fs[k - 1].size)
      whole == 92 + start[Len(fs) + 1]
  IN  [len |-> IF len < whole THEN len ELSE whole,
       fields |-> [k \in DOMAIN fs |-> [type |-> fs[k].type, size |-> fs[k].size,
                                       start |-> start[k], content |-> fs[k].content]]]

F(type, size, content) == [type |-> type, size |-> size, content |-> content]
Dstream(n) == F(DstreamType, 40, n)

E(l, n, p, c) == [logical_offset |-> l, len |-> n, phys_block_num |-> p, crypto_id |-> c]

\* Blocks 1 and 2 are plain, 3 to 5 encrypted under tweaks 7, 8 and 9.
Tweaks == [b \in 0 .. ImageBlocks - 1 |-> IF b >= 3 THEN b + 4 ELSE 0]

NoHeader == [type |-> 0, size |-> 0, typed |-> FALSE, whole |-> FALSE, magic |-> FALSE,
             inline |-> << >>, fork |-> << >>, has_fork |-> FALSE]

File(size, xs, exts_, vek) ==
  [value |-> Value(<<Dstream(size)>>, 200), private_id |-> 1, xattrs |-> xs, streams |-> {1, 2},
   extents |-> <<exts_, <<E(0, 2, 1, 0)>> >>, vek |-> vek, tweak |-> Tweaks,
   header |-> NoHeader, fork |-> << >>, cell |-> << >>, written |-> FALSE, contents |-> << >>]

----------------------------------------------------------------------------
Places == {<<0, 0>>, <<1, 0>>, <<3, 7>>, <<4, 8>>, <<4, 7>>, <<5, 9>>, <<21, 0>>}

Exts == {E(l, n, q[1], q[2]) : l \in {0, 2, 4}, n \in {2, 4}, q \in Places}

ExtentLists == {<< >>} \cup {<<e>> : e \in Exts} \cup {<<e, g>> : e \in Exts, g \in Exts}

Plain ==
  {File(n, << >>, s, v) : n \in {1, 3, 4, 5}, s \in ExtentLists, v \in BOOLEAN}
    \cup {File(n, << >>, <<e>>, v) : n \in {0, 11}, e \in Exts, v \in BOOLEAN}

Links == {File(3, <<X("symlink", f, 2, 2)>>, <<E(0, 4, 1, 0)>>, FALSE) : f \in {"Embedded", "Stream"}}

----------------------------------------------------------------------------
Text == <<"a", "b", "c", "d", "e">>

Pay(t, n, inline, fork, has) ==
  [type |-> t, size |-> n, inline |-> inline, fork |-> fork, has |-> has]

RawOf(s) == [k \in DOMAIN s |-> D!Raw(s[k])]
Chunks(n) == (n + ChunkSize - 1) \div ChunkSize
ChunkOf(n, k) == SubSeq(Text, (k - 1) * ChunkSize + 1, IF k * ChunkSize < n THEN k * ChunkSize ELSE n)

Inlines ==
  UNION {LET s == SubSeq(Text, 1, n)
             m == <<D!Marker>> \o RawOf(s)
             c == D!Packed(s)
         IN  {Pay(t, n, m, << >>, FALSE) : t \in {3, 7, 9}} \cup {Pay(t, n, <<c>>, << >>, FALSE) : t \in {3, 11}}
               \cup {Pay(1, n, RawOf(s), << >>, FALSE), Pay(7, n, <<c, D!Marker>>, << >>, FALSE)} : n \in 0 .. 5}

\* Zlib: the header's size and a gap, a total, the count, the table, the blocks.
ZlibFork(n) ==
  LET c == Chunks(n) IN
  <<D!Field(2), D!Field(0), D!Field(9), D!Field(c)>>
    \o [k \in 1 .. 2 * c |-> D!Field(IF k % 2 = 1 THEN 2 * c + 1 + k \div 2 ELSE 1)]
    \o [k \in 1 .. c |-> D!Packed(ChunkOf(n, k))]

\* LZVN and LZFSE: c slots of end-offsets and some unused ones, then the chunks.
ChunkedFork(n, unused) ==
  LET c == Chunks(n)
      h == 1 + c + unused
  IN  <<D!Field(h)>> \o [k \in 1 .. c + unused |-> D!Field(IF k <= c THEN h + k ELSE 0)]
        \o [k \in 1 .. c |-> D!Packed(ChunkOf(n, k))]

PlainFork(n, unused) ==
  LET c == Chunks(n)
      h == 1 + c + unused
      end(k) == IF k < c THEN h + k * ChunkSize ELSE IF k = c THEN h + n ELSE 0
  IN  <<D!Field(h)>> \o [k \in 1 .. c + unused |-> D!Field(end(k))] \o RawOf(SubSeq(Text, 1, n))

Forks ==
  {Pay(4, n, << >>, ZlibFork(n), TRUE) : n \in 0 .. 5}
    \cup {Pay(t, n, << >>, ChunkedFork(n, u), TRUE) : t \in {8, 12}, n \in 0 .. 5, u \in 0 .. 2}
    \cup {Pay(10, n, << >>, PlainFork(n, u), TRUE) : n \in 0 .. 5, u \in 0 .. 2}

----------------------------------------------------------------------------
\* A compressed file: its attribute, and its fork if it has one.
Header(p) == [NoHeader EXCEPT !.type = p.type, !.size = p.size, !.typed = TRUE, !.whole = TRUE,
                              !.magic = TRUE, !.inline = p.inline]

Compressed(p) ==
  [File(3, <<X("other", "Embedded", 1, 1), X("decmpfs", "Embedded", 2, 3)>>
             \o (IF p.has THEN <<X("ResourceFork", "Embedded", 3, 2)>> ELSE << >>), <<E(0, 4, 1, 0)>>, FALSE)
   EXCEPT !.header = Header(p), !.fork = p.fork, !.written = TRUE, !.contents = SubSeq(Text, 1, p.size)]

\* The fork in the image, part plain and part encrypted, in three arrangements:
\* in the order of the blocks, the last part first, or with a hole for its zeros.
Scattered(f, s, at(_), vek) ==
  [f EXCEPT !.xattrs[3] = X("ResourceFork", "Stream", 2, Len(f.fork)), !.extents[2] = s, !.vek = vek,
            !.cell = [b \in {at(k) : k \in DOMAIN f.fork} |-> f.fork[CHOOSE k \in DOMAIN f.fork : at(k) = b]]]

Streams ==
  UNION {LET f == Compressed(p) IN
    UNION {{Scattered(f, <<E(0, 4, 1, 0), E(4, 6, 3, 7)>>, LAMBDA k : k + 1, v),
            Scattered(f, <<E(6, 4, 1, 0), E(0, 6, 3, 7)>>, LAMBDA k : IF k <= 6 THEN k + 5 ELSE k - 5, v),
            Scattered(f, <<E(0, 2, 1, 0), E(4, 6, 3, 7)>>, LAMBDA k : k + 1, v)}
           : v \in BOOLEAN} : p \in {q \in Forks : Len(q.fork) <= 10}}

\* One part of a compressed file altered.
Damaged ==
  UNION {LET f == [Compressed(p) EXCEPT !.written = FALSE] IN
         {[f EXCEPT !.fork = s] :
            s \in {ReplaceAt(p.fork, k, c) : k \in DOMAIN p.fork,
                                             c \in {D!Field(0), D!Field(3), D!Field(6), D!Field(60), D!Raw("a")}}
                    \cup {SubSeq(p.fork, 1, k) : k \in 0 .. Len(p.fork) - 1}}
         \cup {[f EXCEPT !.xattrs = SubSeq(@, 1, 2)]} : p \in Forks}

Odd ==
  UNION {LET f == [Compressed(p) EXCEPT !.written = FALSE] IN
         {[f EXCEPT !.header.typed = FALSE, !.header.whole = FALSE], [f EXCEPT !.header.whole = FALSE],
          [f EXCEPT !.header.magic = FALSE], [f EXCEPT !.header.size = @ + 1], [f EXCEPT !.header.inline = << >>]}
         \cup {[f EXCEPT !.header.type = t] : t \in {1, 3, 5, 7, 11, 13, 14}} : p \in Forks \cup Inlines}

----------------------------------------------------------------------------
\* Inodes: a name, a size, another field of four bytes, and a cut.
Fields == {F(NameType, 3, 7), F(NameType, 8, 7), Dstream(3), F(3, 4, 0), F(13, 8, 0)}

FieldLists ==
  {s \in UNION {[1 .. n -> Fields] : n \in 0 .. 3} : \A j, k \in DOMAIN s : j # k => s[j].type # s[k].type}

Values == UNION {LET v == Value(s, 200) IN {[v EXCEPT !.len = n] : n \in 88 .. v.len} : s \in FieldLists}

Inodes == {[File(0, << >>, <<E(0, 4, 1, 0)>>, FALSE) EXCEPT !.value = v] : v \in Values}

----------------------------------------------------------------------------
\* Files with attributes.
Attribute == {X("other", "Embedded", 4, 0), X("other", "Embedded", 5, 3), X("symlink", "Embedded", 6, 1),
              X("other", "Stream", 2, 5)}

Attributed ==
  {File(3, xs, <<E(0, 4, 1, 0)>>, TRUE) : xs \in UNION {[1 .. n -> Attribute] : n \in 0 .. 4}}

MCWindowed ==
  {[f EXCEPT !.extents[2] = <<E(0, 2, 2, 0), E(4, 4, 3, 7)>>] : f \in Attributed}
    \cup {File(n, << >>, s, TRUE) : n \in {0, 1, 4, 5}, s \in {<<E(0, 4, 1, 0)>>, <<E(0, 4, 3, 7), E(4, 2, 1, 0)>>}}
    \cup {Compressed(p) : p \in {q \in Inlines \cup Forks : q.size >= 3}} \cup Links

MCFiles ==
  Inodes \cup Plain \cup {Compressed(p) : p \in Inlines \cup Forks} \cup Streams \cup Damaged \cup Odd
=============================================================================
