------------------------------ MODULE DataProofs ----------------------------
(***************************************************************************)
(* A file's data, for all files, block sizes and images: a data stream is  *)
(* read byte for byte as its extents say, a sound one is refused only for  *)
(* damage elsewhere, and an inode's fields are found as they were written. *)
(***************************************************************************)
EXTENDS DataStreams, TLAPS

----------------------------------------------------------------------------
\* Data streams and inodes.

\* Multiples ascend.
LEMMA Times ==
  ASSUME NEW n \in Nat, NEW a \in Nat, NEW b \in Nat
  PROVE  /\ a * n \in Nat /\ (a + 1) * n = a * n + n
         /\ a <= b => a * n <= b * n
         /\ a < b => a * n + n <= b * n
<1>1. a * n \in Nat /\ (a + 1) * n = a * n + n /\ (a <= b => a * n <= b * n)
  OBVIOUS
<1>2. a < b => (a + 1) * n <= b * n
  OBVIOUS
<1> QED
  BY <1>1, <1>2

\* Quotient and remainder.
LEMMA DivMod ==
  ASSUME NEW m \in Nat, NEW n \in Nat \ {0}
  PROVE  /\ m \div n \in Nat /\ m % n \in 0 .. n - 1
         /\ (m \div n) * n \in Nat
         /\ m = (m \div n) * n + (m % n)
<1>1. m \div n \in Nat /\ m % n \in 0 .. n - 1
  OBVIOUS
<1> DEFINE q == m \div n
           r == m % n
<1>2. m - n * q = r
  OBVIOUS
<1>3. q \in Nat /\ r \in Nat
  BY <1>1
<1> HIDE DEF q, r
<1>4. q * n \in Nat /\ m = q * n + r
  BY ONLY <1>2, <1>3, m \in Nat, n \in Nat
<1> QED
  BY ONLY <1>1, <1>4 DEF q, r

\* A number lies in one of the intervals of length n only.
LEMMA OneInterval ==
  ASSUME NEW n \in Nat, NEW a \in Nat, NEW b \in Nat, NEW x \in Nat,
         a * n <= x, x < a * n + n, b * n <= x, x < b * n + n
  PROVE  a = b
<1>1. (a < b => a * n + n <= b * n) /\ (b < a => b * n + n <= a * n) /\ a * n \in Nat /\ b * n \in Nat
  BY ONLY Times, n \in Nat, a \in Nat, b \in Nat
<1> QED
  BY <1>1

\* Byte x of block p on is in block p + x \div n, at most the last of a whole number of
\* blocks.
LEMMA BlockOf ==
  ASSUME NEW n \in Nat \ {0}, NEW p \in Nat, NEW x \in Nat, NEW len \in Nat, x < len, len % n = 0
  PROVE  /\ (p * n + x) \div n = p + x \div n
         /\ x \div n \in 0 .. (len \div n) - 1
<1> DEFINE q == x \div n
           r == x % n
           l == len \div n
           m == len % n
           y == p * n + x
           s == y \div n
           t == y % n
<1>1. q \in Nat /\ r \in 0 .. n - 1 /\ x = q * n + r
  BY DivMod, Zenon
<1>0. l \in Nat /\ m \in 0 .. n - 1 /\ len = l * n + m /\ m = 0
  BY DivMod, Zenon
<1>3. p * n \in Nat /\ y \in Nat
  BY Times
<1>4. s \in Nat /\ t \in 0 .. n - 1 /\ y = s * n + t
  BY ONLY <1>3, DivMod, n \in Nat \ {0}, Zenon
<1>5. y = p * n + x
  OBVIOUS
<1>6. len % n = 0 /\ x < len
  OBVIOUS
<1> HIDE DEF q, r, l, m, y, s, t
<1>2. l \in Nat /\ len = l * n
  BY ONLY <1>0, n \in Nat
<1>7. q * n \in Nat /\ (p + q) \in Nat /\ (p + q) * n = p * n + q * n
  BY ONLY <1>1, n \in Nat, p \in Nat
<1>8. s = p + q
  <2>1. s * n \in Nat
    BY ONLY <1>4, n \in Nat
  <2>2. (p + q) * n <= y /\ y < (p + q) * n + n /\ s * n <= y /\ y < s * n + n
    BY ONLY <1>1, <1>3, <1>4, <1>5, <1>7, <2>1, n \in Nat
  <2> QED
    BY ONLY <1>3, <1>4, <1>7, <2>2, OneInterval, n \in Nat
<1>9. q < l
  <2>1. CASE l <= q
    <3>1. l * n <= q * n /\ l * n \in Nat
      BY ONLY <1>1, <1>2, <2>1, Times, n \in Nat
    <3> QED
      BY ONLY <1>1, <1>2, <1>6, <1>7, <3>1, n \in Nat
  <2> QED
    BY ONLY <1>1, <1>2, <2>1
<1>10. q \in 0 .. l - 1
  BY ONLY <1>1, <1>2, <1>9
<1> QED
  BY ONLY <1>8, <1>10 DEF q, l, s, y

\* An extent that is one or more whole blocks, inside the image, each encrypted under
\* its own tweak.
Sound(e) ==
  /\ e \in Extent
  /\ e.len > 0 /\ e.len % BlockSize = 0
  /\ e.phys_block_num # 0 =>
       \A n \in 0 .. (e.len \div BlockSize) - 1 :
         /\ e.phys_block_num + n < ImageBlocks
         /\ file.tweak[e.phys_block_num + n] = IF e.crypto_id = 0 THEN 0 ELSE e.crypto_id + n
         /\ e.crypto_id # 0 => file.vek

\* Of a sound extent every byte is read clear: the tweak advances with the block, and
\* never so far that it saturates.
LEMMA ByteIsClear ==
  ASSUME IsFile(file), NEW e, Sound(e), e.phys_block_num # 0, NEW x \in Nat, x < e.len
  PROVE  ByteOf(e, x) = Byte(e.phys_block_num * BlockSize + x, TRUE)
<1> DEFINE p == e.phys_block_num
           c == e.crypto_id
           n == x \div BlockSize
<1>1. p \in Nat /\ c \in Nat /\ e.len \in Nat /\ e.len % BlockSize = 0 /\ BlockSize \in Nat \ {0}
  BY StreamAssumption DEF Sound, Extent
<1>2. (p * BlockSize + x) \div BlockSize = p + n /\ n \in 0 .. (e.len \div BlockSize) - 1
  BY ONLY <1>1, BlockOf, x \in Nat, x < e.len, Zenon
<1>3. /\ p + n < ImageBlocks
      /\ file.tweak[p + n] = IF c = 0 THEN 0 ELSE c + n
      /\ c # 0 => file.vek
  BY ONLY <1>2, Sound(e), p # 0 DEF Sound
<1>4. n \in Nat /\ ImageBlocks \in Nat /\ MaxU64 \in Nat
  BY <1>1, <1>2, StreamAssumption
<1> DEFINE t == file.tweak[p + n]
<1>5. t \in 0 .. MaxU64 /\ file.vek \in BOOLEAN
  <2>1. p + n \in 0 .. ImageBlocks - 1
    BY ONLY <1>1, <1>3, <1>4
  <2> QED
    BY ONLY <2>1, IsFile(file), Zenon DEF IsFile, HasStreams
<1>6. byte_off(e) + x = p * BlockSize + x
  BY DEF byte_off
<1>7. t = IF Decrypts(e) THEN TweakOf(e, x) ELSE 0
  <2>1. Decrypts(e) <=> c # 0
    BY ONLY <1>3, <1>5 DEF Decrypts
  <2>2. CASE c = 0
    BY ONLY <1>3, <2>1, <2>2
  <2>3. CASE c # 0
    <3>1. c + n = t /\ c + n <= MaxU64
      BY ONLY <1>3, <1>5, <2>3, <1>1, <1>4
    <3>2. TweakOf(e, x) = c + n
      BY ONLY <3>1, <1>1, <1>4 DEF TweakOf
    <3> QED
      BY ONLY <2>1, <2>3, <3>1, <3>2
  <2> QED
    BY ONLY <2>2, <2>3
<1> HIDE DEF n, t, p, c
<1>8. ByteOf(e, x) = Byte(p * BlockSize + x, t = IF Decrypts(e) THEN TweakOf(e, x) ELSE 0)
  BY ONLY <1>2, <1>6 DEF ByteOf, t
<1> QED
  BY ONLY <1>7, <1>8, Zenon DEF Byte, p

\* A read of a sound extent, rounded up to whole blocks, stays in the image.
LEMMA ReadIsInImage ==
  ASSUME NEW e, Sound(e), e.phys_block_num # 0, wanted.size \in Nat, e.logical_offset < wanted.size
  PROVE  byte_off(e) <= MaxU64 /\ InImage(e)
<1> DEFINE p == e.phys_block_num
           l == e.len \div BlockSize
           B == BlockSize
           c == copy_len(e)
           u == (c + B - 1) \div B
           v == (c + B - 1) % B
           w == e.len % BlockSize
           S == Span(e)
<1>1. p \in Nat /\ e.len \in Nat /\ e.len % B = 0 /\ e.len > 0 /\ B \in Nat \ {0}
      /\ ImageBlocks \in Nat /\ e.logical_offset \in Nat /\ MaxU64 \in Nat /\ ImageBlocks * B <= MaxU64
  BY StreamAssumption DEF Sound, Extent
<1>2. c \in Nat /\ c <= e.len
  BY <1>1 DEF copy_len
<1>3. l \in Nat /\ w \in 0 .. B - 1 /\ e.len = l * B + w /\ w = 0
  BY ONLY <1>1, DivMod, Zenon
<1>4. u \in Nat /\ v \in 0 .. B - 1 /\ c + B - 1 = u * B + v
  <2>1. c + B - 1 \in Nat
    BY ONLY <1>1, <1>2
  <2> QED
    BY ONLY <1>1, <2>1, DivMod, Zenon
<1>5. \A n \in 0 .. l - 1 : p + n < ImageBlocks
  BY ONLY Sound(e), p # 0 DEF Sound
<1>6. byte_off(e) = p * B /\ (S = u * B \/ S = c)
  BY ONLY TRUE DEF byte_off, Span
<1>7. InImage(e) <=> (S = 0 \/ byte_off(e) + S <= ImageBlocks * B)
  BY ONLY TRUE DEF InImage
<1> HIDE DEF p, l, B, c, u, v, w, S
<1>8. e.len = l * B
  BY ONLY <1>1, <1>3
<1>9. l > 0
  <2>1. CASE l = 0
    BY ONLY <1>1, <1>8, <2>1
  <2> QED
    BY ONLY <1>3, <2>1
<1>10. p + (l - 1) < ImageBlocks
  BY ONLY <1>3, <1>5, <1>9
<1>11. (p + l) * B <= ImageBlocks * B /\ (p + l) * B = p * B + l * B /\ p * B \in Nat /\ l * B \in Nat
  <2>1. p + l <= ImageBlocks /\ p + l \in Nat
    BY ONLY <1>1, <1>3, <1>10
  <2>2. (p + l) * B <= ImageBlocks * B
    BY ONLY <1>1, <2>1, Times
  <2> QED
    BY ONLY <1>1, <1>3, <2>2
<1>12. u <= l
  <2>1. CASE l < u
    <3>1. l * B + B <= u * B /\ u * B \in Nat
      BY ONLY <1>1, <1>3, <1>4, <2>1, Times
    <3> QED
      BY ONLY <1>1, <1>2, <1>4, <1>8, <1>11, <3>1
  <2> QED
    BY ONLY <1>3, <1>4, <2>1
<1>13. u * B <= l * B /\ u * B \in Nat
  BY ONLY <1>1, <1>3, <1>4, <1>12, Times
<1>14. S \in Nat /\ S <= l * B
  BY ONLY <1>2, <1>6, <1>8, <1>11, <1>13
<1>15. ImageBlocks * B \in Nat
  BY ONLY <1>1
<1>16. byte_off(e) <= MaxU64 /\ byte_off(e) + S <= ImageBlocks * B
  BY ONLY <1>1, <1>6, <1>11, <1>14, <1>15
<1> QED
  BY ONLY <1>7, <1>16

\* The parts of the state that are numbers, and the reader's place in the attributes.
ReaderTyped ==
  /\ IsFile(file)
  /\ wanted.oid \in Nat /\ wanted.size \in Nat
  /\ inode \in [name : Nat \cup {-1}, size : Nat \cup {-1}]
  /\ value = file.value
  /\ stream \in Nat \cup {-1} /\ (op = "read_xattr_at" => stream \in Nat)

\* A step that only moves the caller on.
Move ==
  /\ fpc \notin {"stream", "copy", "failed"} /\ fpc' \notin {"stream", "copy", "failed"}
  /\ UNCHANGED <<file, wanted, exts, next, out, error>>

\* A step that takes bytes from elsewhere.
Elsewhere ==
  /\ fpc # "failed" /\ fpc' = "done" /\ wanted' = Nothing
  /\ UNCHANGED <<file, error>>

\* A step that asks for a stream.
Asks(oid, size, use) == fpc \notin {"copy", "failed"} /\ ReadStream(oid, size, use)

\* What a step of the reader or of the adapter is to the stream it reads.
StreamStep ==
  \/ UNCHANGED streamvars
  \/ Fail("Structural") \/ Fail("Decmpfs")
  \/ Move \/ Elsewhere
  \/ \E oid, size \in Nat, use \in {"data", "fork"} : Asks(oid, size, use)
  \/ StreamNext

\* The attributes of a file, and the numbers in them.
LEMMA FileNumbers ==
  ASSUME NEW f, IsFile(f)
  PROVE  /\ f.private_id \in Nat
         /\ DOMAIN f.xattrs = 1 .. Len(f.xattrs) /\ Len(f.xattrs) \in Nat
         /\ \A k \in 1 .. Len(f.xattrs) : f.xattrs[k].dstream_oid \in Nat /\ f.xattrs[k].size \in Nat
<1>1. f.private_id \in Nat /\ f.xattrs \in Seq(Xattr)
  BY DEF IsFile
<1>2. \A k \in 1 .. Len(f.xattrs) : f.xattrs[k] \in Xattr
  BY <1>1
<1> QED
  BY <1>1, <1>2 DEF Xattr

\* read_data takes the decoder, or asks for the stream of the inode.
LEMMA ReadDataStep == ReaderTyped /\ ReadData => StreamStep
<1> SUFFICES ASSUME ReaderTyped, ReadData PROVE StreamStep
  OBVIOUS
<1>1. CASE WalkFails
  BY <1>1 DEF WalkFails, StreamStep
<1>2. CASE fpc' = "compressed" /\ UNCHANGED <<file, wanted, exts, next, out, error>>
  <2>1. Move
    BY <1>2 DEF ReadData, Move
  <2> QED
    BY <2>1 DEF StreamStep
<1>3. CASE ReadStream(file.private_id, inode_size, "data")
  <2>1. file.private_id \in Nat /\ inode_size \in Nat
    BY FileNumbers DEF ReaderTyped, inode_size
  <2>2. Asks(file.private_id, inode_size, "data")
    BY <1>3 DEF Asks, ReadData
  <2> QED
    BY <2>1, <2>2, Zenon DEF StreamStep
<1> QED
  BY <1>1, <1>2, <1>3, Zenon DEF ReadData

\* read_compressed calls the decoder, or asks for the stream of the fork.
LEMMA ForkStep == ReaderTyped /\ (ReadCompressed \/ ResourceFork) => StreamStep
<1> SUFFICES ASSUME ReaderTyped, ReadCompressed \/ ResourceFork PROVE StreamStep
  OBVIOUS
<1>0. fpc = "compressed"
  BY Zenon DEF ReadCompressed, ResourceFork
<1>1. CASE WalkFails
  BY <1>1 DEF WalkFails, StreamStep
<1>2. CASE Fail("Decmpfs")
  BY <1>2 DEF StreamStep
<1>3. ASSUME NEW h, NEW g, Decompress(h, g) PROVE StreamStep
  <2>1. Move
    BY <1>0, <1>3 DEF Decompress, Move
  <2> QED
    BY <2>1 DEF StreamStep
<1>4. ASSUME NEW k \in DOMAIN file.xattrs, ReadStream(file.xattrs[k].dstream_oid, file.xattrs[k].size, "fork")
      PROVE  StreamStep
  <2>1. file.xattrs[k].dstream_oid \in Nat /\ file.xattrs[k].size \in Nat
    BY FileNumbers DEF ReaderTyped
  <2>2. Asks(file.xattrs[k].dstream_oid, file.xattrs[k].size, "fork")
    BY <1>0, <1>4 DEF Asks
  <2> QED
    BY <2>1, <2>2, Zenon DEF StreamStep
<1> QED
  BY <1>1, <1>2, <1>3, <1>4, Zenon DEF ReadCompressed, ResourceFork

\* Loading an inode, returning and calling again leave the stream alone.
LEMMA ReturnStep ==
  ASSUME InodeLoaded \/ StreamRead \/ Decoded \/ SymlinkTarget \/ LoadInode \/ Returned
  PROVE  StreamStep
<1>1. CASE InodeLoaded
  <2>1. Move
    BY <1>1 DEF InodeLoaded, Move
  <2> QED
    BY <2>1 DEF StreamStep
<1>2. CASE Returned
  <2>1. Move
    BY <1>2 DEF Returned, ReadAt, Move
  <2> QED
    BY <2>1 DEF StreamStep
<1>3. CASE WalkFails \/ Fail("Decmpfs") \/ UNCHANGED streamvars
  BY <1>3 DEF StreamStep, WalkFails
<1>4. ASSUME NEW what, ReturnFile(what) \/ (\E h, g : Decompress(h, g)), fpc \in {"read", "decode", "start"}
      PROVE  StreamStep
  <2>1. Move
    BY <1>4 DEF ReturnFile, Decompress, Move
  <2> QED
    BY <2>1 DEF StreamStep
<1>5. CASE StreamRead
  BY <1>4, <1>5, Zenon DEF StreamRead
<1>6. CASE Decoded
  BY <1>3, <1>4, <1>6, Zenon DEF Decoded
<1>7. CASE SymlinkTarget
  BY <1>3, <1>4, <1>7, Zenon DEF SymlinkTarget
<1>8. CASE LoadInode
  BY <1>3, <1>8, Zenon DEF LoadInode
<1> QED
  BY <1>1, <1>2, <1>5, <1>6, <1>7, <1>8

\* The adapter lists, and reads an attribute from where it is.
LEMMA AdapterStep == ReaderTyped /\ (ListStreams \/ ReadXattrAt) => StreamStep
<1> SUFFICES ASSUME ReaderTyped, ListStreams \/ ReadXattrAt PROVE StreamStep
  OBVIOUS
<1>0. fpc = "start"
  BY Zenon DEF ListStreams, ReadXattrAt
<1>1. CASE WalkFails
  BY <1>1 DEF WalkFails, StreamStep
<1>2. ASSUME NEW id, ReadAt(id), UNCHANGED <<file, wanted, exts, next, out, error>> PROVE StreamStep
  <2>1. Move
    BY <1>0, <1>2 DEF ReadAt, Move
  <2> QED
    BY <2>1 DEF StreamStep
<1>3. ASSUME NEW bytes, Bytes(bytes) PROVE StreamStep
  <2>1. Elsewhere
    BY <1>0, <1>3 DEF Bytes, Elsewhere
  <2> QED
    BY <2>1 DEF StreamStep
<1>4. ASSUME op = "read_xattr_at", stream < Len(file.xattrs),
             ReadStream(file.xattrs[stream + 1].dstream_oid, file.xattrs[stream + 1].size, "data")
      PROVE  StreamStep
  <2>1. stream + 1 \in 1 .. Len(file.xattrs)
    BY <1>4, FileNumbers DEF ReaderTyped
  <2>2. file.xattrs[stream + 1].dstream_oid \in Nat /\ file.xattrs[stream + 1].size \in Nat
    BY <2>1, FileNumbers DEF ReaderTyped
  <2>3. Asks(file.xattrs[stream + 1].dstream_oid, file.xattrs[stream + 1].size, "data")
    BY <1>0, <1>4 DEF Asks
  <2> QED
    BY <2>2, <2>3, Zenon DEF StreamStep
<1>5. CASE ListStreams
  <2>1. CASE ~WalkFails
    <3>1. UNCHANGED <<file, wanted, exts, next, out, error>> /\ \E id : ReadAt(id)
      BY <1>5, <2>1, Zenon DEF ListStreams
    <3> QED
      BY <3>1, <1>2, Zenon
  <2> QED
    BY <1>1, <2>1
<1>6. CASE ReadXattrAt
  BY <1>1, <1>3, <1>4, <1>6, Zenon DEF ReadXattrAt
<1> QED
  BY <1>5, <1>6, SMTT(30)

\* Every step is one of those.
LEMMA StepsOfStream == ReaderTyped /\ [AdapterNext]_<<filevars, adapter>> => StreamStep
<1> SUFFICES ASSUME ReaderTyped, [AdapterNext]_<<filevars, adapter>> PROVE StreamStep
  OBVIOUS
<1>1. CASE UNCHANGED streamvars
  BY <1>1 DEF StreamStep
<1>2. CASE StreamNext
  BY <1>2 DEF StreamStep
<1>3. CASE UNCHANGED <<filevars, adapter>>
  BY <1>1, <1>3 DEF filevars
<1>4. CASE FileNext
  BY <1>1, <1>2, <1>4, ReadDataStep, ForkStep, ReturnStep, Zenon DEF FileNext, Parsing, Streaming, Decoding
<1> QED
  BY <1>3, <1>4, ReturnStep, AdapterStep, Zenon DEF AdapterNext, Core

\* What a field's bytes say is a number.
LEMMA ContentIsNat == IsInodeValue(value) => \A at : ContentAt(at) \in Nat
<1> SUFFICES ASSUME IsInodeValue(value), NEW at PROVE ContentAt(at) \in Nat
  OBVIOUS
<1>1. \A k \in DOMAIN value.fields : value.fields[k].content \in Nat
  <2>1. value.fields \in Seq(XField)
    BY DEF IsInodeValue
  <2>2. \A k \in DOMAIN value.fields : value.fields[k] \in XField
    BY <2>1
  <2> QED
    BY <2>2 DEF XField
<1>2. CASE \E k \in DOMAIN value.fields : value.fields[k].start = at
  <2>1. (CHOOSE k \in DOMAIN value.fields : value.fields[k].start = at) \in DOMAIN value.fields
    BY <1>2, Zenon
  <2>2. ContentAt(at) = value.fields[CHOOSE k \in DOMAIN value.fields : value.fields[k].start = at].content
    BY <1>2, Zenon DEF ContentAt
  <2> QED
    BY <1>1, <2>1, <2>2, Zenon
<1>3. CASE ~\E k \in DOMAIN value.fields : value.fields[k].start = at
  BY <1>3 DEF ContentAt
<1> QED
  BY <1>2, <1>3

\* Two sequences, one after the other.
LEMMA Joined ==
  ASSUME NEW X, NEW a \in Seq(X), NEW b \in Seq(X)
  PROVE  /\ a \o b \in Seq(X) /\ Len(a \o b) = Len(a) + Len(b) /\ DOMAIN (a \o b) = 1 .. Len(a) + Len(b)
         /\ \A k \in 1 .. Len(a) + Len(b) : (a \o b)[k] = IF k <= Len(a) THEN a[k] ELSE b[k - Len(a)]
  OBVIOUS

\* The ids a listing gives.
LEMMA ListedIds ==
  ASSUME IsFile(file), NEW k \in DOMAIN Listing PROVE Listing[k].id \in Nat \cup {-1}
<1> DEFINE s == [j \in DOMAIN file.xattrs |-> [id |-> StreamIdOf(j - 1), size |-> XattrLen(file.xattrs[j])]]
           h == <<[id |-> Default, size |-> inode_size]>>
           L == Len(file.xattrs)
<1>1. L \in Nat /\ DOMAIN file.xattrs = 1 .. L
  BY FileNumbers
<1>2. DOMAIN s = 1 .. L /\ \A j \in 1 .. L : s[j].id = StreamIdOf(j - 1)
  BY <1>1
<1>3. Listing = h \o s
  BY DEF Listing
<1>4. Len(h) = 1 /\ h[1].id = Default
  OBVIOUS
<1> HIDE DEF s, h
<1>8. Len(s) = L
  BY <1>1, <1>2
<1>5. DOMAIN Listing = 1 .. 1 + L /\ \A j \in 1 .. 1 + L : Listing[j] = IF j <= 1 THEN h[j] ELSE s[j - 1]
  <2> DEFINE X == {h[1]} \cup {s[j] : j \in 1 .. L}
  <2>1. h \in Seq(X)
    <3>1. h[1] \in X
      OBVIOUS
    <3> HIDE DEF X
    <3> QED
      BY <3>1 DEF h
  <2>2. s \in Seq(X)
    <3>1. \A j \in 1 .. L : s[j] \in X
      OBVIOUS
    <3>2. s = [j \in 1 .. L |-> s[j]]
      BY <1>1 DEF s
    <3> HIDE DEF X
    <3> QED
      BY <1>1, <3>1, <3>2
  <2> HIDE DEF X
  <2>3. /\ DOMAIN (h \o s) = 1 .. Len(h) + Len(s)
        /\ \A j \in 1 .. Len(h) + Len(s) : (h \o s)[j] = IF j <= Len(h) THEN h[j] ELSE s[j - Len(h)]
    BY ONLY <2>1, <2>2, Joined
  <2> QED
    BY ONLY <1>3, <1>4, <1>8, <2>3
<1>6. CASE k = 1
  BY <1>4, <1>5, <1>6 DEF Default
<1>7. CASE k # 1
  <2>1. k - 2 \in Nat /\ Listing[k].id = StreamIdOf(k - 2)
    BY <1>1, <1>2, <1>5, <1>7, SMTT(30)
  <2> QED
    BY <2>1, <1>1, DataStreamsAssumption DEF StreamIdOf
<1> QED
  BY <1>6, <1>7

\* A call starts with a file.
LEMMA TypedInit == AdapterInit => ReaderTyped
<1> SUFFICES ASSUME AdapterInit PROVE ReaderTyped
  OBVIOUS
<1>1. PICK fs \in {Files, Windowed} : \E ops : FileInit(fs, ops)
  BY Zenon DEF AdapterInit
<1>2. file \in fs /\ value = file.value /\ wanted = Nothing /\ inode = NoInode
  BY <1>1 DEF FileInit, StreamInit, XInit
<1>3. IsFile(file)
  BY <1>2, FileDataAssumption, DataStreamsAssumption
<1>4. stream = -1 /\ op # "read_xattr_at"
  BY DEF AdapterInit, FileInit, Default
<1> QED
  BY <1>2, <1>3, <1>4 DEF ReaderTyped, Nothing, NoInode

\* No step changes the file, and every number it computes is one.
LEMMA TypedStep == ReaderTyped /\ [AdapterNext]_<<filevars, adapter>> => ReaderTyped'
<1> SUFFICES ASSUME ReaderTyped, [AdapterNext]_<<filevars, adapter>> PROVE ReaderTyped'
  OBVIOUS
<1>1. file' = file /\ wanted'.oid \in Nat /\ wanted'.size \in Nat
  <2>1. StreamStep
    BY StepsOfStream
  <2>2. CASE UNCHANGED <<file, wanted>>
    BY <2>2 DEF ReaderTyped
  <2>3. ASSUME NEW oid \in Nat, NEW size \in Nat, NEW use, ReadStream(oid, size, use)
        PROVE  file' = file /\ wanted'.oid \in Nat /\ wanted'.size \in Nat
    BY <2>3 DEF ReadStream
  <2>4. CASE Elsewhere
    BY <2>4 DEF Elsewhere, Nothing
  <2> QED
    BY <2>1, <2>2, <2>3, <2>4, Zenon
    DEF StreamStep, streamvars, Fail, Move, Asks, StreamNext, BeginStream, WalkFails, SkipExtent, CopyExtent, EndStream
<1>2. value' = value /\ inode' \in [name : Nat \cup {-1}, size : Nat \cup {-1}]
  <2>1. CASE UNCHANGED <<value, inode>>
    BY <2>1 DEF ReaderTyped
  <2>2. CASE ParseInode
    BY <2>2 DEF ParseInode, NoInode
  <2>3. CASE FieldTurn
    <3>1. \A at : ContentAt(at) \in Nat
      BY ContentIsNat DEF ReaderTyped, IsFile
    <3>2. FirstU64 \in Nat
      BY <3>1 DEF FirstU64
    <3> DEFINE c == ContentAt(value_off)
    <3>3. c \in Nat
      BY <3>1
    <3>4. /\ value' = value
          /\ inode' = [inode EXCEPT !.name = c] \/ inode' = [inode EXCEPT !.size = FirstU64] \/ inode' = inode
      BY <2>3 DEF FieldTurn
    <3> HIDE DEF c
    <3> QED
      BY <3>2, <3>3, <3>4 DEF ReaderTyped
  <2> QED
    BY <2>1, <2>2, <2>3, Zenon
    DEF AdapterNext, Core, FileNext, LoadInode, Parsing, ParseNext, FieldsEnd, InodeLoaded, xvars, filevars,
        ListStreams, ReadXattrAt, Returned
<1>3. stream' \in Nat \cup {-1} /\ (op' = "read_xattr_at" => stream' \in Nat)
  <2>1. CASE UNCHANGED <<stream, op>>
    BY <2>1 DEF ReaderTyped
  <2>2. CASE Returned
    BY <2>2 DEF Returned, ReadAt, ReaderTyped, Default
  <2>3. CASE ListStreams
    <3>1. ASSUME NEW id \in Nat \cup {-1}, stream' = id, ReadAt(id)
          PROVE  stream' \in Nat \cup {-1} /\ (op' = "read_xattr_at" => stream' \in Nat)
      BY <3>1 DEF ReadAt, Default
    <3>2. IsFile(file) /\ Len(file.xattrs) \in Nat
      BY FileNumbers DEF ReaderTyped
    <3> QED
      BY <2>1, <2>3, <3>1, <3>2, ListedIds, Zenon DEF ListStreams, adapter
  <2> QED
    BY <2>1, <2>2, <2>3, Zenon
    DEF AdapterNext, Core, FileNext, LoadInode, Parsing, InodeLoaded, ReadData, ReadCompressed, ResourceFork,
        Streaming, StreamRead, Decoding, Decoded, SymlinkTarget, ReturnFile, Decompress, ReadXattrAt, filevars, adapter
<1> QED
  BY <1>1, <1>2, <1>3 DEF ReaderTyped

----------------------------------------------------------------------------
\* The extent holds byte i of its stream.
Covers(e, i) == e.phys_block_num # 0 /\ e.logical_offset <= i /\ i < e.logical_offset + e.len

\* Byte i is as the first extents of the loop say.
Filled(i, b, s, n) ==
  \/ b = Zero /\ \A k \in DOMAIN s : k < n => ~Covers(s[k], i)
  \/ \E k \in DOMAIN s : /\ k < n /\ Covers(s[k], i)
                         /\ b = Byte(s[k].phys_block_num * BlockSize + i - s[k].logical_offset, TRUE)

\* Two sequences have the same elements.
SameElements(s, t) ==
  /\ \A k \in DOMAIN s : \E n \in DOMAIN t : s[k] = t[n]
  /\ \A n \in DOMAIN t : \E k \in DOMAIN s : s[k] = t[n]

\* The buffer is exact.
Exact == \A i \in 1 .. wanted.size : Holds(wanted.oid, i - 1, out[i])

\* The loop's invariant: it has put the extents before the one it is at into the
\* buffer, and nothing else.
LoopInv ==
  fpc = "copy" =>
    /\ Len(exts) \in Nat /\ DOMAIN exts = 1 .. Len(exts) /\ next \in Nat \ {0}
    /\ SameElements(exts, ExtentsOf(wanted.oid))
    /\ WellWritten(wanted.oid) => \A i \in 1 .. wanted.size : Filled(i - 1, out[i], exts, next)

\* Once read, a stream stays as it was read, until another one is asked for.
ReadInv ==
  wanted # Nothing /\ WellWritten(wanted.oid) /\ fpc \notin {"stream", "copy", "failed"} => Exact

\* An error ends the call.
ErrorInv == error # "None" => fpc = "failed"

StreamInv == ReaderTyped /\ LoopInv /\ ReadInv /\ ErrorInv /\ RefusesOnlyDamage

\* The extents of a stream are numbers.
LEMMA ExtentNumbers ==
  ASSUME IsFile(file), NEW oid
  PROVE  /\ ExtentsOf(oid) \in Seq(Extent)
         /\ \A k \in DOMAIN ExtentsOf(oid) : ExtentsOf(oid)[k] \in Extent
<1>1. file.extents \in [file.streams -> Seq(Extent)]
  BY DEF IsFile, HasStreams
<1>2. ExtentsOf(oid) \in Seq(Extent)
  BY <1>1 DEF ExtentsOf
<1> QED
  BY <1>2

\* Every extent of a well-written stream is sound.
LEMMA WrittenIsSound ==
  ASSUME IsFile(file), NEW oid, WellWritten(oid), NEW k \in DOMAIN ExtentsOf(oid)
  PROVE  Sound(ExtentsOf(oid)[k])
<1>1. ExtentsOf(oid)[k] \in Extent
  BY ExtentNumbers
<1> QED
  BY <1>1, Zenon DEF WellWritten, Sound

\* While neither the file nor what is wanted of it changes, nor does what it holds.
LEMMA SameStream ==
  ASSUME file' = file, wanted' = wanted
  PROVE  /\ ExtentsOf(wanted.oid)' = ExtentsOf(wanted.oid)
         /\ WellWritten(wanted.oid)' <=> WellWritten(wanted.oid)
         /\ out' = out => (Exact' <=> Exact)
<1>1. \A o : (ExtentsOf(o))' = ExtentsOf(o)
  BY DEF ExtentsOf
<1>2. (WellWritten(wanted.oid))' <=> WellWritten(wanted.oid)
  BY <1>1, ZenonT(30) DEF WellWritten
<1>3. ASSUME out' = out PROVE Exact' <=> Exact
  BY <1>1, <1>3, Zenon DEF Exact, Holds
<1> QED
  BY <1>1, <1>2, <1>3, Zenon

\* The loop starts with the extents in order and a buffer of zeros.
LEMMA BeginKeeps ==
  ASSUME StreamInv, BeginStream, fpc' = "copy"
  PROVE  LoopInv'
<1> DEFINE s == ExtentsOf(wanted.oid)
<1>1. file' = file /\ wanted' = wanted /\ next' = 1 /\ out' = Buffer(wanted.size)
  BY DEF BeginStream, Fail, WalkFails
<1>2. PICK order \in [DOMAIN s -> DOMAIN s] : Sorts(order, s) /\ exts' = [k \in DOMAIN s |-> s[order[k]]]
  BY DEF BeginStream, Fail, WalkFails
<1>3. Len(s) \in Nat /\ DOMAIN s = 1 .. Len(s)
  <2>1. s \in Seq(Extent)
    BY ExtentNumbers DEF StreamInv, ReaderTyped
  <2> HIDE DEF s
  <2> QED
    BY <2>1
<1>4. ExtentsOf(wanted.oid)' = s
  BY <1>1, SameStream
<1> HIDE DEF s
<1>5. DOMAIN exts' = 1 .. Len(s) /\ Len(exts') = Len(s)
  BY <1>2, <1>3
<1>6. SameElements(exts', s)
  <2>1. \A n \in DOMAIN s : \E k \in DOMAIN s : order[k] = n
    BY <1>2, Zenon DEF Sorts
  <2>2. \A k \in DOMAIN s : order[k] \in DOMAIN s
    BY <1>2
  <2>3. DOMAIN exts' = DOMAIN s /\ \A k \in DOMAIN s : exts'[k] = s[order[k]]
    BY <1>2
  <2>4. \A k \in DOMAIN exts' : \E n \in DOMAIN s : exts'[k] = s[n]
    BY ONLY <2>2, <2>3
  <2>5. \A n \in DOMAIN s : \E k \in DOMAIN exts' : exts'[k] = s[n]
    BY ONLY <2>1, <2>3
  <2> QED
    BY ONLY <2>4, <2>5 DEF SameElements
<1>7. \A i \in 1 .. wanted.size : Filled(i - 1, out'[i], exts', 1)
  <2> SUFFICES ASSUME NEW i \in 1 .. wanted.size PROVE Filled(i - 1, out'[i], exts', 1)
    OBVIOUS
  <2>1. out'[i] = Zero
    BY <1>1 DEF Buffer
  <2>2. \A k \in DOMAIN exts' : ~(k < 1)
    BY <1>3, <1>5
  <2> QED
    BY <2>1, <2>2, Zenon DEF Filled
<1>8. Len(exts') \in Nat /\ DOMAIN exts' = 1 .. Len(exts') /\ next' \in Nat \ {0}
  BY <1>1, <1>3, <1>5
<1> QED
  BY <1>1, <1>4, <1>6, <1>7, <1>8, Zenon DEF LoopInv

\* A byte the next extent does not hold stays as it was.
LEMMA NotCovered ==
  ASSUME NEW s, NEW n \in Nat, NEW i, NEW b, Filled(i, b, s, n), DOMAIN s \subseteq Nat,
         n \in DOMAIN s => ~Covers(s[n], i)
  PROVE  Filled(i, b, s, n + 1)
<1>1. \A k \in DOMAIN s : (k < n + 1 <=> k < n \/ k = n)
  OBVIOUS
<1> QED
  BY <1>1, Zenon DEF Filled

\* The extent the loop is at is one of the stream's.
LEMMA LoopExtent ==
  ASSUME StreamInv, fpc = "copy", next <= Len(exts)
  PROVE  /\ next \in Nat /\ next \in DOMAIN exts /\ DOMAIN exts \subseteq Nat /\ exts[next] \in Extent
         /\ WellWritten(wanted.oid) => Sound(exts[next])
<1>1. next \in Nat /\ next \in DOMAIN exts /\ DOMAIN exts \subseteq Nat
  BY DEF StreamInv, LoopInv
<1>2. PICK n \in DOMAIN ExtentsOf(wanted.oid) : exts[next] = ExtentsOf(wanted.oid)[n]
  BY <1>1, Zenon DEF StreamInv, LoopInv, SameElements
<1>3. IsFile(file)
  BY DEF StreamInv, ReaderTyped
<1> QED
  BY <1>1, <1>2, <1>3, ExtentNumbers, WrittenIsSound, Zenon

\* Passing over an extent leaves the buffer right.
LEMMA SkipKeeps ==
  ASSUME StreamInv, SkipExtent
  PROVE  LoopInv'
<1>1. /\ fpc = "copy" /\ next <= Len(exts) /\ Skipped(exts[next]) /\ next' = next + 1
      /\ file' = file /\ fpc' = fpc /\ wanted' = wanted /\ exts' = exts /\ out' = out
  BY DEF SkipExtent
<1>2. next \in Nat /\ next \in DOMAIN exts /\ DOMAIN exts \subseteq Nat /\ exts[next] \in Extent
  BY <1>1, LoopExtent
<1>3. ASSUME WellWritten(wanted.oid), NEW i \in 1 .. wanted.size
      PROVE  Filled(i - 1, out[i], exts, next + 1)
  <2>1. Filled(i - 1, out[i], exts, next)
    BY <1>1, <1>3 DEF StreamInv, LoopInv
  <2>2. ~Covers(exts[next], i - 1)
    BY <1>1, <1>2 DEF StreamInv, ReaderTyped, Skipped, Extent, Covers
  <2> QED
    BY <1>2, <2>1, <2>2, NotCovered
<1>4. /\ Len(exts) \in Nat /\ DOMAIN exts = 1 .. Len(exts) /\ next + 1 \in Nat \ {0}
      /\ SameElements(exts, ExtentsOf(wanted.oid))
  BY <1>1 DEF StreamInv, LoopInv
<1>5. ExtentsOf(wanted.oid)' = ExtentsOf(wanted.oid) /\ (WellWritten(wanted.oid)' <=> WellWritten(wanted.oid))
  BY <1>1, SameStream
<1> QED
  BY <1>1, <1>3, <1>4, <1>5, Zenon DEF LoopInv

\* Copying an extent puts its bytes where they belong, clear, and changes no other.
LEMMA CopyKeeps ==
  ASSUME StreamInv, CopyExtent, fpc' = "copy"
  PROVE  LoopInv'
<1> DEFINE e == exts[next]
<1>1. /\ fpc = "copy" /\ next <= Len(exts) /\ ~Skipped(e) /\ next' = next + 1
      /\ file' = file /\ fpc' = fpc /\ wanted' = wanted /\ exts' = exts
      /\ out' = [i \in 1 .. wanted.size |->
                   IF e.logical_offset < i /\ i <= e.logical_offset + copy_len(e)
                   THEN ByteOf(e, i - 1 - e.logical_offset) ELSE out[i]]
  BY SMTT(30) DEF CopyExtent, Fail
<1>2. next \in Nat /\ next \in DOMAIN exts /\ DOMAIN exts \subseteq Nat /\ e \in Extent
  BY <1>1, LoopExtent, ZenonT(30)
<1>3. ASSUME WellWritten(wanted.oid), NEW i \in 1 .. wanted.size
      PROVE  Filled(i - 1, out'[i], exts, next + 1)
  <2> DEFINE lo == e.logical_offset
             n == e.len
  <2>1. Filled(i - 1, out[i], exts, next)
    BY <1>1, <1>3, ZenonT(30) DEF StreamInv, LoopInv
  <2>2. Sound(e)
    BY <1>1, <1>3, LoopExtent, ZenonT(30)
  <2>3. lo \in Nat /\ n \in Nat /\ wanted.size \in Nat /\ lo < wanted.size /\ e.phys_block_num # 0
        /\ e.phys_block_num \in Nat
    BY <1>1, <1>2 DEF StreamInv, ReaderTyped, Skipped, Extent
  <2>4. copy_len(e) = IF n < wanted.size - lo THEN n ELSE wanted.size - lo
    BY DEF copy_len
  <2>5. (lo < i /\ i <= lo + copy_len(e)) <=> (lo <= i - 1 /\ i - 1 < lo + n)
    BY ONLY <2>3, <2>4, i \in 1 .. wanted.size
  <2>6. CASE lo < i /\ i <= lo + copy_len(e)
    <3>1. i - 1 - lo \in Nat /\ i - 1 - lo < n
      BY ONLY <2>3, <2>5, <2>6, i \in 1 .. wanted.size
    <3>2. out'[i] = ByteOf(e, i - 1 - lo)
      BY <1>1, <2>6, SMTT(30)
    <3>3. ByteOf(e, i - 1 - lo) = Byte(e.phys_block_num * BlockSize + (i - 1 - lo), TRUE)
      BY <2>2, <2>3, <3>1, ByteIsClear, ZenonT(30) DEF StreamInv, ReaderTyped
    <3>4. e.phys_block_num * BlockSize + (i - 1 - lo) = e.phys_block_num * BlockSize + (i - 1) - lo
      <4>1. e.phys_block_num * BlockSize \in Nat
        BY <2>3, Times, StreamAssumption
      <4> DEFINE w == e.phys_block_num * BlockSize
      <4> HIDE DEF w
      <4>2. w + (i - 1 - lo) = w + (i - 1) - lo
        BY ONLY <4>1, <2>3, i \in 1 .. wanted.size DEF w
      <4> QED
        BY ONLY <4>2 DEF w
    <3>5. Covers(e, i - 1) /\ next < next + 1
      BY <1>2, <2>3, <2>5, <2>6 DEF Covers
    <3> QED
      BY ONLY <1>2, <3>2, <3>3, <3>4, <3>5, Zenon DEF Filled
  <2>7. CASE ~(lo < i /\ i <= lo + copy_len(e))
    <3>1. out'[i] = out[i]
      BY <1>1, <2>7
    <3>2. ~Covers(e, i - 1)
      BY ONLY <2>5, <2>7, SMTT(30) DEF Covers
    <3> QED
      BY <1>2, <2>1, <3>1, <3>2, NotCovered, SMTT(30)
  <2> QED
    BY ONLY <2>6, <2>7, SMTT(30)
<1>4. /\ Len(exts) \in Nat /\ DOMAIN exts = 1 .. Len(exts) /\ next + 1 \in Nat \ {0}
      /\ SameElements(exts, ExtentsOf(wanted.oid))
  BY <1>1, SMTT(30) DEF StreamInv, LoopInv
<1>5. ExtentsOf(wanted.oid)' = ExtentsOf(wanted.oid) /\ (WellWritten(wanted.oid)' <=> WellWritten(wanted.oid))
  BY <1>1, SameStream
<1> HIDE DEF e
<1> QED
  BY <1>1, <1>3, <1>4, <1>5, Zenon DEF LoopInv

\* When the loop ends, the buffer is exact.
LEMMA EndKeeps ==
  ASSUME StreamInv, EndStream, WellWritten(wanted.oid)
  PROVE  Exact
<1> DEFINE s == ExtentsOf(wanted.oid)
<1>1. fpc = "copy" /\ next > Len(exts)
  BY DEF EndStream
<1>2. \A k \in DOMAIN exts : k < next
  BY <1>1 DEF StreamInv, LoopInv
<1>3. SameElements(exts, s) /\ \A i \in 1 .. wanted.size : Filled(i - 1, out[i], exts, next)
  BY <1>1 DEF StreamInv, LoopInv
<1> SUFFICES ASSUME NEW i \in 1 .. wanted.size PROVE Holds(wanted.oid, i - 1, out[i])
  BY DEF Exact
<1> HIDE DEF s
<1>4. \A k \in DOMAIN s : s[k] \in Extent
  BY ExtentNumbers DEF StreamInv, ReaderTyped, s
<1>5. CASE out[i] = Zero /\ \A k \in DOMAIN exts : k < next => ~Covers(exts[k], i - 1)
  <2>1. \A k \in DOMAIN s : ~Covers(s[k], i - 1)
    BY <1>2, <1>3, <1>5, Zenon DEF SameElements
  <2>2. ASSUME NEW k \in DOMAIN s
        PROVE  s[k].phys_block_num = 0 \/ i - 1 < s[k].logical_offset \/ i - 1 >= s[k].logical_offset + s[k].len
    <3>1. s[k].logical_offset \in Nat /\ s[k].len \in Nat
      BY <1>4 DEF Extent
    <3> QED
      BY <2>1, <3>1 DEF Covers
  <2> QED
    BY <1>5, <2>2, Zenon DEF Holds, s
<1>6. ASSUME NEW k \in DOMAIN exts, Covers(exts[k], i - 1),
             out[i] = Byte(exts[k].phys_block_num * BlockSize + (i - 1) - exts[k].logical_offset, TRUE)
      PROVE  Holds(wanted.oid, i - 1, out[i])
  <2>1. PICK n \in DOMAIN s : exts[k] = s[n]
    BY <1>3, Zenon DEF SameElements
  <2> QED
    BY <1>6, <2>1, Zenon DEF Covers, Holds, s
<1> QED
  BY <1>3, <1>5, <1>6, Zenon DEF Filled

\* A step keeps the loop's invariant.
LEMMA LoopStep == StreamInv /\ StreamStep => LoopInv'
<1> SUFFICES ASSUME StreamInv, StreamStep, fpc' = "copy" PROVE LoopInv'
  BY DEF LoopInv
<1>1. CASE UNCHANGED streamvars
  <2>1. /\ file' = file /\ fpc' = fpc /\ wanted' = wanted /\ exts' = exts /\ next' = next /\ out' = out
    BY <1>1 DEF streamvars
  <2>2. ExtentsOf(wanted.oid)' = ExtentsOf(wanted.oid) /\ (WellWritten(wanted.oid)' <=> WellWritten(wanted.oid))
    BY <2>1, SameStream
  <2>3. LoopInv
    BY DEF StreamInv
  <2> QED
    BY <2>1, <2>2, <2>3, Zenon DEF LoopInv
<1>2. CASE StreamNext
  <2>1. CASE EndStream
    BY <2>1 DEF EndStream
  <2> QED
    BY <1>2, <2>1, BeginKeeps, SkipKeeps, CopyKeeps, Zenon DEF StreamNext
<1> QED
  BY <1>1, <1>2 DEF StreamStep, Fail, Move, Elsewhere, Asks, ReadStream

\* A step keeps what has been read.
LEMMA ReadStep == StreamInv /\ StreamStep => ReadInv'
<1> SUFFICES ASSUME StreamInv, StreamStep, (wanted # Nothing)', (WellWritten(wanted.oid))',
                    fpc' \notin {"stream", "copy", "failed"}
             PROVE  Exact'
  BY DEF ReadInv
<1>1. ASSUME file' = file, wanted' = wanted, out' = out, fpc \notin {"stream", "copy", "failed"} \/ EndStream PROVE Exact'
  <2>1. wanted # Nothing /\ WellWritten(wanted.oid) /\ (Exact' <=> Exact)
    BY <1>1, SameStream
  <2> QED
    BY <1>1, <2>1, EndKeeps DEF StreamInv, ReadInv
<1>2. CASE UNCHANGED streamvars \/ Move
  BY <1>1, <1>2 DEF streamvars, Move
<1>3. CASE EndStream
  BY <1>1, <1>3 DEF EndStream
<1>4. CASE Elsewhere
  BY <1>4, SMTT(30) DEF Elsewhere
<1>5. CASE BeginStream \/ SkipExtent \/ CopyExtent
  BY <1>5 DEF BeginStream, SkipExtent, CopyExtent, Fail, WalkFails
<1> QED
  BY <1>2, <1>3, <1>4, <1>5 DEF StreamStep, StreamNext, Fail, Asks, ReadStream

\* A step that meets an error ends the call, and a sound stream meets none of its own.
LEMMA ErrorStep == StreamInv /\ StreamStep => ErrorInv' /\ RefusesOnlyDamage'
<1> SUFFICES ASSUME StreamInv, StreamStep PROVE ErrorInv' /\ RefusesOnlyDamage'
  OBVIOUS
<1>0. ErrorInv /\ RefusesOnlyDamage
  BY DEF StreamInv
<1>1. ASSUME file' = file, wanted' = wanted, error' = error, fpc' = fpc \/ fpc # "failed"
      PROVE  ErrorInv' /\ RefusesOnlyDamage'
  <2>1. WellWritten(wanted.oid)' <=> WellWritten(wanted.oid)
    BY <1>1, SameStream
  <2> QED
    BY <1>0, <1>1, <2>1 DEF ErrorInv, RefusesOnlyDamage
<1>2. ASSUME fpc # "failed", error' = error PROVE ErrorInv' /\ RefusesOnlyDamage'
  BY <1>0, <1>2 DEF ErrorInv, RefusesOnlyDamage
<1>3. ASSUME NEW kind, Fail(kind), kind \notin {"FieldOutOfRange", "UnexpectedEof"} PROVE ErrorInv' /\ RefusesOnlyDamage'
  BY <1>3 DEF Fail, ErrorInv, RefusesOnlyDamage
<1>4. ASSUME NEW kind, Fail(kind), wanted.size > MaxFileBytes PROVE ErrorInv' /\ RefusesOnlyDamage'
  <2>1. wanted.size \in Nat /\ MaxFileBytes \in Nat
    BY StreamAssumption DEF StreamInv, ReaderTyped
  <2> QED
    BY <1>4, <2>1 DEF Fail, ErrorInv, RefusesOnlyDamage
<1>5. ASSUME NEW kind, Fail(kind), ~WellWritten(wanted.oid) PROVE ErrorInv' /\ RefusesOnlyDamage'
  <2>1. fpc' = "failed" /\ ~(WellWritten(wanted.oid)')
    BY <1>5, SameStream DEF Fail
  <2> QED
    BY <2>1 DEF ErrorInv, RefusesOnlyDamage
<1>6. CASE CopyExtent
  <2> DEFINE e == exts[next]
  <2>1. fpc = "copy" /\ next <= Len(exts) /\ ~Skipped(e)
    BY <1>6 DEF CopyExtent
  <2>2. CASE WellWritten(wanted.oid)
    <3>1. byte_off(e) <= MaxU64 /\ InImage(e)
      <4>1. Sound(e) /\ e \in Extent
        BY <2>1, <2>2, LoopExtent
      <4>2. e.phys_block_num # 0 /\ wanted.size \in Nat /\ e.logical_offset < wanted.size
        BY <2>1, <4>1 DEF Skipped, Extent, StreamInv, ReaderTyped
      <4> QED
        BY <4>1, <4>2, ReadIsInImage
    <3>2. byte_off(e) \in Nat
      <4>1. e \in Extent
        BY <2>1, LoopExtent
      <4> QED
        BY <4>1, StreamAssumption, Times DEF byte_off, Extent
    <3>3. ~(byte_off(e) > MaxU64)
      BY <3>1, <3>2, StreamAssumption
    <3>4. CASE Fail("Io")
      BY <1>3, <3>4
    <3>5. CASE UNCHANGED <<file, fpc, wanted, exts, error>>
      BY <1>1, <3>5
    <3> QED
      BY <1>6, <3>1, <3>3, <3>4, <3>5, ZenonT(30) DEF CopyExtent
  <2>3. CASE ~WellWritten(wanted.oid)
    <3>1. CASE UNCHANGED <<file, fpc, wanted, exts, error>>
      BY <1>1, <3>1
    <3> QED
      BY <1>5, <1>6, <2>3, <3>1, Zenon DEF CopyExtent
  <2> QED
    BY <2>2, <2>3, SMTT(30)
<1>7. CASE BeginStream
  <2>1. CASE Fail("FieldOutOfRange") /\ wanted.size > MaxFileBytes
    BY <1>4, <2>1
  <2>2. CASE WalkFails
    BY <1>3, <2>2 DEF WalkFails
  <2>3. CASE UNCHANGED <<file, wanted, error>>
    BY <1>1, <1>7, <2>3 DEF BeginStream
  <2> QED
    BY <1>7, <2>1, <2>2, <2>3, Zenon DEF BeginStream
<1>8. CASE UNCHANGED streamvars \/ SkipExtent \/ EndStream \/ Move
  BY <1>1, <1>8 DEF streamvars, SkipExtent, EndStream, Move
<1>9. CASE Fail("Structural") \/ Fail("Decmpfs")
  BY <1>3, <1>9
<1>10. CASE Elsewhere
  BY <1>2, <1>10 DEF Elsewhere
<1>11. ASSUME NEW oid, NEW size, NEW use, Asks(oid, size, use) PROVE ErrorInv' /\ RefusesOnlyDamage'
  BY <1>2, <1>11 DEF Asks, ReadStream
<1> QED
  BY <1>6, <1>7, <1>8, <1>9, <1>10, <1>11, Zenon DEF StreamStep, StreamNext

\* The invariant of the stream reader.
LEMMA StreamInvariance == AdapterSpec => []StreamInv
<1>1. AdapterInit => StreamInv
  <2> SUFFICES ASSUME AdapterInit PROVE StreamInv
    OBVIOUS
  <2>1. wanted = Nothing /\ error = "None" /\ fpc \in {"start", "inode"}
    BY DEF AdapterInit, FileInit, StreamInit
  <2> QED
    BY <2>1, TypedInit DEF StreamInv, LoopInv, ReadInv, ErrorInv, RefusesOnlyDamage
<1>2. StreamInv /\ [AdapterNext]_<<filevars, adapter>> => StreamInv'
  <2> SUFFICES ASSUME StreamInv, [AdapterNext]_<<filevars, adapter>> PROVE StreamInv'
    OBVIOUS
  <2>1. ReaderTyped' /\ StreamStep
    BY TypedStep, StepsOfStream DEF StreamInv
  <2> QED
    BY <2>1, LoopStep, ReadStep, ErrorStep DEF StreamInv
<1> QED
  BY <1>1, <1>2, PTL DEF AdapterSpec

\* A well-written stream, of any number of extents in any order, is read byte for byte
\* as its extents say, holes zero, the last block cut, every encrypted byte clear, and
\* stays so until it is returned or decoded (read_stream).
THEOREM StreamsAreExact == AdapterSpec => []StreamIsExact
<1>1. StreamInv => StreamIsExact
  BY DEF StreamInv, ReadInv, Exact, StreamIsExact
<1> QED
  BY <1>1, StreamInvariance, PTL

\* A well-written stream is refused for nothing about itself: no offset of its extents
\* overflows, and no read rounded up to whole blocks leaves the image (read_stream).
THEOREM OnlyDamageIsRefused == AdapterSpec => []RefusesOnlyDamage
<1>1. StreamInv => RefusesOnlyDamage
  BY DEF StreamInv
<1> QED
  BY <1>1, StreamInvariance, PTL

----------------------------------------------------------------------------
\* What is found of a type.
Found(t) == IF t = NameType THEN inode.name ELSE inode.size

\* What is found of a type is in one of the first m fields, if one of them has it.
FoundIn(f, t, found, m) ==
  IF \E k \in 1 .. m : f[k].type = t
  THEN \E k \in 1 .. m : f[k].type = t /\ found = f[k].content
  ELSE found = -1

\* The walk's invariant: it is at the start of a field, the fields before it are whole,
\* and what is found is in them.
WalkInv ==
  LaidOut /\ xpc = "fields" =>
    LET f == value.fields IN
    /\ xi \in 0 .. Len(f)
    /\ desc_end <= blob_len
    /\ xi < Len(f) => value_off = f[xi + 1].start
    /\ \A k \in 1 .. xi : f[k].start + f[k].size <= blob_len
    /\ \A t \in {NameType, DstreamType} : FoundIn(f, t, Found(t), xi)

XInv == ReaderTyped /\ WalkInv /\ FieldsAsWritten

\* The fields of a value that was laid out, and the numbers in them.
LEMMA FieldNumbers ==
  ASSUME IsInodeValue(value), LaidOut
  PROVE  LET f == value.fields IN
         /\ Len(f) \in Nat /\ DOMAIN f = 1 .. Len(f) /\ num = Len(f) /\ desc_end = 4 + 4 * Len(f)
         /\ value.len \in Nat
         /\ \A k \in 1 .. Len(f) : /\ f[k].size \in Nat \ {0} /\ f[k].start \in Nat /\ f[k].content \in Nat
                                   /\ f[k].type = DstreamType => f[k].size >= 8
         /\ \A k \in 1 .. Len(f) : k < Len(f) => f[k + 1].start = f[k].start + Aligned(f[k].size)
         /\ \A j, k \in 1 .. Len(f) : j < k => f[j].start + f[j].size <= f[k].start
         /\ Len(f) > 0 => f[1].start = 4 + 4 * Len(f)
<1> DEFINE f == value.fields
<1>1. f \in Seq(XField) /\ value.len \in Nat
  BY DEF IsInodeValue
<1>2. Len(f) \in Nat /\ DOMAIN f = 1 .. Len(f) /\ \A k \in 1 .. Len(f) : f[k] \in XField
  BY <1>1
<1>3. \A k \in 1 .. Len(f) : f[k].size \in Nat /\ f[k].start \in Nat /\ f[k].content \in Nat
  BY <1>2 DEF XField
<1>4. /\ Len(f) <= MAX_XF_NUM_EXTS
      /\ \A k \in 1 .. Len(f) : f[k].size > 0 /\ (f[k].type = DstreamType => f[k].size >= 8)
      /\ Len(f) > 0 => f[1].start = XF_DESC_OFF + XF_DESC_LEN * Len(f)
      /\ \A j, k \in 1 .. Len(f) : j < k => f[j].start + 8 * ((f[j].size + 7) \div 8) <= f[k].start
      /\ \A k \in 1 .. Len(f) - 1 : f[k + 1].start = f[k].start + 8 * ((f[k].size + 7) \div 8)
  BY <1>2, Zenon DEF LaidOut
<1>5. num = Len(f) /\ desc_end = 4 + 4 * Len(f)
  <2>1. num = Len(f)
    <3>1. Len(f) <= MAX_XF_NUM_EXTS /\ Len(f) \in Nat
      BY <1>2, <1>4, Zenon
    <3> QED
      BY ONLY <3>1, XFieldsAssumption DEF num
  <2> QED
    BY ONLY <1>2, <2>1 DEF desc_end, XF_DESC_OFF, XF_DESC_LEN
<1> HIDE DEF f
<1>6. ASSUME NEW k \in 1 .. Len(f), k < Len(f) PROVE f[k + 1].start = f[k].start + Aligned(f[k].size)
  <2>1. k \in 1 .. Len(f) - 1
    BY <1>2, <1>6
  <2>2. Aligned(f[k].size) = 8 * ((f[k].size + 7) \div 8)
    BY <1>3 DEF Aligned
  <2> QED
    BY <1>4, <2>1, <2>2
<1>7. ASSUME NEW j \in 1 .. Len(f), NEW k \in 1 .. Len(f), j < k PROVE f[j].start + f[j].size <= f[k].start
  <2>1. f[j].start + 8 * ((f[j].size + 7) \div 8) <= f[k].start
    BY <1>4, <1>7
  <2>2. \A a \in Nat : a <= 8 * ((a + 7) \div 8) /\ 8 * ((a + 7) \div 8) \in Nat
    OBVIOUS
  <2>3. f[j].size <= 8 * ((f[j].size + 7) \div 8) /\ 8 * ((f[j].size + 7) \div 8) \in Nat
    BY <1>3, <2>2
  <2> QED
    BY <1>3, <2>1, <2>3, SMTT(30)
<1>8. Len(f) > 0 => f[1].start = 4 + 4 * Len(f)
  BY <1>2, <1>4, SMTT(30) DEF XF_DESC_OFF, XF_DESC_LEN
<1>9. \A k \in 1 .. Len(f) : f[k].size \in Nat \ {0}
  BY <1>3, <1>4
<1> QED
  BY <1>1, <1>2, <1>3, <1>4, <1>5, <1>6, <1>7, <1>8, <1>9, Zenon DEF f

\* At the start of a field its bytes are read, and no other field's.
LEMMA ContentOfField ==
  ASSUME IsInodeValue(value), LaidOut, NEW k \in 1 .. Len(value.fields)
  PROVE  ContentAt(value.fields[k].start) = value.fields[k].content
<1> DEFINE f == value.fields
           at == f[k].start
           c == CHOOSE j \in DOMAIN f : f[j].start = at
<1>1. DOMAIN f = 1 .. Len(f) /\ Len(f) \in Nat /\ \A j \in 1 .. Len(f) : f[j].size \in Nat \ {0} /\ f[j].start \in Nat
  BY FieldNumbers
<1>2. \A i, j \in 1 .. Len(f) : i < j => f[i].start + f[i].size <= f[j].start
  BY FieldNumbers
<1>3. c \in DOMAIN f /\ f[c].start = at
  BY <1>1, Zenon
<1>4. ContentAt(at) = f[c].content
  BY <1>1, Zenon DEF ContentAt
<1>6. k \in 1 .. Len(f)
  OBVIOUS
<1> HIDE DEF c, f
<1>5. c = k
  <2>1. CASE c < k
    BY ONLY <1>1, <1>2, <1>3, <1>6, <2>1
  <2>2. CASE k < c
    BY ONLY <1>1, <1>2, <1>3, <1>6, <2>2
  <2> QED
    BY ONLY <1>1, <1>3, <1>6, <2>1, <2>2
<1> QED
  BY <1>4, <1>5, SMTT(30) DEF f

\* While the value is the same, so is how it was laid out.
LEMMA SameValue ==
  ASSUME value' = value
  PROVE  /\ LaidOut' <=> LaidOut
         /\ desc_end' = desc_end /\ blob_len' = blob_len /\ num' = num
         /\ \A t : (Whole(t))' = Whole(t)
<1>1. LaidOut' <=> LaidOut
  BY Zenon DEF LaidOut
<1>2. num' = num /\ desc_end' = desc_end /\ blob_len' = blob_len
  BY DEF num, desc_end, blob_len
<1>3. \A t : (Whole(t))' = Whole(t)
  BY DEF Whole
<1> QED
  BY <1>1, <1>2, <1>3, Zenon

\* A turn over a field that is whole: it is found if its type is one that is looked for,
\* and the next one starts where the walk is then.
LEMMA TurnKeeps ==
  ASSUME XInv, FieldTurn, xpc' = "fields"
  PROVE  WalkInv'
<1> SUFFICES ASSUME LaidOut PROVE WalkInv'
  <2>1. LaidOut' <=> LaidOut
    BY SameValue DEF FieldTurn
  <2> QED
    BY <2>1, Zenon DEF WalkInv
<1> DEFINE f == value.fields
           k == xi + 1
<1>1. /\ xpc = "fields" /\ xi < num /\ value' = value /\ xi' = k
      /\ value_off + f[k].size <= blob_len
      /\ inode' = CASE f[k].type = NameType -> [inode EXCEPT !.name = ContentAt(value_off)]
                    [] f[k].type = DstreamType -> [inode EXCEPT !.size = FirstU64]
                    [] OTHER -> inode
      /\ value_off' = value_off + Aligned(f[k].size)
  BY DEF FieldTurn, x_size, x_type
<1>2. IsInodeValue(value)
  BY DEF XInv, ReaderTyped, IsFile
<1>3. /\ xi \in 0 .. Len(f) /\ desc_end <= blob_len
      /\ xi < Len(f) => value_off = f[k].start
      /\ \A j \in 1 .. xi : f[j].start + f[j].size <= blob_len
      /\ \A t \in {NameType, DstreamType} : FoundIn(f, t, Found(t), xi)
  BY <1>1, ZenonT(30) DEF XInv, WalkInv
<1>4. Len(f) \in Nat /\ num = Len(f)
  BY <1>2, FieldNumbers
<1>5. k \in 1 .. Len(f) /\ xi \in Nat /\ value_off = f[k].start
  BY <1>1, <1>3, <1>4
<1>6. ContentAt(value_off) = f[k].content /\ (f[k].type = DstreamType => FirstU64 = f[k].content)
  <2>1. ContentAt(value_off) = f[k].content
    BY <1>2, <1>5, ContentOfField, SMTT(30)
  <2>2. f[k].type = DstreamType => f[k].size \in Nat /\ f[k].size >= 8
    BY <1>2, <1>5, FieldNumbers
  <2> QED
    BY <2>1, <2>2 DEF FirstU64, x_size
<1>7. inode \in [name : Nat \cup {-1}, size : Nat \cup {-1}]
  BY DEF XInv, ReaderTyped
<1>8. \A t \in {NameType, DstreamType} :
        IF f[k].type = t THEN Found(t)' = f[k].content ELSE Found(t)' = Found(t)
  <2>1. CASE f[k].type = NameType
    <3>2. inode' = [inode EXCEPT !.name = ContentAt(value_off)]
      BY ONLY <1>1, <2>1 DEF NameType, DstreamType
    <3>1. inode'.name = f[k].content /\ inode'.size = inode.size
      BY ONLY <1>6, <1>7, <3>2
    <3> QED
      BY <2>1, <3>1 DEF Found, NameType, DstreamType
  <2>2. CASE f[k].type = DstreamType
    <3>2. inode' = [inode EXCEPT !.size = FirstU64]
      BY ONLY <1>1, <2>2 DEF NameType, DstreamType
    <3>1. inode'.size = f[k].content /\ inode'.name = inode.name
      BY ONLY <1>6, <1>7, <2>2, <3>2
    <3> QED
      BY <2>2, <3>1 DEF Found, NameType, DstreamType
  <2>3. CASE f[k].type # NameType /\ f[k].type # DstreamType
    <3>1. inode' = inode
      BY <1>1, <2>3
    <3> QED
      BY <2>3, <3>1 DEF Found
  <2> QED
    BY <2>1, <2>2, <2>3, SMTT(30)
<1>9. value'.fields = f /\ desc_end' = desc_end /\ blob_len' = blob_len
  BY <1>1, SameValue, SMTT(30)
<1>10. k < Len(f) => f[k + 1].start = f[k].start + Aligned(f[k].size)
  BY <1>2, <1>5, FieldNumbers
<1>11. \A j \in 1 .. k : j \in 1 .. xi \/ j = k
  BY <1>5
<1>12. \A j \in 1 .. xi : j \in 1 .. k /\ j # k
  BY <1>5
<1>13. k \in 1 .. k /\ k \in 0 .. Len(f)
  BY <1>5
<1> HIDE DEF f, k
<1>14. \A j \in 1 .. k : f[j].start + f[j].size <= blob_len
  BY <1>1, <1>3, <1>5, <1>11, Zenon
<1>15. \A t \in {NameType, DstreamType} : FoundIn(f, t, Found(t)', k)
  <2> SUFFICES ASSUME NEW t \in {NameType, DstreamType} PROVE FoundIn(f, t, Found(t)', k)
    OBVIOUS
  <2>1. CASE f[k].type = t
    BY <1>8, <1>13, <2>1, Zenon DEF FoundIn
  <2>2. CASE f[k].type # t
    <3>1. Found(t)' = Found(t) /\ FoundIn(f, t, Found(t), xi)
      BY <1>3, <1>8, <2>2, Zenon
    <3>2. (\E j \in 1 .. k : f[j].type = t) <=> (\E j \in 1 .. xi : f[j].type = t)
      BY <1>11, <1>12, <2>2, Zenon
    <3>3. CASE \E j \in 1 .. xi : f[j].type = t
      BY <1>12, <3>1, <3>2, <3>3, Zenon DEF FoundIn
    <3>4. CASE ~\E j \in 1 .. xi : f[j].type = t
      <4>1. Found(t) = -1
        BY <3>1, <3>4, Zenon DEF FoundIn
      <4> QED
        BY <3>1, <3>2, <3>4, <4>1, Zenon DEF FoundIn
    <3> QED
      BY <3>3, <3>4
  <2> QED
    BY <2>1, <2>2
<1>16. k < Len(f) => value_off' = f[k + 1].start
  BY <1>1, <1>5, <1>10, SMTT(30)
<1> QED
  BY <1>1, <1>3, <1>9, <1>13, <1>14, <1>15, <1>16, Zenon DEF WalkInv

\* A walk that ends has found the fields that are whole: those before the end, or
\* before the one that is cut.
LEMMA EndOfWalk ==
  ASSUME XInv, FieldTurn \/ FieldsEnd, xpc' = "parsed"
  PROVE  FieldsAsWritten'
<1>0. xpc = "fields" /\ value' = value /\ inode' = inode
  BY DEF FieldTurn, FieldsEnd
<1> SUFFICES ASSUME LaidOut, NEW t \in {NameType, DstreamType}
             PROVE  IF Whole(t) = {} THEN Found(t) = -1 ELSE \E k \in Whole(t) : Found(t) = value.fields[k].content
  <2>1. (LaidOut' <=> LaidOut) /\ \A t : (Whole(t))' = Whole(t)
    BY <1>0, SameValue, SMTT(30)
  <2> QED
    BY <1>0, <2>1, ZenonT(30) DEF FieldsAsWritten, Found
<1> DEFINE f == value.fields
<1>1. IsInodeValue(value)
  BY DEF XInv, ReaderTyped, IsFile
<1>2. /\ xi \in 0 .. Len(f) /\ desc_end <= blob_len
      /\ xi < Len(f) => value_off = f[xi + 1].start
      /\ \A j \in 1 .. xi : f[j].start + f[j].size <= blob_len
      /\ FoundIn(f, t, Found(t), xi)
  BY <1>0, ZenonT(30) DEF XInv, WalkInv
<1>3. /\ Len(f) \in Nat /\ DOMAIN f = 1 .. Len(f) /\ num = Len(f) /\ desc_end = 4 + 4 * Len(f) /\ value.len \in Nat
      /\ \A k \in 1 .. Len(f) : f[k].size \in Nat /\ f[k].start \in Nat
      /\ \A j, k \in 1 .. Len(f) : j < k => f[j].start + f[j].size <= f[k].start
      /\ \A k \in 1 .. Len(f) : f[k].size > 0
  BY <1>1, FieldNumbers
<1>4. blob_len = value.len - 92 /\ blob_len \in Int
  BY <1>3, SMTT(30) DEF blob_len, OFF_XFIELDS
<1>5. \A k \in Whole(t) : k \in 1 .. Len(f) /\ f[k].type = t /\ f[k].start + f[k].size <= blob_len
  BY <1>3, <1>4, SMTT(30) DEF Whole, OFF_XFIELDS
<1>6. \A k \in 1 .. xi : f[k].type = t => k \in Whole(t)
  BY <1>2, <1>3, <1>4 DEF Whole, OFF_XFIELDS, XF_DESC_OFF, XF_DESC_LEN
<1>7. ASSUME NEW k \in 1 .. Len(f), f[k].start + f[k].size <= blob_len PROVE k \in 1 .. xi
  <2>1. CASE xi = Len(f)
    BY <2>1, SMTT(30)
  <2>2. CASE xi # Len(f)
    <3>1. xi + 1 \in 1 .. Len(f) /\ f[xi + 1].start + f[xi + 1].size > blob_len
      BY <1>2, <1>3, <2>2 DEF FieldTurn, FieldsEnd, x_size
    <3> HIDE DEF f
    <3>2. CASE xi + 1 < k
      <4>1. f[xi + 1].start + f[xi + 1].size <= f[k].start
        BY ONLY <1>3, <3>1, <3>2, k \in 1 .. Len(f), SMTT(30)
      <4>2. /\ f[k].start \in Nat /\ f[k].size \in Nat
            /\ f[xi + 1].start \in Nat /\ f[xi + 1].size \in Nat
        BY ONLY <1>3, <3>1, k \in 1 .. Len(f)
      <4>3. f[k].start + f[k].size <= blob_len /\ blob_len \in Int
        BY ONLY <1>4, <1>7
      <4>4. f[xi + 1].start + f[xi + 1].size > blob_len
        BY ONLY <3>1
      <4> QED
        BY ONLY <4>1, <4>2, <4>3, <4>4, SMTT(30)
    <3>3. xi + 1 # k
      BY ONLY <1>3, <1>4, <1>7, <3>1
    <3> QED
      BY ONLY <1>2, <1>3, <3>2, <3>3, k \in 1 .. Len(f)
  <2> QED
    BY <2>1, <2>2
<1> HIDE DEF f
<1>8. \A k : k \in Whole(t) <=> k \in 1 .. xi /\ f[k].type = t
  BY <1>5, <1>6, <1>7, Zenon
<1>9. CASE \E k \in 1 .. xi : f[k].type = t
  <2>1. PICK k \in 1 .. xi : f[k].type = t /\ Found(t) = f[k].content
    BY <1>2, <1>9, Zenon DEF FoundIn
  <2>2. k \in Whole(t)
    BY <1>8, <2>1, ZenonT(30)
  <2> QED
    BY <2>1, <2>2, Zenon DEF f
<1>10. CASE ~\E k \in 1 .. xi : f[k].type = t
  <2>1. Found(t) = -1
    BY <1>2, <1>10, Zenon DEF FoundIn
  <2>2. Whole(t) = {}
    BY <1>8, <1>10, Zenon
  <2> QED
    BY <2>1, <2>2
<1> QED
  BY <1>9, <1>10

\* A value with no blob, or with a table that is cut, has no field that is whole.
LEMMA ParseKeeps ==
  ASSUME XInv, ParseInode
  PROVE  WalkInv' /\ FieldsAsWritten'
<1>0. value' = value /\ inode' = NoInode /\ xi' = 0 /\ value_off' = desc_end
  BY DEF ParseInode
<1>1. \A t \in {NameType, DstreamType} : Found(t)' = -1
  BY <1>0, SMTT(30) DEF Found, NoInode
<1>2. IsInodeValue(value)
  BY DEF XInv, ReaderTyped, IsFile
<1>3. /\ LaidOut' <=> LaidOut
      /\ desc_end' = desc_end /\ blob_len' = blob_len /\ \A t : (Whole(t))' = Whole(t)
  BY <1>0, SameValue
<1>4. CASE LaidOut
  <2> DEFINE f == value.fields
  <2>1. /\ Len(f) \in Nat /\ desc_end = 4 + 4 * Len(f) /\ value.len \in Nat /\ (Len(f) > 0 => f[1].start = 4 + 4 * Len(f))
    BY <1>2, <1>4, FieldNumbers
  <2>2. WalkInv'
    <3>1. CASE desc_end <= blob_len
      <4>1. 0 \in 0 .. Len(f) /\ (0 < Len(f) => desc_end = f[0 + 1].start)
        BY <2>1
      <4>2. \A k : ~(k \in 1 .. 0)
        OBVIOUS
      <4>3. \A t \in {NameType, DstreamType} : FoundIn(f, t, Found(t)', 0)
        BY <1>1, <4>2, Zenon DEF FoundIn
      <4>4. value'.fields = f
        BY <1>0, SMTT(30)
      <4> HIDE DEF f
      <4> QED
        BY <1>0, <1>3, <3>1, <4>1, <4>2, <4>3, <4>4, Zenon DEF WalkInv
    <3>2. CASE ~(desc_end <= blob_len)
      <4>1. xpc' # "fields"
        BY <3>2 DEF ParseInode
      <4> QED
        BY <4>1 DEF WalkInv
    <3> QED
      BY <3>1, <3>2
  <2>3. FieldsAsWritten'
    <3> SUFFICES ASSUME xpc' = "parsed", NEW t \in {NameType, DstreamType} PROVE Whole(t) = {}
      BY <1>1, <1>3, Zenon DEF FieldsAsWritten, Found
    <3>1. ~(4 + 4 * Len(f) <= value.len - 92)
      BY <2>1, SMTT(30) DEF ParseInode, blob_len, OFF_XFIELDS, XF_DESC_OFF
    <3> QED
      BY <3>1 DEF Whole, OFF_XFIELDS, XF_DESC_OFF, XF_DESC_LEN
  <2> QED
    BY <2>2, <2>3, SMTT(30)
<1>5. CASE ~LaidOut
  BY <1>3, <1>5, Zenon DEF WalkInv, FieldsAsWritten
<1> QED
  BY <1>4, <1>5

\* The invariant of the walk over a value's fields.
LEMMA FieldsInvariance == AdapterSpec => []XInv
<1>1. AdapterInit => XInv
  <2> SUFFICES ASSUME AdapterInit PROVE XInv
    OBVIOUS
  <2>1. xpc = "idle"
    BY DEF AdapterInit, FileInit, XInit
  <2> QED
    BY <2>1, TypedInit DEF XInv, WalkInv, FieldsAsWritten
<1>2. XInv /\ [AdapterNext]_<<filevars, adapter>> => XInv'
  <2> SUFFICES ASSUME XInv, [AdapterNext]_<<filevars, adapter>> PROVE WalkInv' /\ FieldsAsWritten'
    BY TypedStep DEF XInv
  <2>1. CASE UNCHANGED xvars
    <3>1. value' = value /\ xpc' = xpc /\ xi' = xi /\ value_off' = value_off /\ inode' = inode
      BY <2>1 DEF xvars
    <3>2. /\ LaidOut' <=> LaidOut
          /\ desc_end' = desc_end /\ blob_len' = blob_len /\ \A t : (Whole(t))' = Whole(t)
      BY <3>1, SameValue
    <3>3. \A t : (Found(t))' = Found(t)
      BY <3>1 DEF Found
    <3>4. WalkInv'
      BY <3>1, <3>2, <3>3, Zenon DEF XInv, WalkInv
    <3>5. FieldsAsWritten'
      BY <3>1, <3>2, ZenonT(30) DEF XInv, FieldsAsWritten
    <3> QED
      BY <3>4, <3>5
  <2>2. CASE InodeLoaded
    BY <2>2 DEF InodeLoaded, WalkInv, FieldsAsWritten
  <2>3. CASE ParseInode
    BY <2>3, ParseKeeps
  <2>4. CASE FieldTurn \/ FieldsEnd
    <3>1. xpc' \in {"fields", "parsed"} /\ (FieldsEnd => xpc' = "parsed")
      BY <2>4, SMTT(30) DEF FieldTurn, FieldsEnd
    <3>2. xpc' = "fields" => WalkInv' /\ FieldsAsWritten'
      BY <2>4, <3>1, TurnKeeps, SMTT(30) DEF FieldsAsWritten
    <3>3. xpc' = "parsed" => WalkInv' /\ FieldsAsWritten'
      BY <2>4, EndOfWalk, Zenon DEF WalkInv
    <3> QED
      BY <3>1, <3>2, <3>3
  <2> QED
    BY <2>1, <2>2, <2>3, <2>4, Zenon
    DEF AdapterNext, Core, FileNext, LoadInode, Parsing, ParseNext, filevars, ListStreams, ReadXattrAt, Returned
<1> QED
  BY <1>1, <1>2, PTL DEF AdapterSpec

\* Of an inode's value as a writer lays it out, with any number of fields of any types
\* and lengths, whole or cut anywhere, exactly the fields that are whole are found, each
\* as it was written (Inode::parse through parse_xfields).
THEOREM FieldsAreAsWritten == AdapterSpec => []FieldsAsWritten
<1>1. XInv => FieldsAsWritten
  BY DEF XInv
<1> QED
  BY <1>1, FieldsInvariance, PTL
=============================================================================
