----------------------------- MODULE BlockProofs ----------------------------
(***************************************************************************)
(* What reading single blocks promises: the entries of a B-tree node, and  *)
(* the space manager's chunks and bitmaps.                                 *)
(*                                                                         *)
(* For every size of a block, of a header, of a footer and of keys and     *)
(* values, and any number of records: node_entries yields the records that *)
(* were written.                                                           *)
(*                                                                         *)
(* For devices, chunks, chunk-info blocks and bitmaps of any size: the     *)
(* enumeration of free space is exact and its runs are maximal, and the    *)
(* query for one block agrees with it.                                     *)
(***************************************************************************)
EXTENDS NodeEntries, Spaceman, TLAPS

----------------------------------------------------------------------------
\* The entries of a node.

\* Where records lie: their table entries in the table, each key and value in the
\* free space, no two pieces sharing a unit; of fixed size, if the node is.
RecordOK(r) ==
  /\ r.vlen <= r.v /\ key_area + r.k + r.klen <= ValueEnd - r.v
  /\ hdr.fixed => r.klen = key_len /\ r.vlen = val_len

Layout ==
  /\ Len(written) * entry_len <= hdr.toc_len
  /\ \A j \in 1 .. Len(written) : RecordOK(written[j])
  /\ \A j, m \in 1 .. Len(written) : j # m => Apart(written[j], written[m])

\* The node holds the records: what their table entries say, unless malformed, and
\* the pieces of their keys and values.
TocOK(j) == \A f \in 1 .. entry_len : block[TocUnit(j, f)].n = TocField(written[j], f)
KeyOK(j) == \A x \in 0 .. written[j].klen - 1 : block[key_area + written[j].k + x].of = <<"key", j, x>>
ValOK(j) == \A x \in 0 .. written[j].vlen - 1 : block[ValueEnd - written[j].v + x].of = <<"val", j, x>>

OnDisk ==
  npc # "writing" =>
    /\ Len(written) <= hdr.nkeys
    /\ \A j \in 1 .. Len(written) : (j # damaged => TocOK(j)) /\ KeyOK(j) /\ ValOK(j)

\* How far the loop has come.
Progress ==
  /\ npc = "writing" => i = 0 /\ out = << >>
  /\ \A n \in 1 .. Len(out) :
       /\ 1 <= out[n].at /\ out[n].at <= i
       /\ out[n].at <= Len(written) /\ out[n].at # damaged => out[n] = EntryOf(out[n].at)
  /\ \A m, n \in 1 .. Len(out) : m < n => out[m].at < out[n].at
  /\ npc # "writing" /\ SoundNode => Len(out) = i /\ \A n \in 1 .. Len(out) : out[n] = EntryOf(n)
  /\ npc = "done" => i = nkeys \/ Len(written) <= i

NodeInv == NodeTypeOK /\ Layout /\ OnDisk /\ Progress

----------------------------------------------------------------------------
\* Arithmetic of table entries of 2 or 4 units.
LEMMA EntryArithmetic ==
  ASSUME NEW L \in {2, 4}, NEW a \in Nat, NEW f \in 0 .. L - 1
  PROVE  /\ (a * L + f) \div L = a /\ (a * L + f) % L = f
         /\ a * L \in Nat /\ (a + 1) * L = a * L + L
         /\ \A b \in Nat : a < b => (a + 1) * L <= b * L
         /\ \A b \in Nat : b >= a * L => b \div L >= a
<1>1. CASE L = 2
  BY <1>1
<1>2. CASE L = 4
  BY <1>2
<1> QED
  BY <1>1, <1>2

\* Remainders are smaller than the divisor.
LEMMA Remainder ==
  ASSUME NEW L \in {2, 4}, NEW a \in Nat
  PROVE  a % L \in 0 .. L - 1 /\ a \div L \in Nat
<1>1. CASE L = 2
  BY <1>1
<1>2. CASE L = 4
  BY <1>2
<1> QED
  BY <1>1, <1>2

\* The places are numbers.
LEMMA Places ==
  ASSUME hdr \in NodeHeader
  PROVE  /\ toc_start \in Nat /\ hdr.toc_len \in Nat /\ key_area = toc_start + hdr.toc_len
         /\ entry_len \in {2, 4} /\ (hdr.fixed => entry_len = 2) /\ (~hdr.fixed => entry_len = 4)
         /\ key_len \in Nat /\ val_len \in Nat
         /\ ValueEnd \in Int /\ ValueEnd <= BlockLen
         /\ val_base \in Nat /\ (ValueEnd >= 0 => val_base = ValueEnd)
         /\ nkeys \in Nat /\ nkeys <= hdr.nkeys
  BY NodeAssumption DEF NodeHeader, toc_start, key_area, entry_len, key_len, val_len, ValueEnd, val_base, nkeys

\* The fields of a table entry are numbers.
LEMMA TocFields ==
  ASSUME hdr \in NodeHeader, NEW r \in Record
  PROVE  /\ \A f \in 1 .. entry_len : TocField(r, f) \in Nat
         /\ TocField(r, 1) = r.k
         /\ hdr.fixed => TocField(r, 2) = r.v
         /\ ~hdr.fixed => TocField(r, 2) = r.klen /\ TocField(r, 3) = r.v /\ TocField(r, 4) = r.vlen
<1>1. r.k \in Nat /\ r.klen \in Nat /\ r.v \in Nat /\ r.vlen \in Nat
  BY DEF Record
<1>2. CASE hdr.fixed
  <2>1. entry_len = 2
    BY <1>2, Places
  <2>2. TocField(r, 1) = r.k /\ TocField(r, 2) = r.v
    BY <1>2 DEF TocField
  <2> QED
    BY <1>1, <1>2, <2>1, <2>2
<1>3. CASE ~hdr.fixed
  <2>1. entry_len = 4
    BY <1>3, Places
  <2>2. /\ TocField(r, 1) = r.k /\ TocField(r, 2) = r.klen
        /\ TocField(r, 3) = r.v /\ TocField(r, 4) = r.vlen
    BY <1>3 DEF TocField
  <2> QED
    BY <1>1, <1>3, <2>1, <2>2
<1> QED
  BY <1>2, <1>3

\* What lies before the values lies in the node.
LEMMA Below ==
  ASSUME NEW a \in Nat, NEW k \in Nat, NEW kl \in Nat, NEW v \in Nat, NEW end \in Int, NEW b \in Nat,
         a + k + kl <= end - v, end <= b
  PROVE  a <= b /\ a + k + kl <= b /\ 0 <= end - v /\ 0 <= end
  OBVIOUS

\* What lies in the table lies in the node.
LEMMA Within ==
  ASSUME NEW t \in Nat, NEW len \in Nat, NEW a \in Nat, NEW L \in {2, 4}, NEW g \in 0 .. L - 1, NEW b \in Nat,
         a + L <= len, t + len <= b
  PROVE  t + a + g \in 0 .. b - 1 /\ t <= t + a + g /\ t + a + g < t + len
  OBVIOUS

\* Unit x of a key at k, in an area that begins at a, is no unit of another key at q.
LEMMA KeyApart ==
  ASSUME NEW a \in Nat, NEW k \in Nat, NEW kl \in Nat, NEW x \in Nat, NEW q \in Nat, NEW ql \in Nat,
         x < kl, k + kl <= q \/ q + ql <= k
  PROVE  ~(a + q <= a + k + x /\ a + k + x < a + q + ql)
  OBVIOUS

\* Unit x of a value v before the end is no unit of another value q before the end.
LEMMA ValApart ==
  ASSUME NEW end \in Nat, NEW v \in Nat, NEW vl \in Nat, NEW x \in Nat, NEW q \in Nat, NEW ql \in Nat,
         x < vl, v <= q - ql \/ q <= v - vl
  PROVE  ~(end - q <= end - v + x /\ end - v + x < end - q + ql)
  OBVIOUS

\* Nor of a key.
LEMMA ValKeyApart ==
  ASSUME NEW a \in Nat, NEW q \in Nat, NEW ql \in Nat, NEW end \in Nat, NEW v \in Nat, NEW x \in Nat,
         a + q + ql <= end - v
  PROVE  ~(end - v + x < a + q + ql)
  OBVIOUS

----------------------------------------------------------------------------
\* The table entry of a record is in the table, and in the node.
LEMMA TableUnits ==
  ASSUME hdr \in NodeHeader, written \in Seq(Record), Layout,
         NEW j \in 1 .. Len(written), NEW f \in 1 .. entry_len
  PROVE  /\ TocUnit(j, f) \in 0 .. BlockLen - 1
         /\ toc_start <= TocUnit(j, f) /\ TocUnit(j, f) < key_area
         /\ EntryAt(TocUnit(j, f)) = j
         /\ (TocUnit(j, f) - toc_start) % entry_len = f - 1
         /\ TocUnit(j, f) = toc_start + (j - 1) * entry_len + (f - 1)
         /\ (j - 1) * entry_len \in Nat /\ (j - 1) * entry_len + entry_len <= hdr.toc_len
         /\ key_area <= BlockLen
<1> DEFINE L == entry_len
           a == j - 1
           N == Len(written)
<1>1. L \in {2, 4} /\ a \in Nat /\ f - 1 \in 0 .. L - 1 /\ N \in Nat /\ a < N
  BY Places
<1>2. /\ (a * L + (f - 1)) \div L = a /\ (a * L + (f - 1)) % L = f - 1
      /\ a * L \in Nat /\ (a + 1) * L = a * L + L /\ (a + 1) * L <= N * L
  <2> DEFINE g == f - 1
  <2>1. L \in {2, 4} /\ a \in Nat /\ g \in 0 .. L - 1 /\ N \in Nat /\ a < N
    BY <1>1
  <2> HIDE DEF L, a, N, g
  <2>2. /\ (a * L + g) \div L = a /\ (a * L + g) % L = g
        /\ a * L \in Nat /\ (a + 1) * L = a * L + L /\ (a + 1) * L <= N * L
    BY ONLY <2>1, EntryArithmetic, Zenon
  <2> QED
    BY ONLY <2>2 DEF g
<1>3. N * L <= hdr.toc_len
  BY DEF Layout
<1>4. N * L \in Nat
  BY ONLY <1>1, EntryArithmetic, 0 \in 0 .. L - 1
<1>5. TocUnit(j, f) = toc_start + a * L + (f - 1) /\ TocUnit(j, f) - toc_start = a * L + (f - 1)
  <2> DEFINE al == a * L
  <2>1. TocUnit(j, f) = toc_start + al + f - 1
    BY DEF TocUnit
  <2>2. al \in Nat /\ toc_start \in Nat /\ f \in Int
    BY <1>1, <1>2, Places
  <2> HIDE DEF L, a, al
  <2>3. TocUnit(j, f) = toc_start + al + (f - 1) /\ TocUnit(j, f) - toc_start = al + (f - 1)
    BY ONLY <2>1, <2>2
  <2> QED
    BY ONLY <2>3 DEF al
<1>6. key_area <= BlockLen
  <2>1. RecordOK(written[j]) /\ written[j] \in Record
    BY DEF Layout
  <2>2. key_area + written[j].k + written[j].klen <= ValueEnd - written[j].v
    BY <2>1 DEF RecordOK
  <2>3. written[j].k \in Nat /\ written[j].klen \in Nat /\ written[j].v \in Nat
    BY <2>1 DEF Record
  <2>4. key_area \in Nat /\ ValueEnd \in Int /\ ValueEnd <= BlockLen /\ BlockLen \in Nat
    BY Places, NodeAssumption
  <2> QED
    BY ONLY <2>2, <2>3, <2>4, Below, Zenon
<1>7. EntryAt(TocUnit(j, f)) = j
  BY <1>5, <1>2, <1>1 DEF EntryAt
<1>8. toc_start \in Nat /\ hdr.toc_len \in Nat /\ key_area = toc_start + hdr.toc_len /\ BlockLen \in Nat
  BY Places, NodeAssumption
<1>9. a * L + L <= hdr.toc_len
  <2> HIDE DEF L, a, N
  <2> QED
    BY ONLY <1>2, <1>3, <1>4, <1>8, <1>1
<1>10. /\ TocUnit(j, f) \in 0 .. BlockLen - 1
       /\ toc_start <= TocUnit(j, f) /\ TocUnit(j, f) < key_area
  <2> DEFINE al == a * L
  <2>1. /\ al \in Nat /\ L \in {2, 4} /\ f - 1 \in 0 .. L - 1
        /\ al + L <= hdr.toc_len /\ toc_start + hdr.toc_len <= BlockLen
    BY <1>1, <1>2, <1>6, <1>8, <1>9
  <2>2. TocUnit(j, f) = toc_start + al + (f - 1)
    BY <1>5
  <2> HIDE DEF al, L, a
  <2> QED
    BY ONLY <2>1, <2>2, <1>8, Within
<1> QED
  BY <1>2, <1>5, <1>6, <1>7, <1>9, <1>10

\* The writer's unit there is the field.
LEMMA WrittenToc ==
  ASSUME hdr \in NodeHeader, written \in Seq(Record), Layout,
         NEW j \in 1 .. Len(written), NEW f \in 1 .. entry_len
  PROVE  Written[TocUnit(j, f)] = Toc(TocField(written[j], f))
<1> DEFINE u == TocUnit(j, f)
<1>1. u \in 0 .. BlockLen - 1 /\ toc_start <= u /\ EntryAt(u) = j /\ (u - toc_start) % entry_len = f - 1
  BY TableUnits
<1>2. f - 1 + 1 = f /\ j <= Len(written)
  BY Places
<1> HIDE DEF u
<1>3. UnitAt(u) = Toc(TocField(written[j], f))
  BY ONLY <1>1, <1>2 DEF UnitAt
<1> QED
  BY <1>1, <1>3 DEF Written, u

\* A unit past the table belongs to no table entry.
LEMMA PastTable ==
  ASSUME hdr \in NodeHeader, written \in Seq(Record), Layout, NEW u \in Nat, key_area <= u
  PROVE  toc_start <= u /\ EntryAt(u) \in Nat /\ EntryAt(u) > Len(written)
<1> DEFINE L == entry_len
           N == Len(written)
<1>1. L \in {2, 4} /\ N \in Nat /\ toc_start \in Nat /\ hdr.toc_len \in Nat /\ key_area = toc_start + hdr.toc_len
  BY Places
<1>2. N * L <= hdr.toc_len /\ N * L \in Nat
  BY ONLY <1>1, EntryArithmetic, 0 \in 0 .. L - 1, Layout DEF Layout
<1>3. u - toc_start \in Nat /\ u - toc_start >= N * L /\ toc_start <= u
  <2> HIDE DEF L, N
  <2> QED
    BY ONLY <1>1, <1>2, u \in Nat, key_area <= u
<1>4. (u - toc_start) \div L >= N
  BY ONLY <1>1, <1>3, EntryArithmetic, 0 \in 0 .. L - 1
<1>5. (u - toc_start) \div L \in Nat
  BY ONLY <1>1, <1>3, Remainder
<1> QED
  BY <1>1, <1>3, <1>4, <1>5 DEF EntryAt

\* The numbers of a record.
LEMMA Numbers ==
  ASSUME hdr \in NodeHeader, written \in Seq(Record), Layout, NEW j \in 1 .. Len(written)
  PROVE  /\ written[j] \in Record
         /\ written[j].k \in Nat /\ written[j].klen \in Nat /\ written[j].v \in Nat /\ written[j].vlen \in Nat
         /\ written[j].vlen <= written[j].v
         /\ key_area + written[j].k + written[j].klen <= ValueEnd - written[j].v
         /\ key_area \in Nat /\ ValueEnd \in Nat /\ ValueEnd <= BlockLen /\ BlockLen \in Nat
         /\ val_base = ValueEnd
<1>1. written[j] \in Record
  OBVIOUS
<1>2. written[j].k \in Nat /\ written[j].klen \in Nat /\ written[j].v \in Nat /\ written[j].vlen \in Nat
  BY <1>1 DEF Record
<1>3. /\ written[j].vlen <= written[j].v
      /\ key_area + written[j].k + written[j].klen <= ValueEnd - written[j].v
  BY DEF Layout, RecordOK
<1>4. key_area \in Nat /\ ValueEnd \in Int /\ ValueEnd <= BlockLen /\ BlockLen \in Nat
  BY Places, NodeAssumption
<1>5. 0 <= ValueEnd
  BY ONLY <1>2, <1>3, <1>4, Below
<1> QED
  BY <1>1, <1>2, <1>3, <1>4, <1>5, Places

\* A unit of a key is written as such: no other key has it.
LEMMA WrittenKey ==
  ASSUME hdr \in NodeHeader, written \in Seq(Record), Layout,
         NEW j \in 1 .. Len(written), NEW x \in 0 .. written[j].klen - 1
  PROVE  /\ key_area + written[j].k + x \in 0 .. BlockLen - 1
         /\ key_area <= key_area + written[j].k + x
         /\ Written[key_area + written[j].k + x] = Unit(0, <<"key", j, x>>)
<1> DEFINE r == written[j]
           u == key_area + r.k + x
<1>1. /\ r.k \in Nat /\ r.klen \in Nat /\ r.v \in Nat /\ key_area \in Nat /\ ValueEnd \in Nat
      /\ key_area + r.k + r.klen <= ValueEnd - r.v /\ ValueEnd <= BlockLen /\ BlockLen \in Nat /\ x \in Nat /\ x < r.klen
  BY Numbers
<1> HIDE DEF r
<1>2. /\ u \in 0 .. BlockLen - 1 /\ key_area <= u /\ u - (key_area + r.k) = x
      /\ key_area + r.k <= u /\ u < key_area + r.k + r.klen
  <2> DEFINE k == r.k
             kl == r.klen
             v == r.v
  <2>1. /\ k \in Nat /\ kl \in Nat /\ v \in Nat /\ key_area \in Nat /\ ValueEnd \in Nat
        /\ key_area + k + kl <= ValueEnd - v /\ ValueEnd <= BlockLen /\ BlockLen \in Nat /\ x \in Nat /\ x < kl
    BY <1>1
  <2> HIDE DEF k, kl, v
  <2>2. /\ key_area + k + x \in 0 .. BlockLen - 1 /\ key_area <= key_area + k + x
        /\ (key_area + k + x) - (key_area + k) = x
        /\ key_area + k <= key_area + k + x /\ key_area + k + x < key_area + k + kl
    BY ONLY <2>1
  <2> QED
    BY <2>2 DEF k, kl
<1>3. ~(EntryAt(u) <= Len(written))
  <2>1. u \in Nat
    BY <1>2
  <2>2. EntryAt(u) \in Nat /\ EntryAt(u) > Len(written)
    BY <1>2, <2>1, PastTable
  <2> HIDE DEF u
  <2> QED
    BY <2>2
<1>4. InKey(u, written[j])
  BY <1>2 DEF InKey, r
<1>5. ASSUME NEW m \in 1 .. Len(written), m # j
      PROVE  ~InKey(u, written[m])
  <2>1. Apart(written[j], written[m])
    BY <1>5 DEF Layout
  <2>2. r.k + r.klen <= written[m].k \/ written[m].k + written[m].klen <= r.k
    BY <2>1 DEF Apart, r
  <2>3. written[m].k \in Nat /\ written[m].klen \in Nat
    BY Numbers
  <2>4. ~(key_area + written[m].k <= u /\ u < key_area + written[m].k + written[m].klen)
    BY ONLY <1>1, <2>2, <2>3, KeyApart, Zenon
  <2> HIDE DEF u
  <2> QED
    BY <2>4 DEF InKey
<1> HIDE DEF u
<1>6. (CHOOSE n \in 1 .. Len(written) : InKey(u, written[n])) = j
  BY <1>4, <1>5
<1>7. UnitAt(u) = Unit(0, <<"key", j, u - (key_area + written[j].k)>>)
  BY ONLY <1>3, <1>4, <1>6, j \in 1 .. Len(written), Zenon DEF UnitAt
<1>8. Written[u] = Unit(0, <<"key", j, x>>)
  BY <1>2, <1>7 DEF Written, r
<1> QED
  BY <1>2, <1>8 DEF u, r

\* A unit of a value is written as such: no key and no other value has it.
LEMMA WrittenVal ==
  ASSUME hdr \in NodeHeader, written \in Seq(Record), Layout,
         NEW j \in 1 .. Len(written), NEW x \in 0 .. written[j].vlen - 1
  PROVE  /\ ValueEnd - written[j].v + x \in 0 .. BlockLen - 1
         /\ key_area <= ValueEnd - written[j].v + x
         /\ Written[ValueEnd - written[j].v + x] = Unit(0, <<"val", j, x>>)
<1> DEFINE r == written[j]
           u == ValueEnd - r.v + x
<1>1. /\ r.k \in Nat /\ r.klen \in Nat /\ r.v \in Nat /\ r.vlen \in Nat /\ r.vlen <= r.v
      /\ key_area \in Nat /\ ValueEnd \in Nat
      /\ key_area + r.k + r.klen <= ValueEnd - r.v /\ ValueEnd <= BlockLen /\ BlockLen \in Nat /\ x \in Nat /\ x < r.vlen
  BY Numbers
<1> HIDE DEF r
<1>2. /\ u \in 0 .. BlockLen - 1 /\ key_area <= u /\ u - (ValueEnd - r.v) = x
      /\ ValueEnd - r.v <= u /\ u < ValueEnd - r.v + r.vlen
  <2> DEFINE k == r.k
             kl == r.klen
             v == r.v
             vl == r.vlen
  <2>1. /\ k \in Nat /\ kl \in Nat /\ v \in Nat /\ vl \in Nat /\ key_area \in Nat /\ ValueEnd \in Nat
        /\ vl <= v /\ key_area + k + kl <= ValueEnd - v /\ ValueEnd <= BlockLen /\ BlockLen \in Nat
        /\ x \in Nat /\ x < vl
    BY <1>1
  <2> HIDE DEF k, kl, v, vl
  <2>2. /\ ValueEnd - v + x \in 0 .. BlockLen - 1 /\ key_area <= ValueEnd - v + x
        /\ (ValueEnd - v + x) - (ValueEnd - v) = x
        /\ ValueEnd - v <= ValueEnd - v + x /\ ValueEnd - v + x < ValueEnd - v + vl
    BY ONLY <2>1
  <2> QED
    BY <2>2 DEF v, vl
<1>3. ~(EntryAt(u) <= Len(written))
  <2>1. u \in Nat
    BY <1>2
  <2>2. EntryAt(u) \in Nat /\ EntryAt(u) > Len(written)
    BY <1>2, <2>1, PastTable
  <2> HIDE DEF u
  <2> QED
    BY <2>2
<1>4. InVal(u, written[j])
  BY <1>2 DEF InVal, r
<1>5. ASSUME NEW m \in 1 .. Len(written)
      PROVE  ~InKey(u, written[m])
  <2>1. key_area + written[m].k + written[m].klen <= ValueEnd - r.v
    <3>1. CASE m = j
      BY <3>1, <1>1 DEF r
    <3>2. CASE m # j
      BY <3>2 DEF Layout, Apart, r
    <3> QED
      BY <3>1, <3>2
  <2>2. written[m].k \in Nat /\ written[m].klen \in Nat
    BY Numbers
  <2>3. ~(u < key_area + written[m].k + written[m].klen)
    BY ONLY <1>1, <2>1, <2>2, ValKeyApart, Zenon
  <2> HIDE DEF u
  <2> QED
    BY <2>3 DEF InKey
<1>6. ASSUME NEW m \in 1 .. Len(written), m # j
      PROVE  ~InVal(u, written[m])
  <2>1. Apart(written[j], written[m])
    BY <1>6 DEF Layout
  <2>2. r.v <= written[m].v - written[m].vlen \/ written[m].v <= r.v - r.vlen
    BY <2>1 DEF Apart, r
  <2>3. written[m].v \in Nat /\ written[m].vlen \in Nat
    BY Numbers
  <2>4. ~(ValueEnd - written[m].v <= u /\ u < ValueEnd - written[m].v + written[m].vlen)
    BY ONLY <1>1, <2>2, <2>3, ValApart, Zenon
  <2> HIDE DEF u
  <2> QED
    BY <2>4 DEF InVal
<1> HIDE DEF u
<1>7. (CHOOSE n \in 1 .. Len(written) : InVal(u, written[n])) = j
  BY <1>4, <1>6
<1>8. UnitAt(u) = Unit(0, <<"val", j, u - (ValueEnd - written[j].v)>>)
  BY ONLY <1>3, <1>4, <1>5, <1>7, j \in 1 .. Len(written), Zenon DEF UnitAt
<1>9. Written[u] = Unit(0, <<"val", j, x>>)
  BY <1>2, <1>8 DEF Written, r
<1> QED
  BY <1>2, <1>9 DEF u, r

\* Every unit is a number and a tag.
LEMMA WrittenTyped ==
  ASSUME hdr \in NodeHeader, written \in Seq(Record), Layout
  PROVE  Written \in [0 .. BlockLen - 1 -> [n : Nat, of : Tag]]
<1>1. SUFFICES ASSUME NEW u \in 0 .. BlockLen - 1
               PROVE  UnitAt(u) \in [n : Nat, of : Tag]
  BY DEF Written
<1>2. u \in Nat /\ BlockLen \in Nat
  BY NodeAssumption
<1> DEFINE U == [n : Nat, of : Tag]
<1>3. \A n \in Nat : Toc(n) \in U
  BY DEF Toc, Unit, Tag
<1>4. Spare \in U
  BY DEF Spare, Unit, Tag
<1>5. \A j, x \in Nat : Unit(0, <<"key", j, x>>) \in U /\ Unit(0, <<"val", j, x>>) \in U
  BY DEF Unit, Tag
<1>6. CASE toc_start <= u /\ EntryAt(u) <= Len(written)
  <2>1. toc_start \in Nat /\ entry_len \in {2, 4}
    BY Places
  <2>2. u - toc_start \in Nat
    BY ONLY <1>2, <1>6, <2>1
  <2>3. (u - toc_start) % entry_len \in 0 .. entry_len - 1 /\ (u - toc_start) \div entry_len \in Nat
    BY ONLY <2>1, <2>2, Remainder
  <2>4. EntryAt(u) \in 1 .. Len(written)
    BY <1>6, <2>3 DEF EntryAt
  <2>5. ((u - toc_start) % entry_len) + 1 \in 1 .. entry_len
    BY ONLY <2>1, <2>3
  <2>6. written[EntryAt(u)] \in Record
    BY <2>4
  <2>7. TocField(written[EntryAt(u)], ((u - toc_start) % entry_len) + 1) \in Nat
    BY <2>5, <2>6, TocFields
  <2>8. UnitAt(u) = Toc(TocField(written[EntryAt(u)], ((u - toc_start) % entry_len) + 1))
    BY ONLY <1>6 DEF UnitAt
  <2> QED
    BY <2>7, <2>8, <1>3
<1>7. CASE ~(toc_start <= u /\ EntryAt(u) <= Len(written)) /\ \E j \in 1 .. Len(written) : InKey(u, written[j])
  <2> DEFINE j == CHOOSE n \in 1 .. Len(written) : InKey(u, written[n])
  <2>1. j \in 1 .. Len(written) /\ InKey(u, written[j])
    BY <1>7
  <2>2. UnitAt(u) = Unit(0, <<"key", j, u - (key_area + written[j].k)>>)
    BY ONLY <1>7 DEF UnitAt
  <2> HIDE DEF j
  <2>3. written[j].k \in Nat /\ key_area \in Nat
    BY <2>1, Numbers
  <2>4. key_area + written[j].k <= u
    BY <2>1 DEF InKey
  <2>5. u - (key_area + written[j].k) \in Nat
    BY ONLY <1>2, <2>3, <2>4
  <2>6. j \in Nat
    BY <2>1
  <2> QED
    BY ONLY <1>5, <2>2, <2>5, <2>6, Zenon
<1>8. CASE /\ ~(toc_start <= u /\ EntryAt(u) <= Len(written))
           /\ ~(\E j \in 1 .. Len(written) : InKey(u, written[j]))
           /\ \E j \in 1 .. Len(written) : InVal(u, written[j])
  <2> DEFINE j == CHOOSE n \in 1 .. Len(written) : InVal(u, written[n])
  <2>1. j \in 1 .. Len(written) /\ InVal(u, written[j])
    BY <1>8
  <2>2. UnitAt(u) = Unit(0, <<"val", j, u - (ValueEnd - written[j].v)>>)
    BY ONLY <1>8 DEF UnitAt
  <2> HIDE DEF j
  <2>3. written[j].v \in Nat /\ ValueEnd \in Nat
    BY <2>1, Numbers, Zenon
  <2>4. ValueEnd - written[j].v <= u
    BY <2>1 DEF InVal
  <2>5. u - (ValueEnd - written[j].v) \in Nat
    BY ONLY <1>2, <2>3, <2>4
  <2>6. j \in Nat
    BY <2>1
  <2> QED
    BY ONLY <1>5, <2>2, <2>5, <2>6, Zenon
<1>9. CASE /\ ~(toc_start <= u /\ EntryAt(u) <= Len(written))
           /\ ~(\E j \in 1 .. Len(written) : InKey(u, written[j]))
           /\ ~(\E j \in 1 .. Len(written) : InVal(u, written[j]))
  <2>1. UnitAt(u) = Spare
    BY ONLY <1>9 DEF UnitAt
  <2> QED
    BY <2>1, <1>4
<1> QED
  BY <1>6, <1>7, <1>8, <1>9

----------------------------------------------------------------------------
\* The invariant holds of an empty node.
LEMMA InitOK == NodeInit => NodeInv
<1> SUFFICES ASSUME NodeInit PROVE NodeInv
  OBVIOUS
<1>1. hdr \in NodeHeader /\ Len(written) = 0 /\ Len(out) = 0
  BY NodeAssumption DEF NodeInit
<1>2. NodeTypeOK
  <2>1. block \in [0 .. BlockLen - 1 -> [n : Nat, of : Tag]]
    BY DEF NodeInit, Spare, Unit, Tag
  <2>2. i \in 0 .. nkeys
    BY <1>1, Places DEF NodeInit
  <2> QED
    BY <1>1, <2>1, <2>2 DEF NodeInit, NodeTypeOK
<1>3. Layout
  <2>1. 0 * entry_len = 0 /\ hdr.toc_len >= 0
    BY <1>1, Places
  <2> QED
    BY <1>1, <2>1 DEF Layout
<1>4. OnDisk /\ Progress
  BY <1>1 DEF OnDisk, Progress, NodeInit
<1> QED
  BY <1>2, <1>3, <1>4 DEF NodeInv

\* A record the writer may put is made of numbers, of fixed size if the node is.
LEMMA RecordsTyped ==
  ASSUME hdr \in NodeHeader, NEW r \in Records
  PROVE  r \in Record /\ (hdr.fixed => r.klen = key_len /\ r.vlen = val_len)
<1>1. ValueEnd - key_area \in Int
  BY Places
<1>2. r.k \in Nat /\ r.v \in Nat
  BY <1>1 DEF Records, Room
<1>3. /\ r.klen \in Nat /\ r.vlen \in Nat
      /\ hdr.fixed => r.klen = key_len /\ r.vlen = val_len
  BY Places, NodeAssumption, Zenon DEF Records, KeyLens, ValLens
<1>4. r = [k |-> r.k, klen |-> r.klen, v |-> r.v, vlen |-> r.vlen]
  BY DEF Records
<1> QED
  BY <1>2, <1>3, <1>4 DEF Record

\* The writer keeps the records apart.
LEMMA PutOK ==
  ASSUME NodeInv, NEW r \in Records, Put(r)
  PROVE  NodeInv'
<1>1. /\ npc = "writing" /\ npc' = "writing" /\ hdr \in NodeHeader /\ hdr' = hdr
      /\ written \in Seq(Record) /\ Layout /\ i = 0 /\ out = << >>
      /\ block' = block /\ damaged' = damaged /\ i' = i /\ out' = out
  BY DEF NodeInv, NodeTypeOK, Progress, Put
<1>2. r \in Record /\ (hdr.fixed => r.klen = key_len /\ r.vlen = val_len)
  BY <1>1, RecordsTyped
<1>3. /\ written' \in Seq(Record) /\ Len(written') = Len(written) + 1 /\ Len(written) \in Nat
      /\ \A j \in 1 .. Len(written) : written'[j] = written[j]
      /\ written'[Len(written) + 1] = r
  BY <1>1, <1>2 DEF Put
<1>4. /\ entry_len' = entry_len /\ key_area' = key_area /\ ValueEnd' = ValueEnd
      /\ key_len' = key_len /\ val_len' = val_len /\ nkeys' = nkeys
  BY <1>1 DEF entry_len, key_area, toc_start, ValueEnd, key_len, val_len, nkeys
<1>5. NodeTypeOK'
  BY <1>1, <1>3, <1>4 DEF NodeInv, NodeTypeOK
<1>6. Layout'
  <2>1. Len(written') * entry_len' <= hdr'.toc_len
    BY <1>1, <1>3, <1>4 DEF Put
  <2>2. \A j \in 1 .. Len(written') : RecordOK(written[j])'
    <3>1. RecordOK(r)
      BY <1>2 DEF Put, Fits, RecordOK
    <3>2. \A j \in 1 .. Len(written) : RecordOK(written[j])
      BY <1>1 DEF Layout
    <3>3. \A j \in 1 .. Len(written') : RecordOK(written'[j])
      BY <1>3, <3>1, <3>2
    <3> QED
      BY <1>1, <1>4, <3>3 DEF RecordOK
  <2>3. \A j, m \in 1 .. Len(written') : j # m => Apart(written[j], written[m])'
    <3>1. \A j \in 1 .. Len(written) : Apart(written[j], r) /\ Apart(r, written[j])
      BY DEF Put, Fits, Apart
    <3>2. \A j, m \in 1 .. Len(written) : j # m => Apart(written[j], written[m])
      BY <1>1 DEF Layout
    <3>3. \A j, m \in 1 .. Len(written') : j # m => Apart(written'[j], written'[m])
      BY <1>3, <3>1, <3>2
    <3> QED
      BY <1>1, <1>4, <3>3 DEF Apart
  <2> QED
    BY <2>1, <2>2, <2>3 DEF Layout
<1>7. OnDisk' /\ Progress'
  BY <1>1 DEF OnDisk, Progress
<1> QED
  BY <1>5, <1>6, <1>7 DEF NodeInv

\* Two table units are one only if they are the same field of the same entry.
LEMMA TableUnitsDiffer ==
  ASSUME hdr \in NodeHeader, written \in Seq(Record), Layout,
         NEW j \in 1 .. Len(written), NEW f \in 1 .. entry_len,
         NEW m \in 1 .. Len(written), NEW g \in 1 .. entry_len, j # m
  PROVE  TocUnit(j, f) # TocUnit(m, g)
<1>1. EntryAt(TocUnit(j, f)) = j
  BY TableUnits
<1>2. EntryAt(TocUnit(m, g)) = m
  BY TableUnits
<1> QED
  BY ONLY <1>1, <1>2, j # m

\* A header that differs in its count leaves the records where they are.
LEMMA CountedPlaces ==
  ASSUME hdr \in NodeHeader, NEW n \in Nat, hdr' = Counted(n), written' = written
  PROVE  /\ hdr' \in NodeHeader /\ hdr'.nkeys = n
         /\ toc_start' = toc_start /\ key_area' = key_area /\ entry_len' = entry_len /\ ValueEnd' = ValueEnd
         /\ \A r, f : TocField(r, f)' = TocField(r, f)
         /\ Layout => Layout'
<1>1. /\ hdr' \in NodeHeader /\ hdr'.nkeys = n /\ hdr'.root = hdr.root /\ hdr'.leaf = hdr.leaf
      /\ hdr'.fixed = hdr.fixed /\ hdr'.toc_off = hdr.toc_off /\ hdr'.toc_len = hdr.toc_len
  BY DEF Counted, NodeHeader
<1>2. /\ toc_start' = toc_start /\ entry_len' = entry_len /\ ValueEnd' = ValueEnd
      /\ key_len' = key_len /\ val_len' = val_len
  BY <1>1 DEF toc_start, entry_len, ValueEnd, key_len, val_len
<1>3. key_area' = key_area
  BY <1>1, <1>2 DEF key_area
<1>4. \A r, f : TocField(r, f)' = TocField(r, f)
  BY <1>1 DEF TocField
<1>5. ASSUME Layout PROVE Layout'
  BY <1>1, <1>2, <1>3, <1>5 DEF Layout, RecordOK, Apart
<1> QED
  BY <1>1, <1>2, <1>3, <1>4, <1>5

\* A node that is complete, or has one malformed table entry, holds the records.
LEMMA FinishOK ==
  ASSUME NodeInv, Finish
  PROVE  NodeInv'
<1>1. /\ hdr \in NodeHeader /\ written \in Seq(Record) /\ Layout /\ i = 0 /\ out = << >>
      /\ written' = written /\ i' = i /\ out' = out /\ npc' = "loop" /\ Len(written) \in Nat
  BY DEF NodeInv, NodeTypeOK, Progress, Finish
<1>2. PICK n \in Nat : n >= Len(written) /\ hdr' = Counted(n)
  BY <1>1, NodeAssumption DEF Finish
<1>3. /\ hdr' \in NodeHeader /\ hdr'.nkeys = n
      /\ toc_start' = toc_start /\ key_area' = key_area /\ entry_len' = entry_len /\ ValueEnd' = ValueEnd
      /\ \A r, f : TocField(r, f)' = TocField(r, f)
      /\ Layout'
  BY <1>1, <1>2, CountedPlaces
<1>4. Written \in [0 .. BlockLen - 1 -> [n : Nat, of : Tag]]
  BY <1>1, WrittenTyped
<1>5. \/ block' = Written /\ damaged' = 0
      \/ \E d \in 1 .. Len(written), f \in 1 .. entry_len, b \in Nat :
           block' = [Written EXCEPT ![TocUnit(d, f)] = Toc(b)] /\ damaged' = d
  BY NodeAssumption DEF Finish
<1>6. NodeTypeOK'
  <2>1. block' \in [0 .. BlockLen - 1 -> [n : Nat, of : Tag]]
    BY <1>4, <1>5 DEF Toc, Unit, Tag
  <2>2. damaged' \in 0 .. Len(written)
    BY <1>1, <1>5
  <2>3. i' \in 0 .. nkeys'
    BY <1>1, <1>3, NodeAssumption DEF nkeys
  <2> QED
    BY <1>1, <1>3, <2>1, <2>2, <2>3 DEF NodeInv, NodeTypeOK
<1>7. OnDisk'
  <2>1. ASSUME NEW j \in 1 .. Len(written), NEW u \in 0 .. BlockLen - 1, key_area <= u
        PROVE  block'[u] = Written[u]
    <3>1. CASE block' = Written
      BY <3>1
    <3>2. CASE \E d \in 1 .. Len(written), f \in 1 .. entry_len, b \in Nat :
                 block' = [Written EXCEPT ![TocUnit(d, f)] = Toc(b)]
      <4>1. PICK d \in 1 .. Len(written), f \in 1 .. entry_len, b \in Nat :
                   block' = [Written EXCEPT ![TocUnit(d, f)] = Toc(b)]
        BY <3>2, Zenon
      <4>2. TocUnit(d, f) < key_area /\ TocUnit(d, f) \in 0 .. BlockLen - 1 /\ key_area \in Nat
        BY <1>1, TableUnits, Numbers
      <4>3. u # TocUnit(d, f)
        BY ONLY <2>1, <4>2, NodeAssumption
      <4> QED
        BY <1>4, <4>1, <4>3
    <3> QED
      BY <1>5, <3>1, <3>2
  <2>2. ASSUME NEW j \in 1 .. Len(written), j # damaged', NEW f \in 1 .. entry_len
        PROVE  block'[TocUnit(j, f)] = Written[TocUnit(j, f)]
    <3>1. CASE block' = Written
      BY <3>1
    <3>2. CASE \E d \in 1 .. Len(written), g \in 1 .. entry_len, b \in Nat :
                 block' = [Written EXCEPT ![TocUnit(d, g)] = Toc(b)] /\ damaged' = d
      <4>1. PICK d \in 1 .. Len(written), g \in 1 .. entry_len, b \in Nat :
                   block' = [Written EXCEPT ![TocUnit(d, g)] = Toc(b)] /\ damaged' = d
        BY <3>2, Zenon
      <4>2. TocUnit(j, f) \in 0 .. BlockLen - 1 /\ TocUnit(j, f) # TocUnit(d, g)
        BY <1>1, <2>2, <4>1, TableUnits, TableUnitsDiffer
      <4> QED
        BY <1>4, <4>1, <4>2
    <3> QED
      BY <1>5, <3>1, <3>2
  <2>3. ASSUME NEW j \in 1 .. Len(written), j # damaged' PROVE TocOK(j)'
    <3>1. ASSUME NEW f \in 1 .. entry_len
          PROVE  block'[TocUnit(j, f)].n = TocField(written[j], f)
      <4>1. Written[TocUnit(j, f)] = Toc(TocField(written[j], f))
        BY <1>1, WrittenToc
      <4>2. block'[TocUnit(j, f)] = Written[TocUnit(j, f)]
        BY ONLY <2>2, <2>3, <3>1
      <4> QED
        BY ONLY <4>1, <4>2 DEF Toc, Unit
    <3>2. \A f : TocUnit(j, f)' = TocUnit(j, f)
      BY <1>3 DEF TocUnit
    <3> QED
      BY <1>1, <1>3, <3>1, <3>2 DEF TocOK
  <2>4. ASSUME NEW j \in 1 .. Len(written) PROVE KeyOK(j)'
    <3>1. ASSUME NEW x \in 0 .. written[j].klen - 1
          PROVE  block'[key_area + written[j].k + x].of = <<"key", j, x>>
      <4> DEFINE u == key_area + written[j].k + x
      <4>1. u \in 0 .. BlockLen - 1 /\ key_area <= u /\ Written[u] = Unit(0, <<"key", j, x>>)
        BY <1>1, WrittenKey
      <4> HIDE DEF u
      <4>2. block'[u] = Written[u]
        BY ONLY <2>1, <2>4, <4>1
      <4>3. block'[u].of = <<"key", j, x>>
        BY ONLY <4>1, <4>2 DEF Unit
      <4> QED
        BY <4>3 DEF u
    <3> QED
      BY <1>1, <1>3, <3>1, Zenon DEF KeyOK
  <2>5. ASSUME NEW j \in 1 .. Len(written) PROVE ValOK(j)'
    <3>1. ASSUME NEW x \in 0 .. written[j].vlen - 1
          PROVE  block'[ValueEnd - written[j].v + x].of = <<"val", j, x>>
      <4> DEFINE u == ValueEnd - written[j].v + x
      <4>1. u \in 0 .. BlockLen - 1 /\ key_area <= u /\ Written[u] = Unit(0, <<"val", j, x>>)
        BY <1>1, WrittenVal
      <4> HIDE DEF u
      <4>2. block'[u] = Written[u]
        BY ONLY <2>1, <2>5, <4>1
      <4>3. block'[u].of = <<"val", j, x>>
        BY ONLY <4>1, <4>2 DEF Unit
      <4> QED
        BY <4>3 DEF u
    <3> QED
      BY <1>1, <1>3, <3>1 DEF ValOK
  <2> QED
    BY <1>1, <1>2, <1>3, <2>3, <2>4, <2>5 DEF OnDisk
<1>8. Progress'
  BY <1>1 DEF Progress
<1> QED
  BY <1>3, <1>6, <1>7, <1>8 DEF NodeInv

----------------------------------------------------------------------------
\* The loop leaves the node as it is.
LEMMA SamePlaces ==
  ASSUME UNCHANGED <<hdr, block, written, damaged>>
  PROVE  /\ nkeys' = nkeys
         /\ \A j : EntryOf(j)' = EntryOf(j)
         /\ Layout => Layout'
         /\ OnDisk /\ (npc = "writing" => npc' = "writing") => OnDisk'
<1>1. hdr' = hdr /\ block' = block /\ written' = written /\ damaged' = damaged
  OBVIOUS
<1>2. /\ toc_start' = toc_start /\ entry_len' = entry_len /\ ValueEnd' = ValueEnd
      /\ key_len' = key_len /\ val_len' = val_len /\ nkeys' = nkeys
  BY <1>1 DEF toc_start, entry_len, ValueEnd, key_len, val_len, nkeys
<1>3. key_area' = key_area
  BY <1>1, <1>2 DEF key_area
<1>4. /\ \A j : EntryOf(j)' = EntryOf(j)
      /\ \A r, f : TocField(r, f)' = TocField(r, f)
      /\ \A j, f : TocUnit(j, f)' = TocUnit(j, f)
  BY <1>1, <1>2 DEF EntryOf, TocField, TocUnit
<1>5. /\ \A r : RecordOK(r)' = RecordOK(r)
      /\ \A q, r : Apart(q, r)' = Apart(q, r)
  BY <1>1, <1>2, <1>3 DEF RecordOK, Apart
<1>6. ASSUME Layout PROVE Layout'
  BY <1>1, <1>2, <1>5, <1>6, SMTT(30) DEF Layout
<1>7. /\ \A j : TocOK(j) => TocOK(j)'
      /\ \A j : KeyOK(j) => KeyOK(j)'
      /\ \A j : ValOK(j) => ValOK(j)'
  BY <1>1, <1>2, <1>3, <1>4 DEF TocOK, KeyOK, ValOK
<1>8. ASSUME OnDisk, npc = "writing" => npc' = "writing" PROVE OnDisk'
  BY <1>1, <1>7, <1>8 DEF OnDisk
<1> QED
  BY <1>2, <1>4, <1>6, <1>8

\* What the loop reads of a table entry are numbers.
LEMMA FieldsRead ==
  ASSUME NodeTypeOK
  PROVE  /\ koff \in Nat /\ voff \in Nat /\ this_key_len \in Nat /\ this_val_len \in Nat
         /\ kstart \in Nat /\ vstart \in Int /\ entry \in Nat
<1>1. \A u \in Nat : le_u16(u) \in Nat
  BY NodeAssumption DEF NodeTypeOK, le_u16
<1>2. toc_start \in Nat /\ entry_len \in {2, 4} /\ key_area \in Nat /\ val_base \in Nat
      /\ key_len \in Nat /\ val_len \in Nat /\ i \in Nat
  BY Places DEF NodeTypeOK
<1>3. i * entry_len \in Nat
  BY ONLY <1>2
<1>4. entry \in Nat
  BY ONLY <1>2, <1>3 DEF entry
<1>5. koff \in Nat /\ voff \in Nat /\ this_key_len \in Nat /\ this_val_len \in Nat
  BY <1>1, <1>2, <1>4 DEF koff, voff, this_key_len, this_val_len
<1> QED
  BY <1>2, <1>4, <1>5 DEF kstart, vstart

\* The pieces of a slice that lies in the node.
LEMMA SliceTyped ==
  ASSUME NodeTypeOK, NEW at \in Nat, NEW len \in Nat, InBlock(at, len)
  PROVE  Slice(at, len) \in Seq(Tag)
<1>1. ASSUME NEW j \in 1 .. len PROVE at + j - 1 \in 0 .. BlockLen - 1
  BY NodeAssumption DEF InBlock
<1>2. ASSUME NEW j \in 1 .. len PROVE block[at + j - 1].of \in Tag
  BY <1>1, Zenon DEF NodeTypeOK
<1>3. Slice(at, len) \in [1 .. len -> Tag]
  BY <1>2 DEF Slice
<1> QED
  BY <1>3

\* At a table entry that is not malformed the loop reads what was written there.
LEMMA TocRead ==
  ASSUME NodeTypeOK, Layout, OnDisk, npc = "loop", i + 1 \in 1 .. Len(written), i + 1 # damaged
  PROVE  /\ koff = written[i + 1].k /\ voff = written[i + 1].v
         /\ this_key_len = written[i + 1].klen /\ this_val_len = written[i + 1].vlen
<1> DEFINE j == i + 1
           r == written[j]
<1>1. hdr \in NodeHeader /\ written \in Seq(Record) /\ j \in 1 .. Len(written) /\ i \in Nat /\ BlockLen \in Nat
  BY NodeAssumption, Places DEF NodeTypeOK
<1>2. toc_start \in Nat /\ entry_len \in {2, 4} /\ (hdr.fixed => entry_len = 2) /\ (~hdr.fixed => entry_len = 4)
  BY <1>1, Places
<1>3. r \in Record /\ RecordOK(r)
  BY <1>1 DEF Layout
<1>4. ASSUME NEW f \in 1 .. entry_len PROVE le_u16(entry + (f - 1)) = TocField(r, f)
  <2>1. TocUnit(j, f) \in 0 .. BlockLen - 1 /\ TocUnit(j, f) = toc_start + (j - 1) * entry_len + (f - 1)
    BY <1>1, TableUnits
  <2>2. j - 1 = i
    BY <1>1
  <2>3. TocUnit(j, f) = entry + (f - 1)
    BY ONLY <2>1, <2>2 DEF entry
  <2>4. block[TocUnit(j, f)].n = TocField(r, f)
    BY <1>1 DEF OnDisk, TocOK
  <2>5. TocUnit(j, f) < BlockLen
    BY ONLY <1>1, <2>1
  <2> QED
    BY ONLY <2>3, <2>4, <2>5 DEF le_u16
<1>5. entry \in Nat
  BY FieldsRead
<1> HIDE DEF r, j
<1>6. /\ le_u16(entry) = TocField(r, 1) /\ le_u16(entry + 1) = TocField(r, 2)
      /\ ~hdr.fixed => le_u16(entry + 2) = TocField(r, 3) /\ le_u16(entry + 3) = TocField(r, 4)
  <2>1. le_u16(entry + (1 - 1)) = TocField(r, 1) /\ le_u16(entry + (2 - 1)) = TocField(r, 2)
    BY ONLY <1>2, <1>4
  <2>2. ~hdr.fixed => le_u16(entry + (3 - 1)) = TocField(r, 3) /\ le_u16(entry + (4 - 1)) = TocField(r, 4)
    BY ONLY <1>2, <1>4
  <2>3. entry + (1 - 1) = entry /\ entry + (2 - 1) = entry + 1 /\ entry + (3 - 1) = entry + 2 /\ entry + (4 - 1) = entry + 3
    BY ONLY <1>5
  <2> QED
    BY ONLY <2>1, <2>2, <2>3
<1>7. koff = r.k /\ voff = r.v /\ this_key_len = r.klen /\ this_val_len = r.vlen
  BY <1>1, <1>3, <1>6, TocFields DEF koff, voff, this_key_len, this_val_len, RecordOK
<1> QED
  BY <1>7 DEF r, j

\* Such an entry lies in the node, and gives the record's key and value.
LEMMA RecordRead ==
  ASSUME NodeTypeOK, Layout, OnDisk, npc = "loop", i + 1 \in 1 .. Len(written), i + 1 # damaged
  PROVE  /\ Found
         /\ [at |-> i + 1, key |-> Slice(kstart, this_key_len), value |-> Slice(vstart, this_val_len)]
              = EntryOf(i + 1)
<1> DEFINE j == i + 1
           k == written[j].k
           kl == written[j].klen
           v == written[j].v
           vl == written[j].vlen
<1>1. hdr \in NodeHeader /\ written \in Seq(Record) /\ j \in 1 .. Len(written)
  BY DEF NodeTypeOK
<1>2. /\ k \in Nat /\ kl \in Nat /\ v \in Nat /\ vl \in Nat /\ vl <= v
      /\ key_area + k + kl <= ValueEnd - v
      /\ key_area \in Nat /\ ValueEnd \in Nat /\ ValueEnd <= BlockLen /\ BlockLen \in Nat
      /\ val_base = ValueEnd
  BY <1>1, Numbers, SMTT(30)
<1>3. koff = k /\ voff = v /\ this_key_len = kl /\ this_val_len = vl
  BY TocRead
<1>4. /\ \A x \in 0 .. kl - 1 : block[key_area + k + x].of = <<"key", j, x>>
      /\ \A x \in 0 .. vl - 1 : block[ValueEnd - v + x].of = <<"val", j, x>>
  BY <1>1, SMTT(30) DEF OnDisk, KeyOK, ValOK
<1>5. EntryOf(j) = [at |-> j, key |-> [n \in 1 .. kl |-> <<"key", j, n - 1>>],
                              value |-> [n \in 1 .. vl |-> <<"val", j, n - 1>>]]
  BY DEF EntryOf
<1> HIDE DEF j, k, kl, v, vl
<1>6. kstart = key_area + k /\ vstart = ValueEnd - v
  BY ONLY <1>2, <1>3 DEF kstart, vstart
<1>7. Found
  BY ONLY <1>2, <1>3, <1>6 DEF Found, InBlock
<1>8. Slice(kstart, this_key_len) = [n \in 1 .. kl |-> <<"key", j, n - 1>>]
  <2>1. ASSUME NEW n \in 1 .. kl PROVE block[kstart + n - 1].of = <<"key", j, n - 1>>
    <3>1. n - 1 \in 0 .. kl - 1 /\ kstart + n - 1 = key_area + k + (n - 1)
      BY ONLY <1>2, <1>6, <2>1
    <3> QED
      BY ONLY <1>4, <3>1
  <2> QED
    BY ONLY <1>3, <2>1 DEF Slice
<1>9. Slice(vstart, this_val_len) = [n \in 1 .. vl |-> <<"val", j, n - 1>>]
  <2>1. ASSUME NEW n \in 1 .. vl PROVE block[vstart + n - 1].of = <<"val", j, n - 1>>
    <3>1. n - 1 \in 0 .. vl - 1 /\ vstart + n - 1 = ValueEnd - v + (n - 1)
      BY ONLY <1>2, <1>6, <2>1
    <3> QED
      BY ONLY <1>4, <3>1
  <2> QED
    BY ONLY <1>3, <2>1 DEF Slice
<1>10. [at |-> j, key |-> Slice(kstart, this_key_len), value |-> Slice(vstart, this_val_len)] = EntryOf(j)
  BY ONLY <1>5, <1>8, <1>9
<1> QED
  BY <1>7, <1>10 DEF j

\* A turn of the loop finds the record of its table entry, unless it is malformed.
LEMMA TurnOK ==
  ASSUME NodeInv, Turn
  PROVE  NodeInv'
<1> DEFINE found == [at |-> i + 1, key |-> Slice(kstart, this_key_len), value |-> Slice(vstart, this_val_len)]
<1>1. /\ NodeTypeOK /\ Layout /\ OnDisk /\ Progress
      /\ npc = "loop" /\ npc' = "loop" /\ i < nkeys /\ i' = i + 1
      /\ hdr' = hdr /\ block' = block /\ written' = written /\ damaged' = damaged
  BY DEF NodeInv, Turn, node
<1>2. i \in Nat /\ nkeys \in Nat /\ nkeys <= hdr.nkeys /\ out \in Seq(NodeEntry) /\ Len(written) \in Nat /\ hdr.nkeys \in Nat
  BY <1>1, Places DEF NodeTypeOK, NodeHeader
<1>3. \/ ~Found /\ out' = out
      \/ Found /\ out' = Append(out, found)
  BY DEF Turn
<1>4. Found => found \in NodeEntry
  <2>1. SUFFICES ASSUME Found PROVE found \in NodeEntry
    OBVIOUS
  <2>2. /\ kstart \in Nat /\ this_key_len \in Nat /\ this_val_len \in Nat /\ voff \in Nat
        /\ val_base \in Nat
    BY <1>1, FieldsRead, Places DEF NodeTypeOK
  <2>3. vstart \in Nat
    BY <2>1, <2>2 DEF Found, vstart
  <2>4. Slice(kstart, this_key_len) \in Seq(Tag) /\ Slice(vstart, this_val_len) \in Seq(Tag)
    BY <1>1, <2>1, <2>2, <2>3, SliceTyped DEF Found
  <2>5. i + 1 \in Nat
    BY ONLY <1>2
  <2> QED
    BY ONLY <2>4, <2>5 DEF NodeEntry
<1>5. i + 1 \in 1 .. Len(written) /\ i + 1 # damaged => Found /\ found = EntryOf(i + 1)
  BY <1>1, RecordRead
<1>6. found.at = i + 1
  OBVIOUS
<1> HIDE DEF found
<1>7. /\ out' \in Seq(NodeEntry) /\ Len(out) \in Nat
      /\ \A n \in 1 .. Len(out) : n \in 1 .. Len(out') /\ out'[n] = out[n] /\ out[n].at \in Nat
      /\ Found => Len(out') = Len(out) + 1 /\ out'[Len(out) + 1] = found
      /\ ~Found => out' = out
  <2>1. Len(out) \in Nat /\ \A n \in 1 .. Len(out) : out[n] \in NodeEntry
    BY <1>2
  <2>2. \A t \in NodeEntry : t.at \in Nat
    BY DEF NodeEntry
  <2> QED
    <3>1. CASE Found
      <4>1. out' = Append(out, found) /\ found \in NodeEntry
        BY <1>3, <1>4, <3>1
      <4> QED
        BY ONLY <1>2, <2>1, <2>2, <3>1, <4>1
    <3>2. CASE ~Found
      <4>1. out' = out
        BY <1>3, <3>2
      <4> QED
        BY ONLY <1>2, <2>1, <2>2, <3>2, <4>1
    <3> QED
      BY ONLY <3>1, <3>2
<1>8. \A j : EntryOf(j)' = EntryOf(j)
  BY <1>1 DEF EntryOf
<1>9. NodeTypeOK'
  <2>1. nkeys' = nkeys
    BY <1>1 DEF nkeys
  <2>2. i' \in 0 .. nkeys'
    BY <1>1, <1>2, <2>1
  <2> QED
    BY <1>1, <1>7, <2>2 DEF NodeTypeOK
<1>10. Layout' /\ OnDisk'
  BY <1>1, SamePlaces
<1>11. Progress'
  <2>1. \A n \in 1 .. Len(out) :
          out[n].at <= Len(written) /\ out[n].at # damaged => out[n] = EntryOf(out[n].at)
    BY <1>1, Zenon DEF Progress
  <2>2. /\ \A n \in 1 .. Len(out) : 1 <= out[n].at /\ out[n].at <= i
        /\ \A m, n \in 1 .. Len(out) : m < n => out[m].at < out[n].at
    BY <1>1, Zenon DEF Progress
  <2>3. ASSUME NEW n \in 1 .. Len(out')
        PROVE  /\ 1 <= out'[n].at /\ out'[n].at <= i + 1
               /\ out'[n].at <= Len(written) /\ out'[n].at # damaged => out'[n] = EntryOf(out'[n].at)
    <3>1. CASE n \in 1 .. Len(out)
      <4>1. out'[n] = out[n] /\ out[n].at \in Nat
        BY <1>7, <3>1, Zenon
      <4>2. out[n].at <= i + 1
        BY ONLY <1>2, <2>2, <3>1, <4>1
      <4> QED
        BY <2>1, <2>2, <3>1, <4>1, <4>2, Zenon
    <3>2. CASE n \notin 1 .. Len(out)
      <4>1. out'[n] = found
        BY ONLY <1>7, <2>3, <3>2
      <4>2. 1 <= i + 1 /\ i + 1 <= i + 1 /\ (i + 1 <= Len(written) => i + 1 \in 1 .. Len(written))
        BY ONLY <1>2
      <4> QED
        BY <1>5, <1>6, <4>1, <4>2, Zenon
    <3> QED
      BY <3>1, <3>2, Zenon
  <2>4. ASSUME NEW m \in 1 .. Len(out'), NEW n \in 1 .. Len(out'), m < n
        PROVE  out'[m].at < out'[n].at
    <3>1. CASE n \in 1 .. Len(out)
      <4>1. m \in 1 .. Len(out)
        BY ONLY <1>7, <2>4, <3>1
      <4>2. out'[m] = out[m] /\ out'[n] = out[n]
        BY <1>7, <3>1, <4>1, Zenon
      <4> QED
        BY <2>2, <2>4, <3>1, <4>1, <4>2, Zenon
    <3>2. CASE n \notin 1 .. Len(out)
      <4>1. Found /\ n = Len(out) + 1 /\ m \in 1 .. Len(out)
        BY ONLY <1>7, <2>4, <3>2
      <4>2. out'[n].at = i + 1 /\ out'[m].at = out[m].at /\ out[m].at <= i /\ out[m].at \in Nat
        BY ONLY <1>6, <1>7, <2>2, <4>1
      <4> QED
        BY ONLY <1>2, <4>2
    <3> QED
      BY ONLY <3>1, <3>2
  <2>5. SoundNode => Len(out') = i + 1 /\ \A n \in 1 .. Len(out') : out'[n] = EntryOf(n)
    <3>1. SUFFICES ASSUME damaged = 0, hdr.nkeys = Len(written)
                   PROVE  Len(out') = i + 1 /\ \A n \in 1 .. Len(out') : out'[n] = EntryOf(n)
      BY DEF SoundNode
    <3>2. i + 1 \in 1 .. Len(written) /\ i + 1 # damaged
      BY ONLY <1>1, <1>2, <3>1
    <3>3. Len(out) = i /\ \A n \in 1 .. Len(out) : out[n] = EntryOf(n)
      BY <1>1, <3>1 DEF Progress, SoundNode
    <3>4. Len(out') = i + 1 /\ out'[i + 1] = EntryOf(i + 1)
      BY <1>5, <1>7, <3>2, <3>3
    <3>5. \A n \in 1 .. Len(out') : n \in 1 .. Len(out) \/ n = i + 1
      <4>1. Len(out) = i /\ Len(out') = i + 1
        BY <3>3, <3>4, Zenon
      <4> QED
        BY ONLY <1>2, <4>1
    <3> QED
      BY <1>7, <3>3, <3>4, <3>5, Zenon
  <2>6. SoundNode' <=> SoundNode
    BY <1>1 DEF SoundNode
  <2> QED
    BY <1>1, <1>8, <2>3, <2>4, <2>5, <2>6 DEF Progress
<1> QED
  BY <1>9, <1>10, <1>11 DEF NodeInv

\* The loop ends with the count, or past the table entries of all records.
LEMMA EndOK ==
  ASSUME NodeInv, End
  PROVE  NodeInv'
<1>1. /\ NodeTypeOK /\ Layout /\ OnDisk /\ Progress
      /\ npc = "loop" /\ npc' = "done" /\ i' = i /\ out' = out
      /\ hdr' = hdr /\ block' = block /\ written' = written /\ damaged' = damaged
      /\ i = nkeys \/ ~InToc
  BY DEF NodeInv, End, node
<1>2. i \in Nat /\ hdr \in NodeHeader /\ written \in Seq(Record) /\ Len(written) \in Nat
  BY <1>1, Places DEF NodeTypeOK
<1>3. i < Len(written) => InToc
  <2>1. SUFFICES ASSUME i < Len(written) PROVE InToc
    OBVIOUS
  <2>2. i + 1 \in 1 .. Len(written) /\ i + 1 - 1 = i
    BY ONLY <1>2, <2>1
  <2>3. toc_start \in Nat /\ entry_len \in {2, 4} /\ key_area = toc_start + hdr.toc_len /\ hdr.toc_len \in Nat
    BY <1>2, Places
  <2>4. i * entry_len \in Nat /\ i * entry_len + entry_len <= hdr.toc_len /\ key_area <= BlockLen
    <3>1. 1 \in 1 .. entry_len
      BY ONLY <2>3
    <3>2. (i + 1 - 1) * entry_len \in Nat /\ (i + 1 - 1) * entry_len + entry_len <= hdr.toc_len /\ key_area <= BlockLen
      BY <1>1, <1>2, <2>2, <3>1, TableUnits
    <3> QED
      BY ONLY <2>2, <3>2
  <2> DEFINE a == i * entry_len
  <2>5. entry = toc_start + a /\ a \in Nat /\ a + entry_len <= hdr.toc_len
    BY ONLY <2>4 DEF entry
  <2> HIDE DEF a
  <2>6. entry + entry_len <= key_area /\ entry + entry_len <= BlockLen
    BY <2>3, <2>4, <2>5, NodeAssumption
  <2> QED
    BY ONLY <2>6 DEF InToc
<1>4. nkeys' = nkeys /\ (i = nkeys \/ Len(written) <= i) /\ (SoundNode' <=> SoundNode) /\ \A j : EntryOf(j)' = EntryOf(j)
  BY <1>1, <1>2, <1>3 DEF nkeys, EntryOf, SoundNode
<1>5. NodeTypeOK' /\ Progress'
  BY <1>1, <1>4, Zenon DEF NodeTypeOK, Progress
<1>6. Layout' /\ OnDisk'
  BY <1>1, SamePlaces
<1> QED
  BY <1>5, <1>6 DEF NodeInv

\* Every step keeps the invariant.
LEMMA StepOK == NodeInv /\ [NodeNext]_nodevars => NodeInv'
<1> SUFFICES ASSUME NodeInv, [NodeNext]_nodevars PROVE NodeInv'
  OBVIOUS
<1>1. CASE \E r \in Records : Put(r)
  BY <1>1, PutOK
<1>2. CASE Finish
  BY <1>2, FinishOK
<1>3. CASE Turn
  BY <1>3, TurnOK
<1>4. CASE End
  BY <1>4, EndOK
<1>5. CASE UNCHANGED nodevars
  <2>1. UNCHANGED <<hdr, block, written, damaged>> /\ npc' = npc /\ i' = i /\ out' = out
    BY <1>5 DEF nodevars, node
  <2>2. /\ nkeys' = nkeys /\ (SoundNode' <=> SoundNode) /\ \A j : EntryOf(j)' = EntryOf(j)
        /\ Layout' /\ OnDisk'
    BY <2>1, SamePlaces DEF NodeInv, SoundNode, nkeys, EntryOf
  <2>3. NodeTypeOK'
    BY <2>1, <2>2 DEF NodeInv, NodeTypeOK
  <2>4. Progress'
    BY <2>1, <2>2 DEF NodeInv, Progress
  <2> QED
    BY <2>2, <2>3, <2>4 DEF NodeInv
<1> QED
  BY <1>1, <1>2, <1>3, <1>4, <1>5 DEF NodeNext

\* The invariant gives the property.
LEMMA DoneOK == NodeInv => EntriesAsWritten
<1> SUFFICES ASSUME NodeInv, npc = "done" PROVE EntriesAsWritten
  BY DEF EntriesAsWritten
<1>1. hdr \in NodeHeader /\ i \in Nat /\ i <= nkeys /\ Len(written) \in Nat /\ hdr.nkeys \in Nat /\ MAX_BTN_NKEYS \in Nat
  BY Places, NodeAssumption DEF NodeInv, NodeTypeOK, NodeHeader
<1>2. i = nkeys \/ Len(written) <= i
  BY DEF NodeInv, Progress
<1>3. SoundNode => i = nkeys
  BY ONLY <1>1, <1>2 DEF nkeys, SoundNode
<1> QED
  BY <1>3 DEF NodeInv, Progress, EntriesAsWritten

\* For every size of a node and every number of records: a sound node gives exactly
\* its records, in the order of the table, and a malformed table entry distorts no
\* entry but its own (node_entries).
THEOREM RecordsComeOut == NodeSpec => []EntriesAsWritten
  BY InitOK, StepOK, DoneOK, PTL DEF NodeSpec

----------------------------------------------------------------------------
\* The space manager.

\* Multiples ascend.
LEMMA Times ==
  ASSUME NEW n \in Nat, NEW a \in Nat, NEW b \in Nat
  PROVE  /\ a * n \in Nat /\ (a + 1) * n = a * n + n
         /\ a <= b => a * n <= b * n
         /\ a < b => a * n + n <= b * n
<1>1. a * n \in Nat /\ (a + 1) * n = a * n + n /\ (a <= b => a * n <= b * n)
  OBVIOUS
<1>2. a < b => (a + 1) * n <= b * n
  OBVIOUS
<1> QED
  BY <1>1, <1>2

\* Quotient and remainder.
LEMMA DivMod ==
  ASSUME NEW m \in Nat, NEW n \in Nat \ {0}
  PROVE  /\ m \div n \in Nat /\ m % n \in 0 .. n - 1
         /\ (m \div n) * n \in Nat
         /\ m = (m \div n) * n + (m % n)
<1>1. m \div n \in Nat /\ m % n \in 0 .. n - 1
  OBVIOUS
<1> DEFINE q == m \div n
           r == m % n
<1>2. m - n * q = r
  OBVIOUS
<1>3. q \in Nat /\ r \in Nat
  BY <1>1
<1> HIDE DEF q, r
<1>4. q * n \in Nat /\ m = q * n + r
  BY ONLY <1>2, <1>3, m \in Nat, n \in Nat
<1> QED
  BY ONLY <1>1, <1>4 DEF q, r

\* A number lies in one of the intervals of length n only.
LEMMA OneInterval ==
  ASSUME NEW n \in Nat, NEW a \in Nat, NEW b \in Nat, NEW x \in Nat,
         a * n <= x, x < a * n + n, b * n <= x, x < b * n + n
  PROVE  a = b
<1>1. (a < b => a * n + n <= b * n) /\ (b < a => b * n + n <= a * n) /\ a * n \in Nat /\ b * n \in Nat
  BY ONLY Times, n \in Nat, a \in Nat, b \in Nat
<1> QED
  BY <1>1

\* As many intervals of length n as m needs reach m, and one fewer does not.
LEMMA CeilReaches ==
  ASSUME NEW m \in Nat, NEW n \in Nat \ {0}
  PROVE  /\ Ceil(m, n) \in Nat
         /\ Ceil(m, n) * n \in Nat
         /\ m <= Ceil(m, n) * n /\ Ceil(m, n) * n < m + n
         /\ \A a \in Nat : a < Ceil(m, n) => a * n \in Nat /\ a * n < m
<1> DEFINE q == (m + n - 1) \div n
           r == (m + n - 1) % n
<1>1. m + n - 1 \in Nat
  OBVIOUS
<1>2. q \in Nat /\ r \in 0 .. n - 1 /\ q * n \in Nat /\ m + n - 1 = q * n + r
  BY <1>1, DivMod, Zenon
<1>3. Ceil(m, n) = q
  BY DEF Ceil
<1> HIDE DEF q, r
<1>4. m <= q * n /\ q * n < m + n
  BY ONLY <1>2, m \in Nat, n \in Nat \ {0}
<1>5. ASSUME NEW a \in Nat, a < q PROVE a * n \in Nat /\ a * n < m
  <2>1. a * n \in Nat /\ a * n + n <= q * n
    BY ONLY <1>2, <1>5, Times, n \in Nat \ {0}
  <2> QED
    BY ONLY <1>2, <1>4, <2>1, n \in Nat \ {0}, m \in Nat
<1> QED
  BY <1>2, <1>3, <1>4, <1>5

----------------------------------------------------------------------------
\* Chunk j of CIB k by number, and its first block.
Number(d, k, j) == (k - 1) * d.chunks_per_cib + j - 1
Base(d, k, j) == Number(d, k, j) * d.blocks_per_chunk

\* The types of a device.
LEMMA DeviceTypes ==
  ASSUME NEW d, IsDevice(d), NEW k \in DOMAIN d.cibs
  PROVE  /\ DOMAIN d.cibs = 1 .. Len(d.cibs) /\ Len(d.cibs) \in Nat /\ k \in Nat \ {0} /\ k - 1 \in Nat
         /\ k <= Len(d.cibs) /\ d.cibs[k].cksum \in BOOLEAN
         /\ d.cibs[k].infos \in Seq(ChunkInfo)
         /\ DOMAIN d.cibs[k].infos = 1 .. Len(d.cibs[k].infos) /\ Len(d.cibs[k].infos) \in Nat
<1>1. d.cibs \in Seq(Cib)
  BY DEF IsDevice
<1>2. d.cibs[k] \in Cib /\ DOMAIN d.cibs = 1 .. Len(d.cibs) /\ Len(d.cibs) \in Nat
  BY ONLY <1>1, k \in DOMAIN d.cibs
<1>3. d.cibs[k].cksum \in BOOLEAN /\ d.cibs[k].infos \in Seq(ChunkInfo)
  BY ONLY <1>2 DEF Cib
<1>4. DOMAIN d.cibs[k].infos = 1 .. Len(d.cibs[k].infos) /\ Len(d.cibs[k].infos) \in Nat
  BY ONLY <1>3
<1>5. k \in Nat \ {0} /\ k - 1 \in Nat /\ k <= Len(d.cibs)
  BY ONLY <1>2, k \in DOMAIN d.cibs
<1> QED
  BY <1>2, <1>3, <1>4, <1>5, Zenon

\* CIB k of M has L of the C chunks.
IsFilled(K, C, M, k, L) ==
  M = Ceil(C, K) /\ k \in 1 .. M /\ L = IF k < M THEN K ELSE C - (k - 1) * K

\* A CIB of a consistent device ends where the next begins, the last one with the
\* device's last chunk.
LEMMA CibEnds ==
  ASSUME NEW K \in Nat \ {0}, NEW C \in Nat, NEW M, NEW k, NEW L, IsFilled(K, C, M, k, L)
  PROVE  /\ M \in Nat /\ L \in Nat \ {0} /\ L <= K /\ (k - 1) * K \in Nat /\ k * K = (k - 1) * K + K
         /\ (k - 1) * K + L <= C
         /\ k < M => (k - 1) * K + L = k * K
         /\ k = M => (k - 1) * K + L = C
<1>0. M = Ceil(C, K) /\ k \in 1 .. M /\ L = IF k < M THEN K ELSE C - (k - 1) * K
  BY DEF IsFilled
<1>1. M \in Nat /\ C <= M * K /\ M * K < C + K /\ \A a \in Nat : a < M => a * K \in Nat /\ a * K < C
  BY <1>0, CeilReaches
<1>2. k - 1 \in Nat /\ k - 1 < M /\ k \in Nat /\ k <= M
  BY ONLY <1>0, <1>1
<1>3. (k - 1) * K \in Nat /\ (k - 1) * K < C
  BY ONLY <1>1, <1>2
<1>4. k * K = (k - 1) * K + K
  <2>1. ((k - 1) + 1) * K = (k - 1) * K + K
    BY ONLY Times, <1>2, K \in Nat \ {0}
  <2>2. (k - 1) + 1 = k
    BY ONLY <1>2
  <2> QED
    BY ONLY <2>1, <2>2, Zenon
<1> DEFINE a == (k - 1) * K
           b == k * K
           c == M * K
<1>5. k < M => b < C
  BY ONLY <1>1, <1>2
<1>6. k = M => b = c
  OBVIOUS
<1>7. L = IF k < M THEN K ELSE C - a
  BY <1>0
<1> HIDE DEF a, b, c
<1>8. a \in Nat /\ a < C /\ b = a + K /\ C <= c
  BY <1>1, <1>3, <1>4 DEF a, b, c
<1>9. /\ L \in Nat \ {0} /\ L <= K /\ a + L <= C
      /\ k < M => a + L = b
      /\ k = M => a + L = C
  BY ONLY <1>1, <1>2, <1>5, <1>6, <1>7, <1>8, K \in Nat \ {0}, C \in Nat
<1> QED
  BY ONLY <1>1, <1>8, <1>9 DEF a, b

\* What a consistent device's numbers are.
LEMMA DeviceNumbers ==
  ASSUME NEW d, IsDevice(d), Consistent(d)
  PROVE  /\ d.blocks_per_chunk \in Nat \ {0} /\ d.chunks_per_cib \in Nat \ {0}
         /\ d.block_count \in Nat /\ d.chunk_count \in Nat /\ Len(d.cibs) \in Nat
         /\ d.chunk_count = Ceil(d.block_count, d.blocks_per_chunk)
         /\ Len(d.cibs) = Ceil(d.chunk_count, d.chunks_per_cib)
  BY SpacemanAssumption DEF IsDevice, Consistent

\* Where chunk j of CIB k lies.
LEMMA ChunkPlaces ==
  ASSUME NEW d, IsDevice(d), Consistent(d), NEW k \in DOMAIN d.cibs,
         NEW L, L = Len(d.cibs[k].infos)
  PROVE  /\ L \in Nat \ {0} /\ L <= d.chunks_per_cib /\ (k - 1) * d.chunks_per_cib \in Nat
         /\ k * d.chunks_per_cib = (k - 1) * d.chunks_per_cib + d.chunks_per_cib
         /\ (k - 1) * d.chunks_per_cib + L <= d.chunk_count
         /\ k < Len(d.cibs) => (k - 1) * d.chunks_per_cib + L = k * d.chunks_per_cib
         /\ k = Len(d.cibs) => (k - 1) * d.chunks_per_cib + L = d.chunk_count
<1> DEFINE K == d.chunks_per_cib
           C == d.chunk_count
           M == Len(d.cibs)
<1>1. K \in Nat \ {0} /\ C \in Nat /\ M = Ceil(C, K)
  BY DeviceNumbers
<1>2. k \in 1 .. M
  BY DeviceTypes
<1>3. L = IF k < M THEN K ELSE C - (k - 1) * K
  BY DEF Consistent
<1> HIDE DEF K, C, M
<1>4. /\ L \in Nat \ {0} /\ L <= K /\ (k - 1) * K \in Nat /\ k * K = (k - 1) * K + K
      /\ (k - 1) * K + L <= C
      /\ k < M => (k - 1) * K + L = k * K
      /\ k = M => (k - 1) * K + L = C
  <2>1. IsFilled(K, C, M, k, L)
    BY <1>1, <1>2, <1>3 DEF IsFilled
  <2> QED
    BY ONLY <1>1, <2>1, CibEnds
<1> QED
  BY <1>4, Zenon DEF K, C, M

\* A chunk's number and its first block are in the device.
LEMMA ChunkNumbers ==
  ASSUME NEW d, IsDevice(d), Consistent(d), NEW k \in DOMAIN d.cibs, NEW j \in DOMAIN d.cibs[k].infos
  PROVE  /\ k - 1 \in Nat /\ j \in Nat \ {0} /\ j <= d.chunks_per_cib
         /\ (k - 1) * d.chunks_per_cib \in Nat
         /\ Number(d, k, j) \in Nat /\ Number(d, k, j) < d.chunk_count
         /\ Number(d, k, j) = (k - 1) * d.chunks_per_cib + (j - 1)
         /\ Base(d, k, j) \in Nat /\ Base(d, k, j) < d.block_count
<1> DEFINE K == d.chunks_per_cib
           C == d.chunk_count
           L == Len(d.cibs[k].infos)
           a == (k - 1) * K
           n == Number(d, k, j)
<1>1. /\ L \in Nat \ {0} /\ L <= K /\ a \in Nat /\ a + L <= C
      /\ K \in Nat \ {0} /\ C \in Nat
  <2>1. K \in Nat \ {0} /\ C \in Nat
    BY DeviceNumbers, Zenon
  <2>2. L \in Nat \ {0} /\ L <= K /\ a \in Nat /\ a + L <= C
    BY ChunkPlaces, Zenon
  <2> QED
    BY <2>1, <2>2, Zenon
<1>2. k - 1 \in Nat /\ j \in 1 .. L
  BY DeviceTypes
<1>3. n = a + j - 1
  BY Zenon DEF Number
<1> HIDE DEF K, C, L, a, n
<1>4. j \in Nat \ {0} /\ j <= K /\ n \in Nat /\ n < C /\ n = a + (j - 1)
  BY ONLY <1>1, <1>2, <1>3
<1>5. \A c \in Nat : c < C => c * d.blocks_per_chunk \in Nat /\ c * d.blocks_per_chunk < d.block_count
  BY DeviceNumbers, CeilReaches, Zenon DEF C
<1>6. Base(d, k, j) = n * d.blocks_per_chunk
  BY Zenon DEF Base, n
<1>7. Base(d, k, j) \in Nat /\ Base(d, k, j) < d.block_count
  BY ONLY <1>4, <1>5, <1>6
<1> QED
  BY <1>1, <1>2, <1>4, <1>7, Zenon DEF K, C, a, n

\* A block lies in one chunk only.
LEMMA OneChunk ==
  ASSUME NEW d, IsDevice(d), Consistent(d),
         NEW k \in DOMAIN d.cibs, NEW j \in DOMAIN d.cibs[k].infos,
         NEW l \in DOMAIN d.cibs, NEW h \in DOMAIN d.cibs[l].infos, NEW b \in Nat,
         Base(d, k, j) <= b, b < Base(d, k, j) + d.blocks_per_chunk,
         Base(d, l, h) <= b, b < Base(d, l, h) + d.blocks_per_chunk
  PROVE  k = l /\ j = h
<1> DEFINE K == d.chunks_per_cib
           m == Number(d, k, j)
           n == Number(d, l, h)
<1>1. /\ k - 1 \in Nat /\ j \in Nat \ {0} /\ j <= K /\ (k - 1) * K \in Nat /\ m \in Nat /\ m = (k - 1) * K + (j - 1)
      /\ l - 1 \in Nat /\ h \in Nat \ {0} /\ h <= K /\ (l - 1) * K \in Nat /\ n \in Nat /\ n = (l - 1) * K + (h - 1)
  BY ChunkNumbers, Zenon
<1>2. K \in Nat /\ d.blocks_per_chunk \in Nat
  BY DeviceNumbers
<1>3. m = n
  <2> DEFINE B == d.blocks_per_chunk
  <2>1. m * B <= b /\ b < m * B + B /\ n * B <= b /\ b < n * B + B
    BY Zenon DEF Base
  <2> HIDE DEF m, n, B
  <2>2. B \in Nat
    BY <1>2 DEF B
  <2> QED
    BY ONLY <1>1, <2>1, <2>2, b \in Nat, OneInterval, Zenon
<1> HIDE DEF K, m, n
<1>4. /\ (k - 1) * K <= m /\ m < (k - 1) * K + K
      /\ (l - 1) * K <= m /\ m < (l - 1) * K + K
  BY ONLY <1>1, <1>2, <1>3
<1>5. k - 1 = l - 1
  BY ONLY <1>1, <1>2, <1>4, OneInterval
<1>6. k \in Nat /\ l \in Nat
  BY DeviceTypes
<1>7. k = l
  BY ONLY <1>5, <1>6
<1> QED
  BY ONLY <1>1, <1>3, <1>7

\* Whether a block of chunk j of CIB k is free is for that chunk's bitmap to say.
LEMMA ChunkBlocks ==
  ASSUME NEW d, IsDevice(d), Consistent(d), NEW k \in DOMAIN d.cibs, NEW j \in DOMAIN d.cibs[k].infos,
         NEW b \in Nat, b < d.block_count, Base(d, k, j) <= b, b < Base(d, k, j) + d.blocks_per_chunk
  PROVE  b \in FreeBlocks(d) <=>
           (d.cibs[k].infos[j].bitmap =>
              b - Base(d, k, j) < BitmapBits /\ b - Base(d, k, j) \notin d.cibs[k].infos[j].set)
<1>1. \A l, h : b \in FreeIn(d, l, h) <=>
        /\ b \in 0 .. d.block_count - 1
        /\ Base(d, l, h) <= b /\ b < Base(d, l, h) + d.blocks_per_chunk
        /\ d.cibs[l].infos[h].bitmap =>
             b - Base(d, l, h) < BitmapBits /\ b - Base(d, l, h) \notin d.cibs[l].infos[h].set
  BY Zenon DEF FreeIn, Base, Number
<1>2. b \in 0 .. d.block_count - 1
  BY DeviceNumbers
<1>3. b \in FreeBlocks(d) <=> \E l \in DOMAIN d.cibs : \E h \in DOMAIN d.cibs[l].infos : b \in FreeIn(d, l, h)
  <2> DEFINE T(l) == UNION {FreeIn(d, l, h) : h \in DOMAIN d.cibs[l].infos}
  <2>1. b \in FreeBlocks(d) <=> \E l \in DOMAIN d.cibs : b \in T(l)
    <3>1. FreeBlocks(d) = UNION {T(l) : l \in DOMAIN d.cibs}
      BY DEF FreeBlocks
    <3> HIDE DEF T
    <3> QED
      BY <3>1, Zenon
  <2>2. \A l : b \in T(l) <=> \E h \in DOMAIN d.cibs[l].infos : b \in FreeIn(d, l, h)
    BY Zenon
  <2> HIDE DEF T
  <2> QED
    BY <2>1, <2>2, Zenon
<1>4. \A l \in DOMAIN d.cibs : \A h \in DOMAIN d.cibs[l].infos : b \in FreeIn(d, l, h) => k = l /\ j = h
  <2>1. SUFFICES ASSUME NEW l \in DOMAIN d.cibs, NEW h \in DOMAIN d.cibs[l].infos, b \in FreeIn(d, l, h)
                 PROVE  k = l /\ j = h
    OBVIOUS
  <2>2. Base(d, l, h) <= b /\ b < Base(d, l, h) + d.blocks_per_chunk
    BY <1>1, <2>1, Zenon
  <2> QED
    BY <2>2, OneChunk, Zenon
<1>5. b \in FreeBlocks(d) <=> b \in FreeIn(d, k, j)
  BY <1>3, <1>4, Zenon
<1> QED
  BY <1>1, <1>2, <1>5, Zenon

\* The free blocks are blocks of the device.
LEMMA FreeInDevice ==
  ASSUME NEW d, NEW b \in FreeBlocks(d)
  PROVE  b \in 0 .. d.block_count - 1
<1>1. PICK k \in DOMAIN d.cibs : b \in UNION {FreeIn(d, k, j) : j \in DOMAIN d.cibs[k].infos}
  BY Zenon DEF FreeBlocks
<1>2. PICK j \in DOMAIN d.cibs[k].infos : b \in FreeIn(d, k, j)
  BY <1>1, Zenon
<1> QED
  BY <1>2, Zenon DEF FreeIn

----------------------------------------------------------------------------
Run == [first : Nat, len : Nat \ {0}]

\* Block b is in run r.
OfRun(r, b) == r.first <= b /\ b < r.first + r.len

\* The runs rs are the blocks of F below p, in order and with gaps between them.
Swept(F, rs, p) ==
  /\ rs \in Seq(Run)
  /\ p \in Nat
  /\ \A k \in DOMAIN rs : rs[k].first + rs[k].len <= p
  /\ \A b \in Nat : b \in F /\ b < p <=> \E k \in DOMAIN rs : OfRun(rs[k], b)
  /\ \A k \in 1 .. Len(rs) - 1 : rs[k].first + rs[k].len < rs[k + 1].first

\* None of the blocks from p to q - 1, or all of them, are in F.
NoneIn(F, p, q) == \A b \in Nat : p <= b /\ b < q => b \notin F
AllIn(F, p, q) == \A b \in Nat : p <= b /\ b < q => b \in F

\* push_free_run, with its parameters.
Pushed(rs, first, len) ==
  IF len = 0 THEN rs
  ELSE IF rs # << >> /\ rs[Len(rs)].first + rs[Len(rs)].len = first
  THEN [rs EXCEPT ![Len(rs)] = [first |-> @.first, len |-> @.len + len]]
  ELSE Append(rs, [first |-> first, len |-> len])

\* Blocks that are not free may be passed over.
LEMMA Skip ==
  ASSUME NEW F, NEW rs, NEW p \in Nat, NEW q \in Nat, p <= q, Swept(F, rs, p), NoneIn(F, p, q)
  PROVE  Swept(F, rs, q)
<1>1. /\ rs \in Seq(Run)
      /\ \A k \in DOMAIN rs : rs[k].first + rs[k].len <= p
      /\ \A b \in Nat : b \in F /\ b < p <=> \E k \in DOMAIN rs : OfRun(rs[k], b)
      /\ \A k \in 1 .. Len(rs) - 1 : rs[k].first + rs[k].len < rs[k + 1].first
  BY DEF Swept
<1>2. \A b \in Nat : b \in F /\ b < q <=> b \in F /\ b < p
  BY DEF NoneIn
<1>3. \A k \in DOMAIN rs : rs[k].first \in Nat /\ rs[k].len \in Nat
  <2>1. \A k \in DOMAIN rs : rs[k] \in Run
    BY ONLY <1>1
  <2> QED
    BY ONLY <2>1 DEF Run
<1>4. \A k \in DOMAIN rs : rs[k].first + rs[k].len <= q
  BY ONLY <1>1, <1>3, p \in Nat, q \in Nat, p <= q
<1>5. \A b \in Nat : b \in F /\ b < q <=> \E k \in DOMAIN rs : OfRun(rs[k], b)
  BY ONLY <1>1, <1>2, Zenon
<1> QED
  BY <1>1, <1>4, <1>5, Zenon DEF Swept

\* The runs are numbers.
LEMMA RunTypes ==
  ASSUME NEW rs \in Seq(Run), NEW k \in DOMAIN rs
  PROVE  rs[k] \in Run /\ rs[k].first \in Nat /\ rs[k].len \in Nat \ {0}
<1>1. rs[k] \in Run
  OBVIOUS
<1> QED
  BY ONLY <1>1 DEF Run

\* Free blocks up to which all is swept may be pushed.
LEMMA PushNext ==
  ASSUME NEW F, NEW rs, NEW first \in Nat, NEW len \in Nat \ {0},
         Swept(F, rs, first), AllIn(F, first, first + len)
  PROVE  Swept(F, Pushed(rs, first, len), first + len)
<1> DEFINE n == Len(rs)
           end(r) == r.first + r.len
           ts == Pushed(rs, first, len)
<1>1. /\ rs \in Seq(Run)
      /\ \A k \in DOMAIN rs : end(rs[k]) <= first
      /\ \A b \in Nat : b \in F /\ b < first <=> \E k \in DOMAIN rs : OfRun(rs[k], b)
      /\ \A k \in 1 .. n - 1 : end(rs[k]) < rs[k + 1].first
  BY DEF Swept
<1>2. n \in Nat /\ DOMAIN rs = 1 .. n
  BY ONLY <1>1
<1> HIDE DEF n
<1>3. \A k \in DOMAIN rs : rs[k] \in Run /\ rs[k].first \in Nat /\ rs[k].len \in Nat \ {0}
  BY ONLY <1>1, RunTypes
<1>4. \A b \in Nat : b \in F /\ b < first + len <=>
        (first <= b /\ b < first + len) \/ \E k \in DOMAIN rs : OfRun(rs[k], b)
  <2>1. \A b \in Nat : b \in F /\ b < first + len <=> (first <= b /\ b < first + len) \/ (b \in F /\ b < first)
    BY DEF AllIn
  <2> QED
    BY ONLY <1>1, <2>1, Zenon
<1>5. first + len \in Nat
  OBVIOUS
<1>6. CASE rs # << >> /\ end(rs[n]) = first
  <2> DEFINE new == [first |-> rs[n].first, len |-> rs[n].len + len]
  <2>1. ts = [rs EXCEPT ![n] = new]
    BY <1>6 DEF Pushed, n
  <2>2. n \in DOMAIN rs
    BY ONLY <1>1, <1>2, <1>6 DEF n
  <2>3. new \in Run /\ new.first = rs[n].first /\ end(new) = first + len
    <3>1. rs[n].first \in Nat /\ rs[n].len \in Nat \ {0} /\ rs[n].first + rs[n].len = first
      BY <1>3, <1>6, <2>2, Zenon
    <3> QED
      BY ONLY <3>1, len \in Nat \ {0}, first \in Nat DEF Run
  <2>4. \A b \in Nat : OfRun(new, b) <=> OfRun(rs[n], b) \/ (first <= b /\ b < first + len)
    BY ONLY <1>3, <1>6, <2>2, len \in Nat \ {0} DEF OfRun
  <2> HIDE DEF ts, new
  <2>5. ts \in Seq(Run) /\ DOMAIN ts = DOMAIN rs /\ Len(ts) = n /\ ts[n] = new
        /\ \A k \in DOMAIN rs : k # n => ts[k] = rs[k]
    BY ONLY <1>1, <2>1, <2>2, <2>3 DEF n
  <2>6. \A k \in DOMAIN ts : end(ts[k]) <= first + len
    <3>1. SUFFICES ASSUME NEW k \in DOMAIN rs PROVE end(ts[k]) <= first + len
      BY <2>5, Zenon
    <3>2. CASE k = n
      BY ONLY <2>3, <2>5, <3>2, <1>5
    <3>3. CASE k # n
      <4>1. ts[k] = rs[k] /\ end(rs[k]) <= first /\ rs[k].first \in Nat /\ rs[k].len \in Nat
        BY <1>1, <1>3, <2>5, <3>3
      <4> QED
        BY ONLY <4>1, first \in Nat, len \in Nat \ {0}
    <3> QED
      BY <3>2, <3>3
  <2>7. \A b \in Nat : b \in F /\ b < first + len <=> \E k \in DOMAIN ts : OfRun(ts[k], b)
    <3>1. SUFFICES ASSUME NEW b \in Nat
                   PROVE  (\E k \in DOMAIN rs : OfRun(ts[k], b)) <=>
                            (first <= b /\ b < first + len) \/ \E k \in DOMAIN rs : OfRun(rs[k], b)
      BY <1>4, <2>5, Zenon
    <3>2. \A k \in DOMAIN rs : k # n => (OfRun(ts[k], b) <=> OfRun(rs[k], b))
      BY <2>5, Zenon
    <3>3. OfRun(ts[n], b) <=> OfRun(rs[n], b) \/ (first <= b /\ b < first + len)
      BY <2>4, <2>5, Zenon
    <3> QED
      BY <2>2, <3>2, <3>3, Zenon
  <2>8. \A k \in 1 .. Len(ts) - 1 : end(ts[k]) < ts[k + 1].first
    <3>1. SUFFICES ASSUME NEW k \in 1 .. n - 1 PROVE end(ts[k]) < ts[k + 1].first
      BY <2>5, Zenon
    <3>2. k \in DOMAIN rs /\ k # n /\ k + 1 \in DOMAIN rs
      BY ONLY <1>2, k \in 1 .. n - 1
    <3>3. ts[k] = rs[k] /\ ts[k + 1].first = rs[k + 1].first
      BY <2>3, <2>5, <3>2, Zenon
    <3> QED
      BY <1>1, <3>3, Zenon
  <2> QED
    BY <1>5, <2>5, <2>6, <2>7, <2>8, Zenon DEF Swept, ts
<1>7. CASE ~(rs # << >> /\ end(rs[n]) = first)
  <2> DEFINE new == [first |-> first, len |-> len]
  <2>1. ts = Append(rs, new)
    BY <1>7 DEF Pushed, n
  <2>2. new \in Run /\ new.first = first /\ end(new) = first + len
    BY DEF Run
  <2>3. \A b \in Nat : OfRun(new, b) <=> first <= b /\ b < first + len
    BY DEF OfRun
  <2> HIDE DEF ts, new
  <2>4. ts \in Seq(Run) /\ DOMAIN ts = 1 .. n + 1 /\ Len(ts) = n + 1 /\ ts[n + 1] = new
        /\ \A k \in DOMAIN rs : ts[k] = rs[k]
    BY ONLY <1>1, <1>2, <2>1, <2>2 DEF n
  <2>5. /\ n + 1 \in DOMAIN ts
        /\ \A k \in DOMAIN rs : k \in DOMAIN ts
        /\ \A k \in DOMAIN ts : k \in DOMAIN rs \/ k = n + 1
    BY ONLY <1>2, <2>4
  <2>6. \A k \in DOMAIN ts : end(ts[k]) <= first + len
    <3>1. SUFFICES ASSUME NEW k \in DOMAIN ts PROVE end(ts[k]) <= first + len
      OBVIOUS
    <3>2. CASE k = n + 1
      BY ONLY <2>2, <2>4, <3>2, <1>5
    <3>3. CASE k \in DOMAIN rs
      <4>1. ts[k] = rs[k] /\ end(rs[k]) <= first /\ rs[k].first \in Nat /\ rs[k].len \in Nat
        BY <1>1, <1>3, <2>4, <3>3
      <4> QED
        BY ONLY <4>1, first \in Nat, len \in Nat \ {0}
    <3> QED
      BY <2>5, <3>2, <3>3
  <2>7. \A b \in Nat : b \in F /\ b < first + len <=> \E k \in DOMAIN ts : OfRun(ts[k], b)
    BY <1>4, <2>3, <2>4, <2>5, Zenon
  <2>8. \A k \in 1 .. Len(ts) - 1 : end(ts[k]) < ts[k + 1].first
    <3>0. Len(ts) - 1 = n
      BY ONLY <1>2, <2>4
    <3>1. SUFFICES ASSUME NEW k \in 1 .. n PROVE end(ts[k]) < ts[k + 1].first
      BY <3>0, Zenon
    <3>2. k \in DOMAIN rs /\ ts[k] = rs[k]
      BY <1>2, <2>4, Zenon
    <3>3. CASE k = n
      <4>1. rs # << >> /\ end(rs[n]) <= first /\ end(rs[n]) # first /\ end(rs[n]) \in Nat
        BY ONLY <1>1, <1>2, <1>3, <1>7, <3>2, <3>3
      <4> QED
        BY ONLY <2>2, <2>4, <3>2, <3>3, <4>1, first \in Nat
    <3>4. CASE k # n
      <4>1. k \in 1 .. n - 1 /\ k + 1 \in DOMAIN rs
        BY ONLY <1>2, <3>4, k \in 1 .. n
      <4> QED
        BY <1>1, <2>4, <3>2, <4>1, Zenon
    <3> QED
      BY <3>3, <3>4
  <2> QED
    BY <1>5, <2>4, <2>6, <2>7, <2>8, Zenon DEF Swept, ts
<1> QED
  BY <1>6, <1>7

\* The run that is pushed begins at the first free block not swept yet.
LEMMA Push ==
  ASSUME NEW F, NEW rs, NEW p \in Nat, NEW first \in Nat, NEW len \in Nat \ {0}, p <= first,
         Swept(F, rs, p), NoneIn(F, p, first), AllIn(F, first, first + len)
  PROVE  Swept(F, Pushed(rs, first, len), first + len)
  BY Skip, PushNext, Zenon

----------------------------------------------------------------------------
\* The first block of the chunk that the enumeration is at, and the end of what it
\* has swept, which the last chunk may pass.
BaseAt(d, c, w) == (c * d.chunks_per_cib + w) * d.blocks_per_chunk
UpTo(d, x) == IF x < d.block_count THEN x ELSE d.block_count
BlocksAt(d, base) ==
  IF d.blocks_per_chunk < d.block_count - base THEN d.blocks_per_chunk ELSE d.block_count - base

\* Chunk w of CIB c, counted from 0, is in the device.
IsChunk(d, c, w) == c \in Nat /\ w \in Nat /\ c < Len(d.cibs) /\ w < Len(d.cibs[c + 1].infos)

\* Where its first block is, and how many blocks it has.
Placed(d, c, w, base, blk) ==
  /\ c * d.chunks_per_cib + w < d.chunk_count
  /\ base \in Nat /\ base < d.block_count /\ UpTo(d, base) = base
  /\ blk \in Nat \ {0} /\ blk <= d.blocks_per_chunk
  /\ base + blk = UpTo(d, BaseAt(d, c, w + 1))
  /\ c + 1 \in DOMAIN d.cibs /\ w + 1 \in DOMAIN d.cibs[c + 1].infos
  /\ Base(d, c + 1, w + 1) = base

\* Such a chunk ends where the next one begins, or where the device does.
LEMMA AtChunk ==
  ASSUME NEW d, IsDevice(d), Consistent(d), NEW c, NEW w, IsChunk(d, c, w)
  PROVE  Placed(d, c, w, BaseAt(d, c, w), BlocksAt(d, BaseAt(d, c, w)))
<1> DEFINE base == BaseAt(d, c, w)
           N == d.block_count
           B == d.blocks_per_chunk
           ck == c * d.chunks_per_cib
           L == Len(d.cibs[c + 1].infos)
<1>1. c \in Nat /\ w \in Nat /\ c < Len(d.cibs) /\ w < L /\ (c + 1) - 1 = c /\ (w + 1) - 1 = w
  BY DEF IsChunk
<1>2. c + 1 \in DOMAIN d.cibs
  <2>1. DOMAIN d.cibs = 1 .. Len(d.cibs) /\ Len(d.cibs) \in Nat
    BY DEF IsDevice
  <2> QED
    BY ONLY <1>1, <2>1
<1>3. w + 1 \in DOMAIN d.cibs[c + 1].infos
  <2>1. DOMAIN d.cibs[c + 1].infos = 1 .. L /\ L \in Nat
    BY <1>2, DeviceTypes, Zenon
  <2> QED
    BY ONLY <1>1, <2>1
<1>4. /\ ((c + 1) - 1) * d.chunks_per_cib \in Nat
      /\ Number(d, c + 1, w + 1) = ((c + 1) - 1) * d.chunks_per_cib + ((w + 1) - 1)
      /\ Number(d, c + 1, w + 1) \in Nat /\ Number(d, c + 1, w + 1) < d.chunk_count
      /\ Base(d, c + 1, w + 1) \in Nat /\ Base(d, c + 1, w + 1) < N
  BY <1>2, <1>3, ChunkNumbers, Zenon
<1>5. ck \in Nat /\ Number(d, c + 1, w + 1) = ck + w
  BY <1>1, <1>4, Zenon
<1>6. base = Base(d, c + 1, w + 1)
  BY <1>5, Zenon DEF Base, BaseAt
<1>7. B \in Nat \ {0} /\ N \in Nat
  BY DeviceNumbers, Zenon
<1>8. BaseAt(d, c, w + 1) = base + B
  <2> HIDE DEF ck, B
  <2>1. ck + w \in Nat /\ ck + (w + 1) = (ck + w) + 1
    BY ONLY <1>1, <1>5
  <2>2. ((ck + w) + 1) * B = (ck + w) * B + B
    BY ONLY <1>7, <2>1, Times
  <2>3. BaseAt(d, c, w + 1) = (ck + (w + 1)) * B /\ base = (ck + w) * B
    BY Zenon DEF BaseAt, ck, B
  <2> QED
    BY ONLY <2>1, <2>2, <2>3, Zenon
<1>9. ck + w < d.chunk_count /\ base \in Nat /\ base < N
  BY <1>4, <1>5, <1>6, Zenon
<1>10. /\ BlocksAt(d, base) = IF B < N - base THEN B ELSE N - base
       /\ UpTo(d, base) = IF base < N THEN base ELSE N
       /\ UpTo(d, base + B) = IF base + B < N THEN base + B ELSE N
  BY Zenon DEF BlocksAt, UpTo
<1> HIDE DEF base, N, B, ck
<1>11. /\ UpTo(d, base) = base /\ BlocksAt(d, base) \in Nat \ {0} /\ BlocksAt(d, base) <= B
       /\ base + BlocksAt(d, base) = UpTo(d, base + B)
  BY ONLY <1>7, <1>9, <1>10
<1> QED
  BY <1>2, <1>3, <1>6, <1>8, <1>9, <1>11, Zenon DEF Placed, base, N, B, ck

\* Whether a block is free, by its place in the chunk.
LEMMA BitsOfChunk ==
  ASSUME NEW d, IsDevice(d), Consistent(d), NEW c, NEW w, IsChunk(d, c, w),
         NEW b \in Nat, b < BlocksAt(d, BaseAt(d, c, w))
  PROVE  BaseAt(d, c, w) + b \in FreeBlocks(d) <=>
           (d.cibs[c + 1].infos[w + 1].bitmap => b < BitmapBits /\ b \notin d.cibs[c + 1].infos[w + 1].set)
<1> DEFINE base == BaseAt(d, c, w)
           blk == BlocksAt(d, base)
           x == base + b
<1>0. Placed(d, c, w, base, blk)
  BY AtChunk, Zenon
<1>1. /\ base \in Nat /\ base < d.block_count /\ blk \in Nat \ {0} /\ blk <= d.blocks_per_chunk
      /\ c + 1 \in DOMAIN d.cibs /\ w + 1 \in DOMAIN d.cibs[c + 1].infos
      /\ Base(d, c + 1, w + 1) = base
  BY ONLY <1>0, Zenon DEF Placed
<1>2. blk <= d.block_count - base
  BY <1>1, DeviceNumbers DEF BlocksAt
<1>3. d.block_count \in Nat /\ d.blocks_per_chunk \in Nat
  BY DeviceNumbers
<1>4. b < blk
  OBVIOUS
<1> HIDE DEF base, blk
<1>5. x \in Nat /\ x < d.block_count /\ base <= x /\ x < base + d.blocks_per_chunk /\ x - base = b
  BY ONLY <1>1, <1>2, <1>3, <1>4, b \in Nat
<1> HIDE DEF x
<1>6. x \in FreeBlocks(d) <=>
        (d.cibs[c + 1].infos[w + 1].bitmap =>
           x - base < BitmapBits /\ x - base \notin d.cibs[c + 1].infos[w + 1].set)
  BY <1>1, <1>5, ChunkBlocks, Zenon
<1>7. base + b \in FreeBlocks(d) <=>
        (d.cibs[c + 1].infos[w + 1].bitmap => b < BitmapBits /\ b \notin d.cibs[c + 1].infos[w + 1].set)
  BY <1>5, <1>6, Zenon DEF x
<1> QED
  BY ONLY <1>7, ZenonT(30) DEF base

\* A CIB ends where the next one begins, or where the device does.
LEMMA AtEnd ==
  ASSUME NEW d, IsDevice(d), Consistent(d), NEW c \in Nat, c < Len(d.cibs)
  PROVE  UpTo(d, BaseAt(d, c, Len(d.cibs[c + 1].infos))) = UpTo(d, BaseAt(d, c + 1, 0))
<1> DEFINE K == d.chunks_per_cib
           C == d.chunk_count
           N == d.block_count
           B == d.blocks_per_chunk
           M == Len(d.cibs)
           L == Len(d.cibs[c + 1].infos)
           x == c * K
           y == (c + 1) * K
<1>1. c + 1 \in DOMAIN d.cibs /\ (c + 1) - 1 = c /\ M \in Nat
  BY DEF IsDevice
<1>2. L \in Nat /\ x \in Nat /\ y = x + K /\ (c + 1 < M => x + L = y) /\ (c + 1 = M => x + L = C)
  <2>1. /\ L \in Nat \ {0} /\ ((c + 1) - 1) * K \in Nat /\ (c + 1) * K = ((c + 1) - 1) * K + K
        /\ (c + 1 < M => ((c + 1) - 1) * K + L = (c + 1) * K) /\ (c + 1 = M => ((c + 1) - 1) * K + L = C)
    BY <1>1, ChunkPlaces, Zenon
  <2> QED
    BY <1>1, <2>1, Zenon
<1>3. B \in Nat \ {0} /\ K \in Nat \ {0} /\ N \in Nat /\ C \in Nat /\ C = Ceil(N, B) /\ M = Ceil(C, K)
  BY DeviceNumbers, Zenon
<1>4. BaseAt(d, c, L) = (x + L) * B /\ BaseAt(d, c + 1, 0) = (y + 0) * B
  BY Zenon DEF BaseAt
<1>5. \A v : UpTo(d, v) = IF v < N THEN v ELSE N
  BY Zenon DEF UpTo
<1> HIDE DEF K, C, N, B, M, L, x, y
<1>6. y \in Nat /\ y + 0 = y
  BY ONLY <1>2, <1>3
<1>7. CASE c + 1 < M
  BY <1>2, <1>4, <1>6, <1>7, Zenon DEF L
<1>8. CASE c + 1 = M
  <2>1. N <= C * B /\ C * B \in Nat
    BY ONLY <1>3, CeilReaches
  <2>2. C <= y
    <3>1. C <= M * K
      BY ONLY <1>3, CeilReaches
    <3>2. M * K = y
      BY <1>8, Zenon DEF y
    <3> QED
      BY ONLY <3>1, <3>2, Zenon
  <2>3. C * B <= y * B /\ y * B \in Nat
    BY ONLY <1>3, <1>6, <2>2, Times
  <2>4. BaseAt(d, c, L) = C * B /\ BaseAt(d, c + 1, 0) = y * B
    BY <1>2, <1>4, <1>6, <1>8, Zenon
  <2> DEFINE p == C * B
             q == y * B
  <2>5. BaseAt(d, c, L) = p /\ BaseAt(d, c + 1, 0) = q /\ p \in Nat /\ q \in Nat /\ N <= p /\ p <= q
    BY <2>1, <2>3, <2>4, Zenon
  <2> HIDE DEF p, q
  <2>6. UpTo(d, BaseAt(d, c, L)) = N /\ UpTo(d, BaseAt(d, c + 1, 0)) = N
    BY ONLY <1>3, <1>5, <2>5
  <2> QED
    BY <2>6, Zenon DEF L
<1>9. c + 1 < M \/ c + 1 = M
  <2>1. c < M
    BY DEF M
  <2> QED
    BY ONLY <1>1, <2>1, c \in Nat
<1> QED
  BY <1>7, <1>8, <1>9, Zenon DEF L

\* After the last CIB all is swept.
LEMMA AtDeviceEnd ==
  ASSUME NEW d, IsDevice(d), Consistent(d)
  PROVE  UpTo(d, BaseAt(d, Len(d.cibs), 0)) = d.block_count
<1> DEFINE K == d.chunks_per_cib
           C == d.chunk_count
           N == d.block_count
           B == d.blocks_per_chunk
           M == Len(d.cibs)
           y == M * K
<1>1. B \in Nat \ {0} /\ K \in Nat \ {0} /\ N \in Nat /\ C \in Nat /\ C = Ceil(N, B) /\ M = Ceil(C, K)
  BY DeviceNumbers, Zenon
<1>2. BaseAt(d, M, 0) = (y + 0) * B /\ \A v : UpTo(d, v) = IF v < N THEN v ELSE N
  BY Zenon DEF BaseAt, UpTo
<1> HIDE DEF K, C, N, B, M
<1>3. C <= y /\ y \in Nat
  BY ONLY <1>1, CeilReaches
<1> HIDE DEF y
<1>4. y + 0 = y
  BY ONLY <1>3
<1>5. N <= C * B /\ C * B \in Nat
  BY ONLY <1>1, CeilReaches
<1>6. C * B <= y * B /\ y * B \in Nat
  BY ONLY <1>1, <1>3, Times
<1> DEFINE p == C * B
           q == y * B
<1>7. BaseAt(d, M, 0) = q /\ p \in Nat /\ q \in Nat /\ N <= p /\ p <= q
  BY <1>2, <1>4, <1>5, <1>6, Zenon
<1> HIDE DEF p, q
<1>8. UpTo(d, BaseAt(d, M, 0)) = N
  BY ONLY <1>1, <1>2, <1>7
<1> QED
  BY <1>8, Zenon DEF M, N

\* The chunk and the bit that is_block_free computes for a block of the device.
LEMMA PlaceOf ==
  ASSUME NEW d, IsDevice(d), Consistent(d), NEW b \in Nat, b < d.block_count,
         NEW c, c = b \div d.blocks_per_chunk, NEW q, q = c \div d.chunks_per_cib,
         NEW r, r = c % d.chunks_per_cib, NEW t, t = b % d.blocks_per_chunk
  PROVE  /\ c \in Nat /\ c < d.chunk_count /\ IsChunk(d, q, r)
         /\ t \in Nat /\ t < BlocksAt(d, BaseAt(d, q, r))
         /\ b = BaseAt(d, q, r) + t
<1> DEFINE K == d.chunks_per_cib
           C == d.chunk_count
           N == d.block_count
           B == d.blocks_per_chunk
           M == Len(d.cibs)
           L == Len(d.cibs[q + 1].infos)
<1>1. B \in Nat \ {0} /\ K \in Nat \ {0} /\ N \in Nat /\ C \in Nat /\ C = Ceil(N, B) /\ M = Ceil(C, K)
  BY DeviceNumbers, Zenon
<1>2. c \in Nat /\ t \in 0 .. B - 1 /\ c * B \in Nat /\ b = c * B + t
  BY <1>1, DivMod, Zenon
<1>3. q \in Nat /\ r \in 0 .. K - 1 /\ q * K \in Nat /\ c = q * K + r
  BY <1>1, <1>2, DivMod, Zenon
<1>4. b < N
  OBVIOUS
<1>5. BaseAt(d, q, r) = (q * K + r) * B
  BY Zenon DEF BaseAt
<1>6. \A x : BlocksAt(d, x) = IF B < N - x THEN B ELSE N - x
  BY Zenon DEF BlocksAt
<1> HIDE DEF K, C, N, B, M
<1>7. c < C
  <2>1. N <= C * B /\ C * B \in Nat
    BY ONLY <1>1, CeilReaches
  <2>2. C <= c => C * B <= c * B
    BY ONLY <1>1, <1>2, Times
  <2> DEFINE x == C * B
             y == c * B
  <2>3. N <= x /\ x \in Nat /\ (C <= c => x <= y) /\ y \in Nat /\ b = y + t
    BY <1>2, <2>1, <2>2, Zenon
  <2> HIDE DEF x, y
  <2> QED
    BY ONLY <1>1, <1>2, <1>4, <2>3, b \in Nat
<1>8. q < M /\ M \in Nat
  <2>1. C <= M * K /\ M * K \in Nat /\ M \in Nat
    BY ONLY <1>1, CeilReaches
  <2>2. M <= q => M * K <= q * K
    BY ONLY <1>1, <1>3, <2>1, Times
  <2> DEFINE x == M * K
             y == q * K
  <2>3. C <= x /\ x \in Nat /\ (M <= q => x <= y) /\ y \in Nat /\ c = y + r
    BY <1>3, <2>1, <2>2, Zenon
  <2> HIDE DEF x, y
  <2> QED
    BY ONLY <1>1, <1>2, <1>3, <1>7, <2>1, <2>3
<1>9. q + 1 \in DOMAIN d.cibs /\ (q + 1) - 1 = q
  <2>1. DOMAIN d.cibs = 1 .. M
    BY DEF IsDevice, M
  <2> QED
    BY ONLY <1>3, <1>8, <2>1
<1>10. r < L
  <2>1. /\ L \in Nat \ {0} /\ (q + 1) * K = ((q + 1) - 1) * K + K
        /\ (q + 1 < M => ((q + 1) - 1) * K + L = (q + 1) * K) /\ (q + 1 = M => ((q + 1) - 1) * K + L = C)
    BY <1>9, ChunkPlaces, Zenon DEF K, C, M
  <2> DEFINE y == q * K
             z == (q + 1) * K
  <2>2. z = y + K /\ (q + 1 < M => y + L = z) /\ (q + 1 = M => y + L = C) /\ y \in Nat /\ c = y + r
    BY <1>3, <1>9, <2>1, Zenon
  <2> HIDE DEF y, z, L
  <2> QED
    BY ONLY <1>1, <1>3, <1>7, <1>8, <2>1, <2>2
<1>11. IsChunk(d, q, r)
  <2>1. r \in Nat
    BY ONLY <1>1, <1>3
  <2> QED
    BY <1>3, <1>8, <1>10, <2>1, Zenon DEF IsChunk, M
<1>12. BaseAt(d, q, r) = c * B
  BY <1>3, <1>5, Zenon
<1> DEFINE base == c * B
<1>13. /\ b = base + t /\ base \in Nat
       /\ BlocksAt(d, base) = IF B < N - base THEN B ELSE N - base
  BY <1>2, <1>6, Zenon
<1> HIDE DEF base
<1>14. t \in Nat /\ t < BlocksAt(d, base)
  BY ONLY <1>1, <1>2, <1>4, <1>13
<1> QED
  BY <1>2, <1>7, <1>11, <1>12, <1>13, <1>14, Zenon DEF base, C

----------------------------------------------------------------------------
\* How far the enumeration has come: before CIB c, before chunk w of CIB c, and before
\* bit b of that chunk, in a run that began at bit s.
AtCib(d, c, rs) ==
  c \in Nat /\ c <= Len(d.cibs) /\ Swept(FreeBlocks(d), rs, UpTo(d, BaseAt(d, c, 0)))

InCib(d, c, w, rs) ==
  /\ c \in Nat /\ c < Len(d.cibs)
  /\ w \in Nat /\ w <= Len(d.cibs[c + 1].infos)
  /\ Swept(FreeBlocks(d), rs, UpTo(d, BaseAt(d, c, w)))

InRun(F, base, b, s, rs) ==
  /\ s = None => Swept(F, rs, base + b)
  /\ s # None => s \in Nat /\ s < b /\ Swept(F, rs, base + s) /\ AllIn(F, base + s, base + b)

InChunk(d, c, w, b, s, rs) ==
  /\ IsChunk(d, c, w) /\ d.cibs[c + 1].infos[w + 1].bitmap
  /\ b \in Nat /\ b <= BlocksAt(d, BaseAt(d, c, w))
  /\ InRun(FreeBlocks(d), BaseAt(d, c, w), b, s, rs)

\* A refusal that nothing damaged accounts for.
Justified(d, a, e) ==
  d.cksum /\ (\A k \in DOMAIN d.cibs : d.cibs[k].cksum) =>
    \/ e = "Io"
    \/ e = "FieldOutOfRange" /\ a # None /\ a >= d.block_count
    \/ e = "UnsupportedSpacemanCab" /\ d.cab_count # 0

SweepProgress ==
  /\ pc = "start" => runs = << >> /\ cib = 0
  /\ pc = "query" => asked # None
  /\ pc \in {"cib", "chunk", "bits"} => asked = None
  /\ pc = "cib" => AtCib(dev, cib, runs)
  /\ pc = "chunk" => InCib(dev, cib, within, runs)
  /\ pc = "bits" => InChunk(dev, cib, within, bit, start, runs)
  /\ pc = "done" /\ asked = None => Swept(FreeBlocks(dev), runs, dev.block_count)
  /\ pc = "done" /\ asked # None /\ dev.blocks_per_chunk <= BitmapBits =>
       (free <=> asked \in FreeBlocks(dev))
  /\ pc = "failed" => Justified(dev, asked, error)

IInv ==
  /\ IsDevice(dev)
  /\ asked \in {None} \cup Nat
  /\ Consistent(dev) => SweepProgress

\* The enumeration begins with nothing swept.
LEMMA FirstCib ==
  ASSUME NEW d, IsDevice(d), Consistent(d)
  PROVE  AtCib(d, 0, << >>)
<1>1. /\ d.blocks_per_chunk \in Nat /\ d.chunks_per_cib \in Nat /\ d.block_count \in Nat /\ Len(d.cibs) \in Nat
  BY DeviceNumbers
<1>2. BaseAt(d, 0, 0) = 0
  BY ONLY <1>1 DEF BaseAt
<1>3. UpTo(d, 0) = 0
  BY ONLY <1>1 DEF UpTo
<1>4. Swept(FreeBlocks(d), << >>, 0)
  BY DEF Swept
<1> QED
  BY <1>1, <1>2, <1>3, <1>4 DEF AtCib

\* A CIB is left at its end only.
LEMMA LeaveCib ==
  ASSUME NEW d, IsDevice(d), Consistent(d), NEW c, NEW w, NEW rs, InCib(d, c, w, rs),
         ~(/\ w < Len(d.cibs[c + 1].infos) /\ c * d.chunks_per_cib + w < d.chunk_count
           /\ BaseAt(d, c, w) < d.block_count)
  PROVE  AtCib(d, c + 1, rs)
<1> DEFINE L == Len(d.cibs[c + 1].infos)
<1>1. c \in Nat /\ c < Len(d.cibs) /\ w \in Nat /\ w <= L /\ Swept(FreeBlocks(d), rs, UpTo(d, BaseAt(d, c, w)))
  BY Zenon DEF InCib
<1>2. w < L => IsChunk(d, c, w)
  BY <1>1, ZenonT(30) DEF IsChunk
<1>3. IsChunk(d, c, w) => c * d.chunks_per_cib + w < d.chunk_count /\ BaseAt(d, c, w) < d.block_count
  BY AtChunk, Zenon DEF Placed
<1>4. ~(w < L)
  BY <1>2, <1>3, ZenonT(30)
<1>5. c + 1 \in DOMAIN d.cibs /\ Len(d.cibs) \in Nat
  BY <1>1 DEF IsDevice
<1>6. L \in Nat
  BY <1>5, DeviceTypes, Zenon
<1> HIDE DEF L
<1>7. w = L
  BY ONLY <1>1, <1>4, <1>6
<1>8. UpTo(d, BaseAt(d, c, w)) = UpTo(d, BaseAt(d, c + 1, 0))
  BY <1>1, <1>7, AtEnd, Zenon DEF L
<1>9. c + 1 \in Nat /\ c + 1 <= Len(d.cibs)
  BY ONLY <1>1, <1>5
<1> QED
  BY <1>1, <1>8, <1>9, Zenon DEF AtCib

\* A chunk of the CIB follows the one the enumeration is done with.
LEMMA NextInCib ==
  ASSUME NEW d, IsDevice(d), Consistent(d), NEW c, NEW w, IsChunk(d, c, w), NEW rs,
         Swept(FreeBlocks(d), rs, BaseAt(d, c, w) + BlocksAt(d, BaseAt(d, c, w)))
  PROVE  InCib(d, c, w + 1, rs)
<1>0. Placed(d, c, w, BaseAt(d, c, w), BlocksAt(d, BaseAt(d, c, w)))
  BY AtChunk, Zenon
<1>1. /\ BaseAt(d, c, w) + BlocksAt(d, BaseAt(d, c, w)) = UpTo(d, BaseAt(d, c, w + 1))
      /\ c + 1 \in DOMAIN d.cibs
  BY ONLY <1>0, Zenon DEF Placed
<1>2. Len(d.cibs[c + 1].infos) \in Nat
  BY <1>1, DeviceTypes, Zenon
<1>3. c \in Nat /\ w \in Nat /\ c < Len(d.cibs) /\ w < Len(d.cibs[c + 1].infos)
  BY Zenon DEF IsChunk
<1>4. w + 1 \in Nat /\ w + 1 <= Len(d.cibs[c + 1].infos)
  BY ONLY <1>2, <1>3
<1> QED
  BY <1>1, <1>3, <1>4, ZenonT(30) DEF InCib

\* A chunk without a bitmap is one run.
LEMMA WholeChunk ==
  ASSUME NEW d, IsDevice(d), Consistent(d), NEW c, NEW w, IsChunk(d, c, w), NEW rs, InCib(d, c, w, rs),
         ~d.cibs[c + 1].infos[w + 1].bitmap
  PROVE  InCib(d, c, w + 1, Pushed(rs, BaseAt(d, c, w), BlocksAt(d, BaseAt(d, c, w))))
<1> DEFINE base == BaseAt(d, c, w)
           blk == BlocksAt(d, base)
           F == FreeBlocks(d)
<1>0. Placed(d, c, w, base, blk)
  BY AtChunk, Zenon
<1>1. base \in Nat /\ UpTo(d, base) = base /\ blk \in Nat \ {0}
  BY ONLY <1>0, Zenon DEF Placed
<1>2. Swept(F, rs, base)
  BY <1>1, Zenon DEF InCib
<1>3. \A b \in Nat : b < blk => base + b \in F
  BY BitsOfChunk, Zenon
<1> HIDE DEF base, blk, F
<1>4. AllIn(F, base, base + blk)
  <2>1. SUFFICES ASSUME NEW b \in Nat, base <= b, b < base + blk PROVE b \in F
    BY DEF AllIn
  <2>2. b - base \in Nat /\ b - base < blk /\ base + (b - base) = b
    BY ONLY <1>1, <2>1, b \in Nat
  <2> QED
    BY ONLY <1>3, <2>2, Zenon
<1>5. Swept(F, Pushed(rs, base, blk), base + blk)
  BY <1>1, <1>2, <1>4, PushNext, Zenon
<1> QED
  BY <1>5, NextInCib, Zenon DEF base, blk, F

\* The run being read, closed before bit b.
Closed(base, b, s, rs) == IF s = None THEN rs ELSE Pushed(rs, base + s, b - s)

\* A run that is closed is swept.
LEMMA CloseRun ==
  ASSUME NEW F, NEW base \in Nat, NEW b \in Nat, NEW s, NEW rs, InRun(F, base, b, s, rs)
  PROVE  Swept(F, Closed(base, b, s, rs), base + b)
<1>1. CASE s = None
  BY <1>1, Zenon DEF InRun, Closed
<1>2. CASE s # None
  <2>1. s \in Nat /\ s < b /\ Swept(F, rs, base + s) /\ AllIn(F, base + s, base + b)
    BY <1>2, Zenon DEF InRun
  <2> DEFINE first == base + s
             len == b - s
  <2>2. first \in Nat /\ len \in Nat \ {0} /\ first + len = base + b
    BY ONLY <2>1, base \in Nat, b \in Nat
  <2>3. Closed(base, b, s, rs) = Pushed(rs, first, len)
    BY <1>2, Zenon DEF Closed
  <2>4. Swept(F, rs, first) /\ AllIn(F, first, first + len)
    BY <2>1, <2>2, Zenon
  <2> HIDE DEF first, len
  <2>5. Swept(F, Pushed(rs, first, len), first + len)
    BY <2>2, <2>4, PushNext, Zenon
  <2> QED
    BY <2>2, <2>3, <2>5, Zenon
<1> QED
  BY <1>1, <1>2

\* A free bit begins a run or continues it.
LEMMA FreeBitStep ==
  ASSUME NEW F, NEW base \in Nat, NEW b \in Nat, NEW s, NEW rs, InRun(F, base, b, s, rs), base + b \in F
  PROVE  InRun(F, base, b + 1, IF s = None THEN b ELSE s, rs)
<1>1. b # None
  BY SpacemanAssumption
<1>2. CASE s = None
  <2>1. Swept(F, rs, base + b)
    BY <1>2, Zenon DEF InRun
  <2>2. AllIn(F, base + b, base + (b + 1))
    BY DEF AllIn
  <2>3. b < b + 1
    OBVIOUS
  <2> QED
    BY <1>1, <1>2, <2>1, <2>2, <2>3, Zenon DEF InRun
<1>3. CASE s # None
  <2>1. s \in Nat /\ s < b /\ Swept(F, rs, base + s) /\ AllIn(F, base + s, base + b)
    BY <1>3, Zenon DEF InRun
  <2>2. AllIn(F, base + s, base + (b + 1))
    <3>1. SUFFICES ASSUME NEW x \in Nat, base + s <= x, x < base + (b + 1) PROVE x \in F
      BY DEF AllIn
    <3>2. x < base + b \/ x = base + b
      BY ONLY <3>1, base \in Nat, b \in Nat
    <3> QED
      BY <2>1, <3>1, <3>2, Zenon DEF AllIn
  <2>3. s < b + 1
    BY ONLY <2>1, b \in Nat
  <2> QED
    BY <1>3, <2>1, <2>2, <2>3, Zenon DEF InRun
<1> QED
  BY <1>2, <1>3

\* An allocated bit closes a run.
LEMMA UsedBitStep ==
  ASSUME NEW F, NEW base \in Nat, NEW b \in Nat, NEW s, NEW rs, InRun(F, base, b, s, rs), base + b \notin F
  PROVE  InRun(F, base, b + 1, None, Closed(base, b, s, rs))
<1> DEFINE ts == Closed(base, b, s, rs)
           p == base + b
           q == base + (b + 1)
<1>1. Swept(F, ts, p)
  BY CloseRun, Zenon
<1>2. p \in Nat /\ q \in Nat /\ p <= q
  OBVIOUS
<1>3. NoneIn(F, p, q)
  BY DEF NoneIn
<1> HIDE DEF ts, p, q
<1>4. Swept(F, ts, q)
  BY <1>1, <1>2, <1>3, Skip, Zenon
<1> QED
  BY <1>4, Zenon DEF InRun, ts, q

\* One bit of a chunk.
LEMMA BitStep ==
  ASSUME NEW d, IsDevice(d), Consistent(d), NEW c, NEW w, NEW b, NEW s, NEW rs,
         InChunk(d, c, w, b, s, rs), b < BlocksAt(d, BaseAt(d, c, w)),
         NEW bitfree, bitfree <=> b < BitmapBits /\ b \notin d.cibs[c + 1].infos[w + 1].set
  PROVE  /\ bitfree => InChunk(d, c, w, b + 1, IF s = None THEN b ELSE s, rs)
         /\ ~bitfree => InChunk(d, c, w, b + 1, None, Closed(BaseAt(d, c, w), b, s, rs))
<1> DEFINE base == BaseAt(d, c, w)
           blk == BlocksAt(d, base)
           F == FreeBlocks(d)
<1>1. /\ IsChunk(d, c, w) /\ d.cibs[c + 1].infos[w + 1].bitmap /\ b \in Nat
      /\ InRun(F, base, b, s, rs)
  BY ZenonT(30) DEF InChunk
<1>2. base \in Nat /\ blk \in Nat \ {0} /\ blk <= d.blocks_per_chunk
  BY <1>1, AtChunk, Zenon DEF Placed
<1>4. b < blk
  OBVIOUS
<1>5. base + b \in F <=> b < BitmapBits /\ b \notin d.cibs[c + 1].infos[w + 1].set
  BY <1>1, <1>4, BitsOfChunk, Zenon
<1> HIDE DEF base, blk, F
<1>6. b + 1 \in Nat /\ b + 1 <= blk
  BY ONLY <1>1, <1>2, <1>4
<1>7. bitfree <=> base + b \in F
  BY <1>5, Zenon
<1>8. bitfree => InRun(F, base, b + 1, IF s = None THEN b ELSE s, rs)
  BY <1>1, <1>2, <1>7, FreeBitStep, Zenon
<1>9. ~bitfree => InRun(F, base, b + 1, None, Closed(base, b, s, rs))
  BY <1>1, <1>2, <1>7, UsedBitStep, Zenon
<1> QED
  BY <1>1, <1>6, <1>8, <1>9, Zenon DEF InChunk, base, blk, F

\* The end of a chunk.
LEMMA LeaveChunk ==
  ASSUME NEW d, IsDevice(d), Consistent(d), NEW c, NEW w, NEW b, NEW s, NEW rs,
         InChunk(d, c, w, b, s, rs), b = BlocksAt(d, BaseAt(d, c, w))
  PROVE  InCib(d, c, w + 1, Closed(BaseAt(d, c, w), b, s, rs))
<1>1. IsChunk(d, c, w) /\ b \in Nat /\ InRun(FreeBlocks(d), BaseAt(d, c, w), b, s, rs)
  BY ZenonT(30) DEF InChunk
<1>2. BaseAt(d, c, w) \in Nat
  BY <1>1, AtChunk, Zenon DEF Placed
<1>3. Swept(FreeBlocks(d), Closed(BaseAt(d, c, w), b, s, rs), BaseAt(d, c, w) + b)
  BY <1>1, <1>2, CloseRun, Zenon
<1> QED
  BY <1>1, <1>3, NextInCib, Zenon

\* A chunk with a bitmap is read from its first bit on.
LEMMA EnterChunk ==
  ASSUME NEW d, IsDevice(d), Consistent(d), NEW c, NEW w, IsChunk(d, c, w), NEW rs, InCib(d, c, w, rs),
         d.cibs[c + 1].infos[w + 1].bitmap
  PROVE  InChunk(d, c, w, 0, None, rs)
<1> DEFINE base == BaseAt(d, c, w)
           blk == BlocksAt(d, base)
<1>0. Placed(d, c, w, base, blk)
  BY AtChunk, Zenon
<1>1. base \in Nat /\ UpTo(d, base) = base /\ blk \in Nat \ {0}
  BY ONLY <1>0, Zenon DEF Placed
<1>2. Swept(FreeBlocks(d), rs, base)
  BY <1>1, Zenon DEF InCib
<1> HIDE DEF base, blk
<1>3. base + 0 = base /\ 0 \in Nat /\ 0 <= blk
  BY ONLY <1>1
<1>4. InRun(FreeBlocks(d), base, 0, None, rs)
  BY <1>2, <1>3, Zenon DEF InRun
<1> QED
  BY <1>3, <1>4, ZenonT(30) DEF InChunk, base, blk

----------------------------------------------------------------------------
\* The definitions of the model, with their parameters.
LEMMA Parameters ==
  /\ Chunk = cib * dev.chunks_per_cib + within
  /\ chunk_base = BaseAt(dev, cib, within)
  /\ blocks_in_chunk = BlocksAt(dev, chunk_base)
  /\ \A first, len : push_free_run(first, len) = Pushed(runs, first, len)
  BY Zenon DEF Chunk, chunk_base, BaseAt, blocks_in_chunk, BlocksAt, push_free_run, Pushed

\* A refusal is justified.
LEMMA FailOK ==
  ASSUME IInv, NEW kind, Fail(kind), Consistent(dev) => Justified(dev, asked, kind)
  PROVE  IInv'
<1>1. pc' = "failed" /\ error' = kind /\ dev' = dev /\ asked' = asked
  BY DEF Fail
<1>2. (Consistent(dev) => SweepProgress)'
  <2>1. Consistent(dev)' => Justified(dev, asked, error)'
    BY <1>1, Zenon
  <2> QED
    BY <1>1, <2>1 DEF SweepProgress
<1> QED
  BY <1>1, <1>2 DEF IInv

\* A block that cannot be read, or is damaged.
LEMMA ReadFailsOK ==
  ASSUME IInv, NEW ck, read_obj_block_fails(ck),
         Consistent(dev) /\ dev.cksum /\ (\A k \in DOMAIN dev.cibs : dev.cibs[k].cksum) => ck
  PROVE  IInv'
<1>1. CASE Fail("Io")
  BY <1>1, FailOK, Zenon DEF Justified
<1>2. CASE ~ck /\ Fail("ChecksumMismatch")
  BY <1>2, FailOK, Zenon DEF Justified
<1> QED
  BY <1>1, <1>2, Zenon DEF read_obj_block_fails

\* A consistent device has a geometry.
LEMMA HasGeometry ==
  ASSUME IInv, Consistent(dev)
  PROVE  ~NoGeometry
<1>1. dev.blocks_per_chunk \in Nat \ {0} /\ dev.chunks_per_cib \in Nat \ {0}
  BY DeviceNumbers, Zenon DEF IInv
<1> QED
  BY ONLY <1>1 DEF NoGeometry

\* Reading the space manager.
LEMMA ReadSpacemanStep == IInv /\ ReadSpaceman => IInv'
<1> SUFFICES ASSUME IInv, ReadSpaceman PROVE IInv'
  OBVIOUS
<1>1. CASE read_obj_block_fails(dev.cksum)
  BY <1>1, ReadFailsOK, Zenon
<1>2. CASE NoGeometry /\ Fail("FieldOutOfRange")
  BY <1>2, FailOK, HasGeometry, Zenon
<1>3. CASE dev.cab_count # 0 /\ Fail("UnsupportedSpacemanCab")
  BY <1>3, FailOK, Zenon DEF Justified
<1>4. CASE /\ pc' = IF asked = None THEN "cib" ELSE "query"
           /\ UNCHANGED <<dev, asked, walk, free, error>>
  <2>1. pc = "start" /\ dev' = dev /\ asked' = asked /\ cib' = cib /\ runs' = runs
    BY <1>4 DEF ReadSpaceman, walk
  <2>2. ASSUME Consistent(dev) PROVE SweepProgress'
    <3>1. runs = << >> /\ cib = 0
      BY <2>1, <2>2 DEF IInv, SweepProgress
    <3>2. AtCib(dev, cib, runs)'
      <4>1. AtCib(dev, 0, << >>)
        BY <2>2, FirstCib DEF IInv
      <4> QED
        BY <2>1, <3>1, <4>1
    <3>3. pc' \in {"cib", "query"} /\ (pc' = "cib" <=> asked = None)
      BY <1>4
    <3> QED
      BY <2>1, <3>2, <3>3 DEF SweepProgress
  <2> QED
    BY <2>1, <2>2 DEF IInv
<1> QED
  BY <1>1, <1>2, <1>3, <1>4 DEF ReadSpaceman

\* is_block_free finds the chunk and its bit.
LEMMA AskedPlace ==
  ASSUME IInv, Consistent(dev), asked # None, asked < dev.block_count
  PROVE  LET q == cib_index(asked)
             r == within_cib(asked)
         IN  /\ ~OutOfDevice /\ q + 1 \in DOMAIN dev.cibs /\ ~(r >= Len(dev.cibs[q + 1].infos))
             /\ dev.blocks_per_chunk <= BitmapBits =>
                  (asked \in FreeBlocks(dev) <=> ~Allocated(dev.cibs[q + 1].infos[r + 1], asked))
<1> DEFINE c == chunk_index(asked)
           q == cib_index(asked)
           r == within_cib(asked)
           t == asked % dev.blocks_per_chunk
           info == dev.cibs[q + 1].infos[r + 1]
<1>1. asked \in Nat /\ IsDevice(dev)
  BY Zenon DEF IInv
<1>2. /\ c = asked \div dev.blocks_per_chunk /\ q = c \div dev.chunks_per_cib
      /\ r = c % dev.chunks_per_cib
  BY Zenon DEF chunk_index, cib_index, within_cib
<1> HIDE DEF c, q, r
<1>3. /\ c \in Nat /\ c < dev.chunk_count /\ IsChunk(dev, q, r)
      /\ t \in Nat /\ t < BlocksAt(dev, BaseAt(dev, q, r))
      /\ asked = BaseAt(dev, q, r) + t
  BY <1>1, <1>2, PlaceOf
<1>4. asked \in FreeBlocks(dev) <=> (info.bitmap => t < BitmapBits /\ t \notin info.set)
  BY <1>1, <1>3, BitsOfChunk, Zenon
<1>5. Allocated(info, asked) <=> info.bitmap /\ t \in info.set
  BY ZenonT(30) DEF Allocated
<1>6. q + 1 \in DOMAIN dev.cibs
  BY <1>1, <1>3, AtChunk, Zenon DEF Placed
<1>7. q \in Nat /\ r \in Nat /\ q < Len(dev.cibs) /\ r < Len(dev.cibs[q + 1].infos)
  BY <1>3, Zenon DEF IsChunk
<1>8. Len(dev.cibs) \in Nat /\ Len(dev.cibs[q + 1].infos) \in Nat /\ dev.chunk_count \in Nat
  <2>1. Len(dev.cibs) \in Nat /\ Len(dev.cibs[q + 1].infos) \in Nat
    BY <1>1, <1>6, DeviceTypes, Zenon
  <2>2. dev.chunk_count \in Nat
    BY <1>1, Zenon DEF IsDevice
  <2> QED
    BY <2>1, <2>2
<1>9. ~(c >= dev.chunk_count) /\ ~(q >= Len(dev.cibs)) /\ ~(r >= Len(dev.cibs[q + 1].infos))
  BY ONLY <1>3, <1>7, <1>8
<1>10. ~OutOfDevice
  BY <1>9, Zenon DEF OutOfDevice, c, q
<1>11. dev.blocks_per_chunk <= BitmapBits => t < BitmapBits
  <2>1. dev.blocks_per_chunk \in Nat \ {0} /\ BitmapBits \in Nat
    BY <1>1, DeviceNumbers, SpacemanAssumption
  <2>2. t < dev.blocks_per_chunk
    BY ONLY <1>1, <2>1
  <2> HIDE DEF t
  <2> QED
    BY ONLY <1>3, <2>1, <2>2
<1> HIDE DEF t, info
<1>12. dev.blocks_per_chunk <= BitmapBits => (asked \in FreeBlocks(dev) <=> ~Allocated(info, asked))
  BY <1>4, <1>5, <1>11, Zenon
<1> QED
  BY <1>6, <1>9, <1>10, <1>12, Zenon DEF q, r, info

\* is_block_free's answer.
LEMMA QueryStep == IInv /\ Query => IInv'
<1> SUFFICES ASSUME IInv, Query PROVE IInv'
  OBVIOUS
<1> DEFINE q == cib_index(asked)
           r == within_cib(asked)
           ci == dev.cibs[q + 1]
<1>1. pc = "query" /\ (Consistent(dev) => asked # None)
  BY Zenon DEF Query, IInv, SweepProgress
<1>2. Consistent(dev) /\ asked < dev.block_count =>
        /\ ~OutOfDevice /\ q + 1 \in DOMAIN dev.cibs /\ ~(r >= Len(ci.infos))
        /\ dev.blocks_per_chunk <= BitmapBits =>
             (asked \in FreeBlocks(dev) <=> ~Allocated(ci.infos[r + 1], asked))
  BY <1>1, AskedPlace, Zenon
<1>3. CASE asked >= dev.block_count /\ Fail("FieldOutOfRange")
  BY <1>1, <1>3, FailOK, Zenon DEF Justified
<1>4. CASE dev.cab_count # 0 /\ Fail("UnsupportedSpacemanCab")
  BY <1>4, FailOK, Zenon DEF Justified
<1>5. CASE asked < dev.block_count /\ OutOfDevice /\ Fail("FieldOutOfRange")
  BY <1>2, <1>5, FailOK, Zenon
<1>6. CASE asked < dev.block_count /\ read_obj_block_fails(ci.cksum)
  BY <1>2, <1>6, ReadFailsOK, Zenon
<1>7. CASE Fail("Io")
  BY <1>7, FailOK, Zenon DEF Justified
<1>8. CASE asked < dev.block_count /\ r >= Len(ci.infos) /\ Fail("FieldOutOfRange")
  BY <1>2, <1>8, FailOK, Zenon
<1>9. CASE /\ asked < dev.block_count /\ free' = ~Allocated(ci.infos[r + 1], asked) /\ pc' = "done"
           /\ UNCHANGED <<dev, asked, walk, error>>
  <2>1. dev' = dev /\ asked' = asked /\ pc' = "done"
    BY <1>9
  <2>2. Consistent(dev) /\ dev.blocks_per_chunk <= BitmapBits => (free' <=> asked \in FreeBlocks(dev))
    BY <1>2, <1>9, Zenon
  <2>3. Consistent(dev) => SweepProgress'
    <3>1. Consistent(dev) /\ dev'.blocks_per_chunk <= BitmapBits =>
            (free' <=> asked' \in FreeBlocks(dev)')
      BY <2>1, <2>2, Zenon
    <3>2. pc' # "start" /\ pc' # "query" /\ pc' \notin {"cib", "chunk", "bits"} /\ pc' # "cib" /\ pc' # "chunk"
          /\ pc' # "bits" /\ pc' # "failed"
      BY <2>1, SMTT(30)
    <3> QED
      BY <1>1, <2>1, <3>1, <3>2, Zenon DEF SweepProgress
  <2> QED
    BY <2>1, <2>3, Zenon DEF IInv
<1> QED
  BY <1>3, <1>4, <1>5, <1>6, <1>7, <1>8, <1>9, ZenonT(30) DEF Query

\* free_block_runs goes from CIB to CIB.
LEMMA NextCibStep == IInv /\ NextCib => IInv'
<1> SUFFICES ASSUME IInv, NextCib PROVE IInv'
  OBVIOUS
<1>1. /\ pc = "cib" /\ IsDevice(dev) /\ (Consistent(dev) => asked = None /\ AtCib(dev, cib, runs))
  BY Zenon DEF NextCib, IInv, SweepProgress
<1>2. CASE cib = Len(dev.cibs) /\ pc' = "done" /\ UNCHANGED <<dev, asked, walk, free, error>>
  <2>1. dev' = dev /\ asked' = asked /\ runs' = runs /\ pc' = "done"
    BY <1>2 DEF walk
  <2>2. Consistent(dev) => Swept(FreeBlocks(dev), runs, dev.block_count)
    BY <1>1, <1>2, AtDeviceEnd, Zenon DEF AtCib
  <2>3. Consistent(dev) => Swept(FreeBlocks(dev), runs, dev.block_count)'
    BY <2>1, <2>2, Zenon
  <2> QED
    BY <1>1, <2>1, <2>3 DEF IInv, SweepProgress
<1>3. CASE cib < Len(dev.cibs) /\ read_obj_block_fails(dev.cibs[cib + 1].cksum)
  <2>1. Consistent(dev) => cib + 1 \in DOMAIN dev.cibs
    <3>1. DOMAIN dev.cibs = 1 .. Len(dev.cibs) /\ Len(dev.cibs) \in Nat
      BY <1>1 DEF IsDevice
    <3>2. Consistent(dev) => cib \in Nat
      BY <1>1, ZenonT(30) DEF AtCib
    <3> QED
      BY ONLY <1>3, <3>1, <3>2
  <2> QED
    BY <1>3, <2>1, ReadFailsOK, Zenon
<1>4. CASE cib < Len(dev.cibs) /\ pc' = "chunk" /\ within' = 0
           /\ UNCHANGED <<dev, asked, cib, bit, start, runs, free, error>>
  <2>1. dev' = dev /\ asked' = asked /\ cib' = cib /\ runs' = runs /\ pc' = "chunk" /\ within' = 0
    BY <1>4
  <2>2. ASSUME Consistent(dev) PROVE InCib(dev, cib, 0, runs)
    <3>1. cib \in Nat /\ cib < Len(dev.cibs) /\ Swept(FreeBlocks(dev), runs, UpTo(dev, BaseAt(dev, cib, 0)))
      BY <1>1, <1>4, <2>2, ZenonT(30) DEF AtCib
    <3>2. cib + 1 \in DOMAIN dev.cibs
      <4>1. IsDevice(dev)
        BY <1>1, Zenon
      <4>2. DOMAIN dev.cibs = 1 .. Len(dev.cibs) /\ Len(dev.cibs) \in Nat
        BY ONLY <4>1 DEF IsDevice
      <4> QED
        BY ONLY <3>1, <4>2
    <3>3. Len(dev.cibs[cib + 1].infos) \in Nat
      BY <1>1, <3>2, DeviceTypes, Zenon
    <3>4. 0 \in Nat /\ 0 <= Len(dev.cibs[cib + 1].infos)
      BY ONLY <3>3
    <3> QED
      BY <3>1, <3>4, Zenon DEF InCib
  <2>3. Consistent(dev) => InCib(dev, cib, within, runs)'
    BY <2>1, <2>2, Zenon
  <2> QED
    BY <1>1, <2>1, <2>3 DEF IInv, SweepProgress
<1> QED
  BY <1>2, <1>3, <1>4, ZenonT(30) DEF NextCib

\* free_block_runs goes from chunk to chunk.
LEMMA NextChunkStep == IInv /\ NextChunk => IInv'
<1> SUFFICES ASSUME IInv, NextChunk PROVE IInv'
  OBVIOUS
<1> DEFINE info == dev.cibs[cib + 1].infos[within + 1]
<1>1. /\ pc = "chunk" /\ IsDevice(dev) /\ (Consistent(dev) => asked = None /\ InCib(dev, cib, within, runs))
  BY DEF NextChunk, IInv, SweepProgress
<1>2. InDevice <=> /\ within < Len(dev.cibs[cib + 1].infos) /\ cib * dev.chunks_per_cib + within < dev.chunk_count
                   /\ BaseAt(dev, cib, within) < dev.block_count
  BY Parameters, Zenon DEF InDevice, Infos
<1>3. Consistent(dev) /\ InDevice => IsChunk(dev, cib, within)
  BY <1>1, <1>2, Zenon DEF InCib, IsChunk
<1>4. Infos[within + 1] = info
  BY Zenon DEF Infos
<1>5. CASE /\ ~InDevice /\ pc' = "cib" /\ cib' = cib + 1
           /\ UNCHANGED <<dev, asked, within, bit, start, runs, free, error>>
  <2>1. dev' = dev /\ asked' = asked /\ runs' = runs /\ pc' = "cib" /\ cib' = cib + 1
    BY <1>5
  <2>2. Consistent(dev) => AtCib(dev, cib + 1, runs)
    BY <1>1, <1>2, <1>5, LeaveCib, Zenon
  <2>3. Consistent(dev) => AtCib(dev, cib, runs)'
    BY <2>1, <2>2, Zenon
  <2> QED
    BY <1>1, <2>1, <2>3 DEF IInv, SweepProgress
<1>6. CASE /\ InDevice /\ ~info.bitmap /\ runs' = push_free_run(chunk_base, blocks_in_chunk) /\ within' = within + 1
           /\ UNCHANGED <<dev, asked, pc, cib, bit, start, free, error>>
  <2>1. dev' = dev /\ asked' = asked /\ pc' = pc /\ cib' = cib /\ within' = within + 1
    BY <1>6
  <2>2. runs' = Pushed(runs, BaseAt(dev, cib, within), BlocksAt(dev, BaseAt(dev, cib, within)))
    BY <1>6, Parameters, Zenon
  <2>3. Consistent(dev) => InCib(dev, cib, within + 1, runs')
    BY <1>1, <1>3, <1>6, <2>2, WholeChunk, Zenon
  <2>4. Consistent(dev) => InCib(dev, cib, within, runs)'
    BY <2>1, <2>3, ZenonT(30)
  <2> QED
    BY <1>1, <2>1, <2>4 DEF IInv, SweepProgress
<1>7. CASE Fail("Io")
  BY <1>7, FailOK, Zenon DEF Justified
<1>8. CASE /\ InDevice /\ info.bitmap /\ pc' = "bits" /\ bit' = 0 /\ start' = None
           /\ UNCHANGED <<dev, asked, cib, within, runs, free, error>>
  <2>1. dev' = dev /\ asked' = asked /\ pc' = "bits" /\ cib' = cib /\ within' = within /\ runs' = runs
        /\ bit' = 0 /\ start' = None
    BY <1>8
  <2>2. Consistent(dev) => InChunk(dev, cib, within, 0, None, runs)
    BY <1>1, <1>3, <1>8, EnterChunk, Zenon
  <2>3. Consistent(dev) => InChunk(dev, cib, within, bit, start, runs)'
    BY <2>1, <2>2, ZenonT(30)
  <2> QED
    BY <1>1, <2>1, <2>3 DEF IInv, SweepProgress
<1> QED
  BY <1>4, <1>5, <1>6, <1>7, <1>8, ZenonT(30) DEF NextChunk

\* free_runs goes from bit to bit.
LEMMA NextBitStep == IInv /\ NextBit => IInv'
<1> SUFFICES ASSUME IInv, NextBit PROVE IInv'
  OBVIOUS
<1> DEFINE base == BaseAt(dev, cib, within)
           set == dev.cibs[cib + 1].infos[within + 1].set
<1>1. /\ pc = "bits" /\ IsDevice(dev)
      /\ Consistent(dev) => asked = None /\ InChunk(dev, cib, within, bit, start, runs)
  BY DEF NextBit, IInv, SweepProgress
<1>2. bit < BlocksAt(dev, base) /\ (FreeBit(bit) <=> bit < BitmapBits /\ bit \notin set)
  BY Parameters, Zenon DEF NextBit, FreeBit, Infos
<1>3. dev' = dev /\ asked' = asked /\ pc' = pc /\ cib' = cib /\ within' = within /\ bit' = bit + 1
  BY DEF NextBit
<1>4. \/ FreeBit(bit) /\ start' = (IF start = None THEN bit ELSE start) /\ runs' = runs
      \/ ~FreeBit(bit) /\ start' = None /\ runs' = Closed(base, bit, start, runs)
  <2>1. CASE FreeBit(bit)
    BY <2>1 DEF NextBit
  <2>2. CASE ~FreeBit(bit) /\ start # None
    BY <2>2, Parameters, Zenon DEF NextBit, Closed
  <2>3. CASE ~FreeBit(bit) /\ start = None
    <3>1. start' = start /\ runs' = runs
      BY <2>3 DEF NextBit
    <3> QED
      BY <2>3, <3>1, Zenon DEF Closed
  <2> QED
    BY <2>1, <2>2, <2>3
<1>5. Consistent(dev) =>
        /\ FreeBit(bit) => InChunk(dev, cib, within, bit + 1, IF start = None THEN bit ELSE start, runs)
        /\ ~FreeBit(bit) => InChunk(dev, cib, within, bit + 1, None, Closed(base, bit, start, runs))
  BY <1>1, <1>2, BitStep, Zenon
<1>6. Consistent(dev) => InChunk(dev, cib, within, bit, start, runs)'
  BY <1>3, <1>4, <1>5, Zenon
<1> QED
  BY <1>1, <1>3, <1>6 DEF IInv, SweepProgress

\* free_runs ends with the chunk.
LEMMA EndBitsStep == IInv /\ EndBits => IInv'
<1> SUFFICES ASSUME IInv, EndBits PROVE IInv'
  OBVIOUS
<1> DEFINE base == BaseAt(dev, cib, within)
<1>1. /\ pc = "bits" /\ IsDevice(dev)
      /\ Consistent(dev) => asked = None /\ InChunk(dev, cib, within, bit, start, runs)
  BY DEF EndBits, IInv, SweepProgress
<1>2. bit = BlocksAt(dev, base) /\ runs' = Closed(base, bit, start, runs)
  BY Parameters, Zenon DEF EndBits, Closed
<1>3. dev' = dev /\ asked' = asked /\ pc' = "chunk" /\ cib' = cib /\ within' = within + 1
  BY DEF EndBits
<1>4. Consistent(dev) => InCib(dev, cib, within + 1, runs')
  BY <1>1, <1>2, LeaveChunk, Zenon
<1>5. Consistent(dev) => InCib(dev, cib, within, runs)'
  BY <1>3, <1>4, Zenon
<1> QED
  BY <1>1, <1>3, <1>5 DEF IInv, SweepProgress

\* The invariant holds throughout.
LEMMA Invariance == Spec => []IInv
<1>1. Init => IInv
  <2> SUFFICES ASSUME Init PROVE IInv
    OBVIOUS
  <2>1. IsDevice(dev) /\ asked \in {None} \cup 0 .. dev.block_count /\ pc = "start" /\ runs = << >> /\ cib = 0
    BY SpacemanAssumption DEF Init
  <2>2. asked \in {None} \cup Nat
    BY <2>1 DEF IsDevice
  <2> QED
    BY <2>1, <2>2 DEF IInv, SweepProgress
<1>2. IInv /\ UNCHANGED vars => IInv'
  <2> SUFFICES ASSUME IInv, UNCHANGED vars PROVE IInv'
    OBVIOUS
  <2>1. /\ dev' = dev /\ asked' = asked /\ pc' = pc /\ cib' = cib /\ within' = within /\ bit' = bit
        /\ start' = start /\ runs' = runs /\ free' = free /\ error' = error
    BY DEF vars
  <2>2. SweepProgress => SweepProgress'
    BY <2>1, Zenon DEF SweepProgress
  <2> QED
    BY <2>1, <2>2, Zenon DEF IInv
<1>3. IInv /\ [Next]_vars => IInv'
  BY <1>2, ReadSpacemanStep, QueryStep, NextCibStep, NextChunkStep, NextBitStep, EndBitsStep, Zenon DEF Next
<1> QED
  BY <1>1, <1>3, PTL DEF Spec

\* Whatever the sizes of a consistent device, free_block_runs that ends has covered its
\* free blocks and no other, in ascending runs with an allocated block between any two.
THEOREM FreeSpaceIsExact == Spec => []RunsAreTheFreeBlocks
<1>1. IInv => RunsAreTheFreeBlocks
  <2>1. SUFFICES ASSUME IInv, Consistent(dev), pc = "done", asked = None
                 PROVE  /\ Covered = FreeBlocks(dev)
                        /\ \A k \in 1 .. Len(runs) - 1 : runs[k].first + runs[k].len < runs[k + 1].first
    BY Zenon DEF RunsAreTheFreeBlocks
  <2> DEFINE F == FreeBlocks(dev)
             N == dev.block_count
  <2>2. Swept(F, runs, N)
    BY <2>1, Zenon DEF IInv, SweepProgress
  <2>3. /\ runs \in Seq(Run) /\ N \in Nat
        /\ \A b \in Nat : b \in F /\ b < N <=> \E k \in DOMAIN runs : OfRun(runs[k], b)
        /\ \A k \in 1 .. Len(runs) - 1 : runs[k].first + runs[k].len < runs[k + 1].first
    BY <2>2, Zenon DEF Swept
  <2>4. ASSUME NEW k \in DOMAIN runs, NEW b PROVE b \in BlocksOf(runs[k]) <=> b \in Nat /\ OfRun(runs[k], b)
    <3>1. runs[k].first \in Nat /\ runs[k].len \in Nat
      BY <2>3, RunTypes
    <3> QED
      BY ONLY <3>1 DEF BlocksOf, OfRun
  <2>5. \A b \in F : b \in Nat /\ b < N
    <3>1. \A b \in F : b \in 0 .. N - 1
      BY FreeInDevice, Zenon
    <3> HIDE DEF F, N
    <3> QED
      BY ONLY <2>3, <3>1
  <2>6. \A b : b \in Covered <=> \E k \in DOMAIN runs : b \in BlocksOf(runs[k])
    BY Zenon DEF Covered
  <2> HIDE DEF F, N
  <2>7. \A b : b \in Covered <=> b \in F
    BY <2>3, <2>4, <2>5, <2>6, Zenon
  <2>8. Covered = F
    BY <2>7, Zenon
  <2> QED
    BY <2>3, <2>8, Zenon DEF F
<1> QED
  BY <1>1, Invariance, PTL

\* Whatever the sizes of a consistent device, is_block_free answers for a block what the
\* reference says of it if a bitmap has a bit for each block of its chunk, and neither operation refuses an undamaged device except for a
\* failed read, a block past the end or the CAB tier.
THEOREM QueriesAgree == Spec => []QueryAgrees
<1>1. IInv => QueryAgrees
  BY Zenon DEF IInv, SweepProgress, Justified, QueryAgrees
<1> QED
  BY <1>1, Invariance, PTL
=============================================================================
