-------------------------- MODULE CheckpointProofs --------------------------
(***************************************************************************)
(* For every ring, every block zero and every size of the descriptor area: *)
(* module Checkpoint keeps its type invariant, an open container holds the *)
(* newest valid superblock, its mappings are those of the live maps, and a *)
(* container is refused for a reason.                                      *)
(*                                                                         *)
(* For every ring with room for two checkpoints and every history of       *)
(* transactions, torn writes and crashes in module CheckpointRing: the     *)
(* image opens at the last committed checkpoint, with its spaceman; and a  *)
(* device that is written meanwhile yields a verified superblock.          *)
(***************************************************************************)
EXTENDS CheckpointRing, SequenceTheorems, FiniteSetTheorems, WellFoundedInduction, TLAPS

\* The best candidate is right for the first n slots.
BestOf(n) ==
  /\ best = None => \A s \in 0 .. n - 1 : ~ValidSuperblock(ring[s])
  /\ best # None =>
       /\ best.slot \in 0 .. n - 1
       /\ ValidSuperblock(ring[best.slot])
       /\ best.xid = ring[best.slot].xid
       /\ \A s \in 0 .. n - 1 : ValidSuperblock(ring[s]) =>
            ring[s].xid < best.xid \/ (ring[s].xid = best.xid /\ best.slot <= s)

\* The mappings are those of the live maps among the first n slots.
CollectedFrom(n) ==
  Range(mappings) = UNION {Listed(s) : s \in {t \in 0 .. n - 1 : LiveMap(ring[t], best.xid)}}

\* The slots among the first n that could be read.
Read(n) == {s \in 0 .. n - 1 : ring[s].type # "eof"}

ScanInv ==
  /\ pc \in {"start", "resolve", "scan"} => mappings = << >>
  /\ pc \in {"start", "resolve"} => i = 0 /\ best = None /\ checked = 0
  /\ pc \in {"scan", "collect"} => BootstrapUsable
  /\ pc = "resolve" => zero.type # "eof" /\ zero.magic = NX_MAGIC /\ zero.cksum /\ ~zero.fusion
  /\ pc = "scan" => BestOf(i) /\ checked <= i /\ checked = Cardinality(Read(i))

CollectInv ==
  /\ pc \in {"collect", "open"} => best # None /\ BestOf(DescBlocks)
  /\ pc = "collect" => CollectedFrom(i)
  /\ pc = "open" => CollectedFrom(DescBlocks) /\ superblock = ring[best.slot]

\* The inductive invariant: what the two scans have established so far.
IInv == TypeOK /\ ScanInv /\ CollectInv /\ RefusalHasAReason

\* The errors of NxSuperblock::parse, and those open builds itself, have the
\* type of the error variable.
LEMMA ErrorTypes ==
  ASSUME NEW b \in Block
  PROVE  ParseError(b) \in [kind : {"None", "NoValidSuperblock", "ChecksumMismatch", "UnsupportedFusion",
                                    "CheckpointTreeUnsupported", "FieldOutOfRange", "Io"},
                            checked : Nat, last_magic : Nat]
  BY DEF ParseError, NoError, Block

\* Capping a map block's count keeps a sequence of mappings.
LEMMA CappedMapType ==
  ASSUME NEW b \in Block
  PROVE  CappedMap(b) \in Seq([oid : Nat, paddr : Nat])
<1>1. b.map \in Seq([oid : Nat, paddr : Nat])
  BY DEF Block
<1>2. Len(b.map) \in Nat
  BY <1>1, LenProperties
<1>3. Minimum(Len(b.map), MaxCpmCount) \in Nat /\ Minimum(Len(b.map), MaxCpmCount) <= Len(b.map)
  BY <1>2, CheckpointAssumption DEF Minimum
<1>4. \A k \in 1 .. Minimum(Len(b.map), MaxCpmCount) : b.map[k] \in [oid : Nat, paddr : Nat]
  <2>1. \A n \in Nat : n <= Len(b.map) => \A k \in 1 .. n : k \in 1 .. Len(b.map)
    BY <1>2
  <2>2. \A k \in 1 .. Len(b.map) : b.map[k] \in [oid : Nat, paddr : Nat]
    BY <1>1, ElementOfSeq, ZenonT(60)
  <2> QED
    BY <1>3, <2>1, <2>2
<1> QED
  BY <1>3, <1>4, SubSeqProperties DEF CappedMap

\* One more slot: the candidate stays right when the scan takes the slot's
\* superblock exactly if it is valid and its xid is strictly higher.
LEMMA ScanKeepsBest ==
  ASSUME TypeOK, BestOf(i), i < DescBlocks,
         best' = IF ValidSuperblock(ring[i]) /\ Better(ring[i]) THEN [xid |-> ring[i].xid, slot |-> i] ELSE best,
         i' = i + 1, ring' = ring
  PROVE  BestOf(i)'
<1>1. i \in Slots /\ ring[i] \in Block /\ i \in Nat
  BY CheckpointAssumption DEF TypeOK, Slots
<1>2. \A s \in 0 .. i : s \in 0 .. i - 1 \/ s = i
  BY <1>1
<1>3. \A s \in 0 .. i - 1 : ring[s].xid \in Nat
  BY <1>1, CheckpointAssumption DEF TypeOK, Slots, Block
<1>4. ring[i].xid \in Nat
  BY <1>1 DEF Block
<1>5. None \notin Candidate
  BY CheckpointAssumption
<1>6. CASE ValidSuperblock(ring[i]) /\ Better(ring[i])
  <2>1. best' = [xid |-> ring[i].xid, slot |-> i] /\ best' # None
    BY <1>6, <1>1, <1>4, <1>5 DEF Candidate
  <2>2. ASSUME NEW s \in 0 .. i, ValidSuperblock(ring[s])
        PROVE  ring[s].xid < best'.xid \/ (ring[s].xid = best'.xid /\ best'.slot <= s)
    <3>1. CASE s = i
      BY <2>1, <3>1, <1>1
    <3>2. CASE s \in 0 .. i - 1
      BY <2>1, <2>2, <3>2, <1>3, <1>4, <1>6 DEF BestOf, Better
    <3> QED
      BY <3>1, <3>2, <1>2
  <2>3. i' - 1 = i
    BY <1>1
  <2> QED
    BY <2>1, <2>2, <2>3, <1>1, <1>6 DEF BestOf, ValidSuperblock
<1>7. CASE ~(ValidSuperblock(ring[i]) /\ Better(ring[i]))
  <2>1. best' = best /\ i' - 1 = i
    BY <1>7, <1>1
  <2>2. CASE best = None
    BY <2>1, <2>2, <1>2, <1>7 DEF BestOf, Better, ValidSuperblock
  <2>3. CASE best # None
    <3>1. best.slot \in 0 .. i - 1 /\ best.slot \in 0 .. i
      BY <2>3, <1>1 DEF BestOf
    <3>2. ASSUME NEW s \in 0 .. i, ValidSuperblock(ring[s])
          PROVE  ring[s].xid < best.xid \/ (ring[s].xid = best.xid /\ best.slot <= s)
      <4>1. CASE s = i
        BY <4>1, <3>1, <3>2, <1>1, <1>3, <1>4, <1>7, <2>3 DEF BestOf, Better
      <4>2. CASE s \in 0 .. i - 1
        BY <4>2, <3>2, <2>3 DEF BestOf
      <4> QED
        BY <4>1, <4>2, <1>2
    <3> QED
      BY <2>1, <2>3, <3>1, <3>2 DEF BestOf, ValidSuperblock
  <2> QED
    BY <2>2, <2>3
<1> QED
  BY <1>6, <1>7

\* One more slot: the mappings of a live map are added, and nothing else is.
LEMMA CollectKeepsMappings ==
  ASSUME TypeOK, CollectedFrom(i), i < DescBlocks,
         mappings' = IF LiveMap(ring[i], best.xid) THEN mappings \o CappedMap(ring[i]) ELSE mappings,
         i' = i + 1, ring' = ring, best' = best
  PROVE  CollectedFrom(i)'
<1>1. i \in Slots /\ ring[i] \in Block /\ i \in Nat
  BY CheckpointAssumption DEF TypeOK, Slots
<1>2. i' - 1 = i /\ 0 .. i = (0 .. i - 1) \cup {i}
  BY <1>1
<1> DEFINE Live(n) == {t \in 0 .. n : LiveMap(ring[t], best.xid)}
<1>3. \A s : Listed(s)' = Listed(s)
  BY DEF Listed, CappedMap
<1>4. CASE LiveMap(ring[i], best.xid)
  <2>1. Live(i) = Live(i - 1) \cup {i}
    BY <1>2, <1>4
  <2>2. Range(mappings') = Range(mappings) \cup Listed(i)
    <3>1. mappings \in Seq([oid : Nat, paddr : Nat]) /\ CappedMap(ring[i]) \in Seq([oid : Nat, paddr : Nat])
      BY <1>1, CappedMapType DEF TypeOK
    <3>2. mappings' = mappings \o CappedMap(ring[i])
      BY <1>4
    <3>3. Range(mappings \o CappedMap(ring[i])) = Range(mappings) \cup Range(CappedMap(ring[i]))
      <4> DEFINE Mapping == [oid : Nat, paddr : Nat]
                 c == CappedMap(ring[i])
      <4>1. mappings \in Seq(Mapping) /\ c \in Seq(Mapping)
        BY <3>1
      <4> HIDE DEF Mapping, c
      <4>2. Range(mappings \o c) = Range(mappings) \cup Range(c)
        BY <4>1, RangeConcatenation, ZenonT(40)
      <4> QED
        BY <4>2 DEF c
    <3> QED
      BY <3>2, <3>3, ZenonT(60) DEF Listed
  <2>3. UNION {Listed(s) : s \in Live(i)} = (UNION {Listed(s) : s \in Live(i - 1)}) \cup Listed(i)
    BY <2>1
  <2>4. Range(mappings') = UNION {Listed(s) : s \in Live(i)}
    BY <2>2, <2>3 DEF CollectedFrom
  <2> QED
    BY <2>4, <1>2, <1>3 DEF CollectedFrom, LiveMap
<1>5. CASE ~LiveMap(ring[i], best.xid)
  <2>1. Live(i) = Live(i - 1)
    BY <1>2, <1>5
  <2>2. Range(mappings') = UNION {Listed(s) : s \in Live(i)}
    BY <2>1, <1>5 DEF CollectedFrom
  <2> QED
    BY <2>2, <1>2, <1>3 DEF CollectedFrom, LiveMap
<1> QED
  BY <1>4, <1>5

\* One more slot: the scan counts it exactly if it could be read.
LEMMA ScanKeepsCount ==
  ASSUME TypeOK, i < DescBlocks, checked = Cardinality(Read(i)),
         checked' = IF ring[i].type = "eof" THEN checked ELSE checked + 1,
         i' = i + 1, ring' = ring
  PROVE  checked' = Cardinality(Read(i)')
<1>1. i \in Nat /\ i' - 1 = i /\ 0 .. i = (0 .. i - 1) \cup {i} /\ i \notin 0 .. i - 1
  BY DEF TypeOK
<1>2. IsFiniteSet(Read(i)) /\ i \notin Read(i)
  <2>1. IsFiniteSet(0 .. i - 1)
    BY <1>1, FS_Interval
  <2> QED
    BY <2>1, <1>1, FS_Subset DEF Read
<1>3. CASE ring[i].type = "eof"
  BY <1>1, <1>3, Zenon DEF Read
<1>4. CASE ring[i].type # "eof"
  <2>1. Read(i)' = Read(i) \cup {i}
    BY <1>1, <1>4 DEF Read
  <2> QED
    BY <2>1, <1>2, <1>4, FS_AddElement
<1> QED
  BY <1>3, <1>4

\* The inductive invariant holds in the initial states.
LEMMA InitIInv == Init => IInv
<1> SUFFICES ASSUME Init PROVE IInv
  OBVIOUS
<1>1. TypeOK
  BY CheckpointAssumption DEF Init, ReaderInit, TypeOK, NoError
<1>2. ScanInv /\ CollectInv /\ RefusalHasAReason
  BY DEF Init, ReaderInit, ScanInv, CollectInv, RefusalHasAReason
<1> QED
  BY <1>1, <1>2 DEF IInv

Errors == [kind : {"None", "NoValidSuperblock", "ChecksumMismatch", "UnsupportedFusion",
                   "CheckpointTreeUnsupported", "FieldOutOfRange", "Io"},
           checked : Nat, last_magic : Nat]

\* An error that open may return for the image it reads.
Justified(e) ==
  \/ e.kind = "Io"
  \/ ~BootstrapUsable
  \/ /\ \A s \in Slots : ~Whole(ring[s])
     /\ e.kind = "NoValidSuperblock"
     /\ e.checked = Cardinality({s \in Slots : ring[s].type # "eof"})

\* Failing with a typed and justified error keeps the inductive invariant.
LEMMA FailKeepsIInv ==
  ASSUME IInv, NEW e \in Errors, Justified(e), Fail(e), UNCHANGED image
  PROVE  IInv'
<1>1. TypeOK'
  BY DEF IInv, TypeOK, Fail, image, Errors
<1>2. ScanInv' /\ CollectInv'
  BY DEF Fail, ScanInv, CollectInv
<1>3. RefusalHasAReason'
  BY DEF Fail, image, Justified, RefusalHasAReason, BootstrapUsable, Whole
<1> QED
  BY <1>1, <1>2, <1>3 DEF IInv

\* Where open has not failed there is nothing to justify.
LEMMA NoRefusal ==
  ASSUME pc' # "failed"
  PROVE  RefusalHasAReason'
  BY DEF RefusalHasAReason

\* A step that changes no variable keeps it too.
LEMMA StutterKeepsIInv ==
  ASSUME IInv, UNCHANGED vars
  PROVE  IInv'
<1> USE DEF vars, image, reader
<1>1. TypeOK'
  BY DEF IInv, TypeOK
<1>2. BestOf(i)' = BestOf(i) /\ BestOf(DescBlocks)' = BestOf(DescBlocks)
  BY DEF BestOf, ValidSuperblock
<1>3. CollectedFrom(i)' = CollectedFrom(i) /\ CollectedFrom(DescBlocks)' = CollectedFrom(DescBlocks)
  BY DEF CollectedFrom, Listed, CappedMap, LiveMap
<1>4. ScanInv' /\ CollectInv'
  BY <1>2, <1>3 DEF IInv, ScanInv, CollectInv, BootstrapUsable, Read
<1>5. RefusalHasAReason'
  BY DEF IInv, RefusalHasAReason, BootstrapUsable, Whole
<1> QED
  BY <1>1, <1>4, <1>5 DEF IInv

\* Every step of open keeps the inductive invariant.
LEMMA NextKeepsIInv == IInv /\ [Next]_vars => IInv'
<1> SUFFICES ASSUME IInv, [Next]_vars PROVE IInv'
  OBVIOUS
<1>0. TypeOK /\ ScanInv /\ CollectInv
  BY DEF IInv
<1>1. CASE ReadBlockZero
  <2>1. zero \in Block
    BY <1>0, CheckpointAssumption DEF TypeOK
  <2>2. CASE \E e \in Errors : Justified(e) /\ Fail(e)
    BY <1>1, <2>2, FailKeepsIInv DEF ReadBlockZero
  <2>3. CASE /\ pc' = "resolve"
             /\ zero.type # "eof" /\ ParseError(zero) = NoError /\ ~zero.fusion
             /\ UNCHANGED <<i, best, checked, last_magic, mappings, superblock, error>>
    <3>1. TypeOK'
      BY <1>0, <1>1, <2>3 DEF TypeOK, ReadBlockZero, image
    <3>2. ScanInv' /\ CollectInv'
      BY <1>0, <1>1, <2>3, <2>1 DEF ScanInv, CollectInv, ReadBlockZero, image, ParseError, NoError
    <3> QED
      BY <3>1, <3>2, <2>3, NoRefusal DEF IInv
  <2>4. /\ [kind |-> "NoValidSuperblock", checked |-> 0, last_magic |-> 0] \in Errors
        /\ [kind |-> "UnsupportedFusion", checked |-> 0, last_magic |-> 0] \in Errors
        /\ ParseError(zero) \in Errors
    BY <2>1, ErrorTypes DEF Errors
  <2>5. zero.type = "eof" \/ ParseError(zero) # NoError \/ zero.fusion => \A e \in Errors : Justified(e)
    BY <2>1 DEF Justified, BootstrapUsable, ParseError, NoError
  <2> QED
    BY <1>1, <2>2, <2>3, <2>4, <2>5 DEF ReadBlockZero
<1>2. CASE BeginResolve
  <2>1. CASE \E e \in Errors : Justified(e) /\ Fail(e)
    BY <1>2, <2>1, FailKeepsIInv DEF BeginResolve
  <2>2. CASE /\ pc' = "scan"
             /\ ~zero.tree /\ BlockSizeInRange(zero.block_size)
             /\ UNCHANGED <<i, best, checked, last_magic, mappings, superblock, error>>
    <3>1. TypeOK'
      BY <1>0, <1>2, <2>2 DEF TypeOK, BeginResolve, image
    <3>2. checked' = Cardinality(Read(i)')
      <4>1. i' = 0 /\ checked' = 0 /\ 0 .. i' - 1 = {}
        BY <1>0, <1>2, <2>2 DEF BeginResolve, ScanInv
      <4> QED
        BY <4>1, FS_EmptySet DEF Read
    <3>3. BestOf(i)' /\ checked' <= i'
      BY <1>0, <1>2, <2>2 DEF BeginResolve, ScanInv, BestOf
    <3>4. BootstrapUsable'
      BY <1>0, <1>2, <2>2 DEF BeginResolve, ScanInv, BootstrapUsable, image, BlockSizeInRange
    <3>5. ScanInv' /\ CollectInv'
      BY <1>0, <1>2, <2>2, <3>2, <3>3, <3>4 DEF ScanInv, CollectInv, BeginResolve
    <3> QED
      BY <3>1, <3>5, <2>2, NoRefusal DEF IInv
  <2>3. /\ [kind |-> "CheckpointTreeUnsupported", checked |-> 0, last_magic |-> 0] \in Errors
        /\ [kind |-> "FieldOutOfRange", checked |-> 0, last_magic |-> 0] \in Errors
    BY DEF Errors
  <2>4. zero.tree \/ ~BlockSizeInRange(zero.block_size) => \A e \in Errors : Justified(e)
    BY DEF Justified, BootstrapUsable
  <2> QED
    BY <1>2, <2>1, <2>2, <2>3, <2>4 DEF BeginResolve
<1>3. CASE ScanSlot
  <2>1. i \in Slots /\ ring[i] \in Block /\ i \in Nat /\ DescBlocks \in Nat
    BY <1>0, <1>3, CheckpointAssumption DEF TypeOK, Slots, ScanSlot
  <2>2. BestOf(i)'
    BY <1>0, <1>3, ScanKeepsBest DEF ScanSlot, ScanInv, image
  <2>3. checked' \in Nat /\ checked' <= i' /\ i' \in 0 .. DescBlocks
    BY <1>0, <1>3, <2>1 DEF ScanSlot, ScanInv, TypeOK
  <2>4. last_magic' \in Nat
    BY <1>0, <1>3, <2>1 DEF ScanSlot, TypeOK, Block
  <2>5. best' \in {None} \cup [xid : Nat, slot : Slots]
    BY <1>0, <1>3, <2>1 DEF ScanSlot, TypeOK, Block
  <2>6. TypeOK'
    BY <1>0, <1>3, <2>1, <2>3, <2>4, <2>5 DEF ScanSlot, TypeOK, image
  <2>7. checked' = Cardinality(Read(i)')
    BY <1>0, <1>3, ScanKeepsCount DEF ScanSlot, ScanInv, image
  <2>8. ScanInv' /\ CollectInv'
    BY <1>0, <1>3, <2>2, <2>3, <2>7 DEF ScanSlot, ScanInv, CollectInv, image, BootstrapUsable
  <2> QED
    BY <2>6, <2>8, <1>3, NoRefusal DEF IInv, ScanSlot
<1>4. CASE EndScan
  <2>1. CASE \E e \in Errors : Justified(e) /\ Fail(e)
    BY <1>4, <2>1, FailKeepsIInv DEF EndScan
  <2>2. CASE /\ best # None
             /\ pc' = "collect"
             /\ i' = 0
             /\ UNCHANGED <<best, checked, last_magic, mappings, superblock, error>>
    <3>1. TypeOK'
      BY <1>0, <1>4, <2>2, CheckpointAssumption DEF TypeOK, EndScan, image
    <3>2. BestOf(DescBlocks)'
      BY <1>0, <1>4, <2>2 DEF EndScan, ScanInv, BestOf, ValidSuperblock, image
    <3>3. CollectedFrom(i)'
      <4>1. mappings' = << >> /\ i' = 0
        BY <1>0, <1>4, <2>2 DEF EndScan, ScanInv
      <4>2. Range(mappings') = {}
        BY <4>1 DEF Range
      <4>3. 0 .. i' - 1 = {}
        BY <4>1
      <4> QED
        BY <4>2, <4>3 DEF CollectedFrom
    <3>4. ScanInv' /\ CollectInv'
      BY <1>0, <1>4, <2>2, <3>2, <3>3 DEF EndScan, ScanInv, CollectInv, image, BootstrapUsable
    <3> QED
      BY <3>1, <3>4, <2>2, NoRefusal DEF IInv
  <2>3. [kind |-> "NoValidSuperblock", checked |-> checked, last_magic |-> last_magic] \in Errors
    BY <1>0, CheckpointAssumption DEF Errors, TypeOK
  <2>4. best = None => Justified([kind |-> "NoValidSuperblock", checked |-> checked, last_magic |-> last_magic])
    <3>1. Read(i) = {s \in Slots : ring[s].type # "eof"} /\ 0 .. i - 1 = Slots
      BY <1>4 DEF EndScan, Read, Slots
    <3> QED
      BY <1>0, <1>4, <3>1, Zenon DEF EndScan, ScanInv, BestOf, Justified, ValidSuperblock, Whole
  <2> QED
    BY <1>4, <2>1, <2>2, <2>3, <2>4 DEF EndScan
<1>5. CASE CollectSlot
  <2>1. i \in Slots /\ ring[i] \in Block /\ i \in Nat /\ DescBlocks \in Nat
    BY <1>0, <1>5, CheckpointAssumption DEF TypeOK, Slots, CollectSlot
  <2>2. CollectedFrom(i)'
    BY <1>0, <1>5, CollectKeepsMappings DEF CollectSlot, CollectInv, image
  <2>3. mappings' \in Seq([oid : Nat, paddr : Nat])
    <3>1. CappedMap(ring[i]) \in Seq([oid : Nat, paddr : Nat])
      BY <2>1, CappedMapType
    <3> QED
      BY <1>0, <1>5, <3>1, ConcatProperties DEF CollectSlot, TypeOK
  <2>4. TypeOK'
    BY <1>0, <1>5, <2>1, <2>3 DEF CollectSlot, TypeOK, image
  <2>5. BestOf(DescBlocks)'
    BY <1>0, <1>5 DEF CollectSlot, CollectInv, BestOf, ValidSuperblock, image
  <2>6. ScanInv' /\ CollectInv'
    BY <1>0, <1>5, <2>2, <2>5 DEF CollectSlot, ScanInv, CollectInv, image, BootstrapUsable
  <2> QED
    BY <2>4, <2>6, <1>5, NoRefusal DEF IInv, CollectSlot
<1>6. CASE RereadSuperblock
  <2>1. best # None /\ best.slot \in Slots /\ ring[best.slot] \in Block /\ ring[best.slot] \in Blocks
    BY <1>0, <1>6, CheckpointAssumption DEF TypeOK, RereadSuperblock, CollectInv, BestOf, Slots
  <2>2. ParseError(ring[best.slot]) = NoError
    BY <1>0, <1>6, <2>1 DEF RereadSuperblock, CollectInv, BestOf, ValidSuperblock, ParseError
  <2>3. CASE /\ pc' = "open"
             /\ superblock' = ring[best.slot]
             /\ UNCHANGED <<i, best, checked, last_magic, mappings, error>>
    <3>1. TypeOK'
      BY <1>0, <1>6, <2>1, <2>3 DEF TypeOK, RereadSuperblock, image
    <3>2. BestOf(DescBlocks)'
      BY <1>0, <1>6, <2>3 DEF RereadSuperblock, CollectInv, BestOf, ValidSuperblock, image
    <3>3. CollectedFrom(DescBlocks)'
      BY <1>0, <1>6, <2>3 DEF RereadSuperblock, CollectInv, CollectedFrom, Listed, CappedMap, LiveMap, image
    <3>4. ScanInv' /\ CollectInv'
      BY <1>0, <1>6, <2>1, <2>3, <3>2, <3>3 DEF RereadSuperblock, ScanInv, CollectInv, image
    <3> QED
      BY <3>1, <3>4, <2>3, NoRefusal DEF IInv
  <2> QED
    BY <1>6, <2>2, <2>3 DEF RereadSuperblock
<1>7. CASE ReadFails
  <2>1. [kind |-> "Io", checked |-> 0, last_magic |-> 0] \in Errors
    BY DEF Errors
  <2> QED
    BY <1>7, <2>1, FailKeepsIInv, Zenon DEF ReadFails, Justified
<1>8. CASE UNCHANGED vars
  BY <1>8, StutterKeepsIInv
<1> QED
  BY <1>1, <1>2, <1>3, <1>4, <1>5, <1>6, <1>7, <1>8 DEF Next

\* Opening keeps the inductive invariant.
LEMMA Inductive == Spec => []IInv
<1> QED
  BY InitIInv, NextKeepsIInv, PTL DEF Spec

\* open and resolve_live_checkpoint keep their state well-typed: the slot index
\* never leaves the descriptor area and the count of slots never exceeds it.
THEOREM TypeCorrect == Spec => []TypeOK
<1>1. IInv => TypeOK
  BY DEF IInv
<1> QED
  BY <1>1, Inductive, PTL

\* Whatever the ring holds, a container that open returns holds the valid
\* superblock of highest xid, the first of them in slot order.
THEOREM OpensNewest == Spec => []LiveIsNewest
<1>1. IInv => LiveIsNewest
  <2> SUFFICES ASSUME IInv, pc = "open" PROVE
        /\ superblock = ring[best.slot]
        /\ ValidSuperblock(superblock)
        /\ \A s \in Slots : ValidSuperblock(ring[s]) =>
             ring[s].xid < superblock.xid \/ (ring[s].xid = superblock.xid /\ best.slot <= s)
    BY DEF LiveIsNewest, ValidSuperblock, Whole
  <2> QED
    BY DEF IInv, CollectInv, BestOf, Slots
<1> QED
  BY <1>1, Inductive, PTL

\* Its checkpoint mappings are exactly those of the valid maps that carry the
\* live xid: nothing of a torn or superseded checkpoint.
THEOREM CollectsLive == Spec => []MappingsAreLive
<1>1. IInv => MappingsAreLive
  <2> SUFFICES ASSUME IInv, pc = "open" PROVE
        Range(mappings) = UNION {Listed(s) : s \in {t \in Slots : LiveMap(ring[t], superblock.xid)}}
    <3>1. WholeMaps(superblock.xid) = {t \in Slots : LiveMap(ring[t], superblock.xid)}
      BY DEF WholeMaps, LiveMap
    <3> QED
      BY <3>1 DEF MappingsAreLive
  <2>1. superblock.xid = best.xid /\ CollectedFrom(DescBlocks)
    BY DEF IInv, CollectInv, BestOf
  <2> QED
    BY <2>1 DEF CollectedFrom, Slots
<1> QED
  BY <1>1, Inductive, PTL

\* open refuses a container only for a reason that lies in the image or in the
\* source, and when the ring is to blame it counts exactly the slots that could be
\* read.
THEOREM RefusesForAReason == Spec => []RefusalHasAReason
<1>1. IInv => RefusalHasAReason
  BY DEF IInv
<1> QED
  BY <1>1, Inductive, PTL

----------------------------------------------------------------------------
\* The writer's ring.

\* The slot k places after slot b.
Place(b, k) == IF b + k < DescBlocks THEN b + k ELSE b + k - DescBlocks

\* Ring r holds checkpoint c, whole, in the slots that end before c.next.
CheckpointAt(r, c) ==
  /\ r[Place(c.next, DescBlocks - 1)] = SuperblockOf(c.xid)
  /\ \A k \in 1 .. c.maps : r[Place(c.next, DescBlocks - 2 - c.maps + k)] = MapOf(c.xid, k, c.maps)

\* What ring r shows of transaction x is map blocks of a checkpoint with m of them.
OnlyMaps(r, x, m) == \A s \in Slots : LiveMap(r[s], x) => \E k \in 1 .. m : r[s] = MapOf(x, k, m)

\* The first n map blocks of transaction x are in ring r from slot b on.
MapsFrom(r, b, x, m, n) == \A j \in 1 .. n : r[Place(b, j - 1)] = MapOf(x, j, m)

XidsUpTo(r, x) == \A s \in Slots : r[s].xid <= x
SuperblocksUpTo(r, x) == \A s \in Slots : ValidSuperblock(r[s]) => r[s].xid <= x

WriterTypes ==
  /\ zero = SuperblockOf(1)
  /\ ring \in [Slots -> Blocks]
  /\ attached \in BOOLEAN
  /\ wpc \in {"idle", "writing", "torn", "gone"}
  /\ txn \in [xid : 1 .. MaxXid, maps : 1 .. MaxMaps, done : 0 .. MaxMaps + 1]
  /\ head \in Slots
  /\ last \in 1 .. MaxXid
  /\ committed \in [xid : 1 .. MaxXid, maps : 1 .. MaxMaps, next : Slots]

\* The transaction being written lies behind the committed checkpoint, and none of
\* its blocks reaches round the ring to a block of that.
Writing ==
  /\ txn.xid = last /\ committed.xid < last
  /\ txn.done <= txn.maps
  /\ head = Place(committed.next, txn.done)
  /\ MapsFrom(ring, committed.next, txn.xid, txn.maps, txn.done)
  /\ OnlyMaps(ring, txn.xid, txn.maps)

\* The writer's part of the inductive invariant.
WriterInv ==
  /\ WriterTypes
  /\ XidsUpTo(ring, last) /\ committed.xid <= last
  /\ SuperblocksUpTo(ring, committed.xid)
  /\ CheckpointAt(ring, committed)
  /\ OnlyMaps(ring, committed.xid, committed.maps)
  /\ wpc = "idle" => head = committed.next
  /\ wpc \in {"writing", "torn"} => Writing

\* The reader's part.  On an attached device the scans see different rings, and all
\* that is left of them is that the chosen slot never gets older.
RereadInv ==
  /\ i \in 0 .. DescBlocks
  /\ best \in {None} \cup [xid : Nat, slot : Slots]
  /\ best # None => ring[best.slot].xid >= best.xid
  /\ pc = "collect" => best # None
  /\ RereadIsVerified

\* An image that was taken stays as it is while it is read.
FrozenInv ==
  ~attached => /\ IInv
               /\ pc # "start" => wpc = "gone"

RingInv == WriterInv /\ RereadInv /\ FrozenInv

\* The sizes of the ring.
LEMMA RingBounds ==
  /\ DescBlocks \in Nat /\ MaxMaps \in Nat /\ MaxXid \in Nat
  /\ MaxMaps >= 1 /\ MaxXid >= 1
  /\ DescBlocks >= 2 * MaxMaps + 2 /\ DescBlocks >= 4
  BY RingAssumption, CheckpointAssumption

\* Counting on from a slot stays in the ring, and gives different slots up to a
\* whole turn.
LEMMA Places ==
  ASSUME NEW b \in Slots
  PROVE  /\ \A k \in Slots : Place(b, k) \in Slots
         /\ \A j, k \in Slots : Place(b, j) = Place(b, k) => j = k
         /\ Place(b, 0) = b
  BY RingBounds DEF Place, Slots

\* The writer's head moves to the next place.
LEMMA NextPlace ==
  ASSUME NEW b \in Slots
  PROVE  (b + 1) % DescBlocks = Place(b, 1)
<1>1. CASE b + 1 < DescBlocks
  BY <1>1, RingBounds DEF Place, Slots
<1>2. CASE b + 1 = DescBlocks
  BY <1>2, RingBounds DEF Place, Slots
<1> QED
  BY <1>1, <1>2, RingBounds DEF Slots

\* Seen from the slot after its superblock, a checkpoint that began at slot b ends a
\* turn later.
LEMMA CommitPlaces ==
  ASSUME NEW b \in Slots, NEW m \in 1 .. MaxMaps
  PROVE  /\ Place(Place(b, m), 1) = Place(b, m + 1)
         /\ Place(b, m + 1) \in Slots
         /\ Place(Place(b, m + 1), DescBlocks - 1) = Place(b, m)
         /\ \A k \in 1 .. m : Place(Place(b, m + 1), DescBlocks - 2 - m + k) = Place(b, k - 1)
<1>1. m \in Nat /\ m <= MaxMaps /\ m + 1 < DescBlocks
  BY RingBounds
<1>2. b \in Nat /\ b < DescBlocks
  BY RingBounds DEF Slots
<1> QED
  BY <1>1, <1>2, RingBounds DEF Place, Slots

\* The fields of a superblock that the reader looks at.
LEMMA SuperblockFields ==
  ASSUME NEW x
  PROVE  /\ SuperblockOf(x).type = "nxsb" /\ SuperblockOf(x).xid = x /\ SuperblockOf(x).cksum
         /\ SuperblockOf(x).magic = NX_MAGIC /\ SuperblockOf(x).block_size = MinBlockSize
         /\ ~SuperblockOf(x).fusion /\ ~SuperblockOf(x).tree
         /\ ~Torn(SuperblockOf(x)).cksum /\ Torn(SuperblockOf(x)).xid = x
  BY DEF SuperblockOf, Torn, Blank

\* The fields of a map block that the reader looks at.
LEMMA MapFields ==
  ASSUME NEW x, NEW k, NEW m
  PROVE  /\ MapOf(x, k, m).type = "map" /\ MapOf(x, k, m).xid = x /\ MapOf(x, k, m).cksum
         /\ ~Torn(MapOf(x, k, m)).cksum /\ Torn(MapOf(x, k, m)).xid = x
  BY DEF MapOf, Torn, Blank

\* What the writer completes passes the reader's tests.
LEMMA WrittenIsValid ==
  ASSUME NEW x, NEW k, NEW m
  PROVE  Whole(SuperblockOf(x)) /\ ValidSuperblock(SuperblockOf(x)) /\ LiveMap(MapOf(x, k, m), x)
  BY MapFields, SuperblockFields DEF Whole, ValidSuperblock, LiveMap

\* Every block has a natural number for an xid.
LEMMA XidsAreNaturals ==
  ASSUME NEW r \in [Slots -> Blocks], NEW s \in Slots
  PROVE  r[s].xid \in Nat
  BY CheckpointAssumption DEF Block

\* The blocks of the committed checkpoint, and those of the transaction that are
\* done, are not at the writer's head.
LEMMA HeadIsApart ==
  ASSUME WriterTypes, Writing
  PROVE  /\ Place(committed.next, DescBlocks - 1) \in Slots \ {head}
         /\ \A k \in 1 .. committed.maps : Place(committed.next, DescBlocks - 2 - committed.maps + k) \in Slots \ {head}
         /\ \A j \in 1 .. txn.done : Place(committed.next, j - 1) \in Slots \ {head}
<1> DEFINE b == committed.next
           m == committed.maps
           d == txn.done
<1>1. b \in Slots /\ m \in 1 .. MaxMaps /\ d \in Nat /\ d <= MaxMaps /\ head = Place(b, d)
  BY RingBounds DEF WriterTypes, Writing
<1> HIDE DEF b, m, d
<1>2. d \in Slots /\ DescBlocks - 1 \in Slots /\ d # DescBlocks - 1
  BY <1>1, RingBounds DEF Slots
<1>3. \A k \in 1 .. m : DescBlocks - 2 - m + k \in Slots /\ DescBlocks - 2 - m + k # d
  BY <1>1, RingBounds DEF Slots
<1>4. \A j \in 1 .. d : j - 1 \in Slots /\ j - 1 # d
  BY <1>1, RingBounds DEF Slots
<1>5. \A k \in Slots : k # d => Place(b, k) \in Slots \ {head}
  BY <1>1, <1>2, Places
<1>6. /\ Place(b, DescBlocks - 1) \in Slots \ {head}
      /\ \A k \in 1 .. m : Place(b, DescBlocks - 2 - m + k) \in Slots \ {head}
      /\ \A j \in 1 .. d : Place(b, j - 1) \in Slots \ {head}
  BY <1>2, <1>3, <1>4, <1>5
<1> QED
  BY <1>6 DEF b, m, d

\* A write at the head of a block of the transaction disturbs none of these, and
\* shows nothing but map blocks of it.
LEMMA WriteKeeps ==
  ASSUME WriterInv, Writing, NEW b \in Blocks, b.xid = last,
         ring' = [ring EXCEPT ![head] = b],
         LiveMap(b, last) => \E k \in 1 .. txn.maps : b = MapOf(txn.xid, k, txn.maps)
  PROVE  /\ ring' \in [Slots -> Blocks]
         /\ ring'[head] = b
         /\ \A s \in Slots \ {head} : ring'[s] = ring[s]
         /\ XidsUpTo(ring', last)
         /\ CheckpointAt(ring', committed)
         /\ OnlyMaps(ring', committed.xid, committed.maps)
         /\ MapsFrom(ring', committed.next, txn.xid, txn.maps, txn.done)
         /\ OnlyMaps(ring', txn.xid, txn.maps)
<1>0. WriterTypes /\ last \in Nat /\ committed.xid \in Nat
  BY DEF WriterInv, WriterTypes
<1>1. /\ ring' \in [Slots -> Blocks]
      /\ ring'[head] = b
      /\ \A s \in Slots \ {head} : ring'[s] = ring[s]
  BY <1>0 DEF WriterTypes
<1>2. XidsUpTo(ring', last)
  BY <1>0, <1>1 DEF WriterInv, XidsUpTo
<1>3. CheckpointAt(ring', committed)
  BY <1>0, <1>1, HeadIsApart DEF WriterInv, CheckpointAt
<1>4. MapsFrom(ring', committed.next, txn.xid, txn.maps, txn.done)
  BY <1>0, <1>1, HeadIsApart DEF Writing, MapsFrom
<1>5. OnlyMaps(ring', committed.xid, committed.maps)
  <2>1. ~LiveMap(b, committed.xid)
    BY <1>0 DEF Writing, LiveMap
  <2> QED
    BY <1>1, <2>1 DEF WriterInv, OnlyMaps
<1>6. OnlyMaps(ring', txn.xid, txn.maps)
  BY <1>1 DEF Writing, OnlyMaps
<1> QED
  BY <1>1, <1>2, <1>3, <1>4, <1>5, <1>6

\* The block that is written next is one of those the writer ever completes.
LEMMA NewBlockWritten ==
  ASSUME WriterTypes, Writing
  PROVE  /\ NewBlock \in Written /\ NewBlock \in Blocks /\ Torn(NewBlock) \in Blocks
         /\ NewBlock.xid = last /\ Torn(NewBlock).xid = last /\ ~Torn(NewBlock).cksum
<1>1. txn.xid \in 1 .. MaxXid /\ txn.maps \in 1 .. MaxMaps /\ txn.done \in Nat /\ txn.xid = last
  BY RingBounds DEF WriterTypes, Writing
<1>2. CASE txn.done < txn.maps
  <2>1. NewBlock = MapOf(txn.xid, txn.done + 1, txn.maps) /\ txn.done + 1 \in 1 .. MaxMaps
    BY <1>1, <1>2, RingBounds DEF NewBlock
  <2>2. NewBlock \in Written
    BY <1>1, <2>1 DEF Written
  <2>3. NewBlock.xid = txn.xid /\ Torn(NewBlock).xid = txn.xid /\ ~Torn(NewBlock).cksum
    BY <2>1, MapFields
  <2> QED
    BY <1>1, <2>2, <2>3, RingAssumption
<1>3. CASE ~(txn.done < txn.maps)
  <2>1. NewBlock = SuperblockOf(txn.xid)
    BY <1>3 DEF NewBlock
  <2>2. NewBlock \in Written
    BY <1>1, <2>1 DEF Written
  <2>3. NewBlock.xid = txn.xid /\ Torn(NewBlock).xid = txn.xid /\ ~Torn(NewBlock).cksum
    BY <2>1, MapFields, SuperblockFields
  <2> QED
    BY <1>1, <2>2, <2>3, RingAssumption
<1> QED
  BY <1>2, <1>3

\* A transaction begins with nothing of it in the ring.
LEMMA BeginKeepsWriter ==
  ASSUME WriterInv, NEW maps \in 1 .. MaxMaps, BeginTransaction(maps)
  PROVE  WriterInv'
<1>0. WriterTypes /\ last \in Nat /\ last + 1 \in 1 .. MaxXid /\ committed.xid \in Nat /\ last' = last + 1
  BY RingBounds DEF WriterInv, WriterTypes, BeginTransaction
<1>1. /\ zero' = zero /\ ring' = ring /\ attached' = attached /\ head' = head /\ committed' = committed
      /\ wpc' = "writing" /\ txn' = [xid |-> last + 1, maps |-> maps, done |-> 0]
  BY DEF BeginTransaction, vars, image
<1>2. WriterTypes'
  BY <1>0, <1>1, RingBounds DEF WriterTypes
<1>3. \A s \in Slots : ring[s].xid \in Nat /\ ring[s].xid <= last
  BY <1>0, XidsAreNaturals DEF WriterInv, XidsUpTo, WriterTypes
<1>4. XidsUpTo(ring', last')
  BY <1>0, <1>1, <1>3 DEF XidsUpTo
<1>5. OnlyMaps(ring', txn'.xid, txn'.maps)
  BY <1>0, <1>1, <1>3 DEF OnlyMaps, LiveMap
<1>6. Writing'
  <2>1. head' = Place(committed'.next, txn'.done)
    BY <1>0, <1>1, Places DEF WriterInv, WriterTypes, BeginTransaction
  <2>2. MapsFrom(ring', committed'.next, txn'.xid, txn'.maps, txn'.done)
    BY <1>1 DEF MapsFrom
  <2>3. txn'.xid = last' /\ committed'.xid < last' /\ txn'.done <= txn'.maps
    BY <1>0, <1>1 DEF WriterInv, WriterTypes
  <2> QED
    BY <1>5, <2>1, <2>2, <2>3 DEF Writing
<1>7. committed'.xid <= last'
  <2>1. committed.xid <= last
    BY DEF WriterInv
  <2> QED
    BY ONLY <1>0, <1>1, <2>1
<1> QED
  BY <1>1, <1>2, <1>4, <1>6, <1>7 DEF WriterInv

\* A block half written is no superblock and no map to the reader.
LEMMA BeginWriteKeepsWriter ==
  ASSUME WriterInv, BeginWrite
  PROVE  WriterInv'
<1>0. WriterTypes /\ Writing
  BY DEF WriterInv, BeginWrite
<1>1. /\ ring' = [ring EXCEPT ![head] = Torn(NewBlock)] /\ wpc' = "torn"
      /\ zero' = zero /\ attached' = attached /\ txn' = txn /\ head' = head /\ last' = last /\ committed' = committed
  BY DEF BeginWrite
<1>2. Torn(NewBlock) \in Blocks /\ Torn(NewBlock).xid = last /\ ~Torn(NewBlock).cksum
  BY <1>0, NewBlockWritten
<1>3. /\ ring' \in [Slots -> Blocks]
      /\ ring'[head] = Torn(NewBlock)
      /\ \A s \in Slots \ {head} : ring'[s] = ring[s]
      /\ XidsUpTo(ring', last)
      /\ CheckpointAt(ring', committed)
      /\ OnlyMaps(ring', committed.xid, committed.maps)
      /\ MapsFrom(ring', committed.next, txn.xid, txn.maps, txn.done)
      /\ OnlyMaps(ring', txn.xid, txn.maps)
  <2>1. ~LiveMap(Torn(NewBlock), last)
    BY <1>2 DEF LiveMap
  <2> QED
    BY <1>0, <1>1, <1>2, <2>1, WriteKeeps, Zenon
<1>4. SuperblocksUpTo(ring', committed.xid)
  BY <1>2, <1>3 DEF WriterInv, SuperblocksUpTo, ValidSuperblock
<1>5. WriterTypes'
  BY <1>0, <1>1, <1>3 DEF WriterTypes
<1>6. Writing'
  BY <1>0, <1>1, <1>3 DEF Writing
<1> QED
  BY <1>1, <1>3, <1>4, <1>5, <1>6 DEF WriterInv

\* A map block that is complete is one more map of the transaction.
LEMMA MapWritten ==
  ASSUME WriterInv, EndWrite, txn.done < txn.maps
  PROVE  WriterInv'
<1>0. WriterTypes /\ Writing
  BY DEF WriterInv, EndWrite
<1> DEFINE n == txn.done + 1
           b == MapOf(txn.xid, n, txn.maps)
<1>1. /\ ring' = [ring EXCEPT ![head] = b] /\ wpc' = "writing" /\ head' = (head + 1) % DescBlocks
      /\ txn' = [txn EXCEPT !.done = n]
      /\ zero' = zero /\ attached' = attached /\ last' = last /\ committed' = committed
  BY <1>0 DEF EndWrite, NewBlock, WriterTypes
<1>2. txn.done \in Nat /\ txn.maps \in 1 .. MaxMaps /\ n \in 1 .. txn.maps /\ n \in 1 .. MaxMaps
  BY <1>0, RingBounds DEF WriterTypes
<1>3. b \in Blocks /\ b.xid = last /\ b.type = "map" /\ b.cksum
  BY <1>0, NewBlockWritten, MapFields, SuperblockFields, Zenon DEF NewBlock, Writing
<1>4. txn'.xid = txn.xid /\ txn'.maps = txn.maps /\ txn'.done = n
  BY <1>0, <1>1 DEF WriterTypes
<1> HIDE DEF b, n
<1>5. /\ ring' \in [Slots -> Blocks]
      /\ ring'[head] = b
      /\ \A s \in Slots \ {head} : ring'[s] = ring[s]
      /\ XidsUpTo(ring', last)
      /\ CheckpointAt(ring', committed)
      /\ OnlyMaps(ring', committed.xid, committed.maps)
      /\ MapsFrom(ring', committed.next, txn.xid, txn.maps, txn.done)
      /\ OnlyMaps(ring', txn.xid, txn.maps)
  <2>1. \E k \in 1 .. txn.maps : b = MapOf(txn.xid, k, txn.maps)
    BY <1>2 DEF b
  <2> QED
    BY <1>0, <1>1, <1>3, <2>1, WriteKeeps, Zenon
<1>6. SuperblocksUpTo(ring', committed.xid)
  BY <1>3, <1>5 DEF WriterInv, SuperblocksUpTo, ValidSuperblock
<1>7. head' = Place(committed.next, n) /\ head' \in Slots
  <2>1. head = Place(committed.next, txn.done) /\ committed.next \in Slots /\ head \in Slots
    BY <1>0 DEF Writing, WriterTypes
  <2>2. Place(Place(committed.next, txn.done), 1) = Place(committed.next, n) /\ Place(committed.next, n) \in Slots
    BY <1>2, <2>1, RingBounds DEF Place, Slots, n
  <2> QED
    BY <1>1, <2>1, <2>2, NextPlace
<1>8. MapsFrom(ring', committed.next, txn.xid, txn.maps, n)
  <2>1. \A j \in 1 .. n : j \in 1 .. txn.done \/ j = n
    BY <1>2 DEF n
  <2>2. ring'[Place(committed.next, n - 1)] = b
    BY <1>0, <1>2, <1>5 DEF Writing, n
  <2> QED
    BY <1>5, <2>1, <2>2 DEF MapsFrom, b
<1>9. WriterTypes'
  <2>1. txn' \in [xid : 1 .. MaxXid, maps : 1 .. MaxMaps, done : 0 .. MaxMaps + 1]
    BY <1>0, <1>1, <1>2, RingBounds DEF WriterTypes
  <2> QED
    BY <1>0, <1>1, <1>5, <1>7, <2>1 DEF WriterTypes
<1>10. Writing'
  BY <1>0, <1>1, <1>2, <1>4, <1>5, <1>7, <1>8 DEF Writing
<1> QED
  BY <1>1, <1>5, <1>6, <1>9, <1>10 DEF WriterInv

\* A superblock that is complete commits its checkpoint, all of whose maps are in
\* the slots before it.
LEMMA SuperblockWritten ==
  ASSUME WriterInv, EndWrite, txn.done = txn.maps
  PROVE  WriterInv'
<1>0. WriterTypes /\ Writing
  BY DEF WriterInv, EndWrite
<1> DEFINE b == SuperblockOf(txn.xid)
           m == txn.maps
           c == committed.next
<1>1. txn.maps \in Nat /\ m \in 1 .. MaxMaps /\ c \in Slots /\ head \in Slots /\ head = Place(c, m) /\ txn.xid = last
  BY <1>0, RingBounds DEF WriterTypes, Writing
<1>2. /\ ring' = [ring EXCEPT ![head] = b] /\ wpc' = "idle" /\ head' = (head + 1) % DescBlocks
      /\ txn' = [txn EXCEPT !.done = txn.done + 1]
      /\ committed' = [xid |-> txn.xid, maps |-> txn.maps, next |-> (head + 1) % DescBlocks]
      /\ zero' = zero /\ attached' = attached /\ last' = last
  <2>1. ~(txn.done < txn.maps)
    BY <1>1
  <2>2. NewBlock = b
    BY <2>1 DEF NewBlock
  <2> QED
    BY <2>1, <2>2 DEF EndWrite
<1>3. b \in Blocks /\ b.xid = last /\ b.type = "nxsb"
  <2>1. NewBlock = b
    BY <1>1 DEF NewBlock
  <2> QED
    BY <1>0, <2>1, NewBlockWritten, MapFields, SuperblockFields
<1> HIDE DEF b
<1>4. /\ ring' \in [Slots -> Blocks]
      /\ ring'[head] = b
      /\ XidsUpTo(ring', last)
      /\ MapsFrom(ring', c, txn.xid, txn.maps, txn.maps)
      /\ OnlyMaps(ring', txn.xid, txn.maps)
  <2>1. ~LiveMap(b, last)
    BY <1>3 DEF LiveMap
  <2> QED
    BY <1>0, <1>2, <1>3, <2>1, WriteKeeps, Zenon
<1>5. head' = Place(c, m + 1) /\ committed' = [xid |-> last, maps |-> m, next |-> Place(c, m + 1)] /\ Place(c, m + 1) \in Slots
  BY <1>1, <1>2, CommitPlaces, NextPlace
<1>6. CheckpointAt(ring', committed')
  <2> DEFINE q == Place(c, m + 1)
  <2>1. Place(q, DescBlocks - 1) = head /\ \A k \in 1 .. m : Place(q, DescBlocks - 2 - m + k) = Place(c, k - 1)
    BY <1>1, CommitPlaces
  <2>2. \A k \in 1 .. m : ring'[Place(c, k - 1)] = MapOf(last, k, m)
    BY <1>1, <1>4 DEF MapsFrom
  <2>3. committed'.next = q /\ committed'.maps = m /\ committed'.xid = last
    BY <1>5
  <2> HIDE DEF q, m, c
  <2> QED
    BY <1>1, <1>4, <2>1, <2>2, <2>3 DEF CheckpointAt, b
<1>7. SuperblocksUpTo(ring', last)
  BY <1>4 DEF SuperblocksUpTo, XidsUpTo
<1>8. WriterTypes'
  <2>1. txn' \in [xid : 1 .. MaxXid, maps : 1 .. MaxMaps, done : 0 .. MaxMaps + 1]
    BY <1>0, <1>1, <1>2, RingBounds DEF WriterTypes
  <2> QED
    BY <1>0, <1>1, <1>2, <1>4, <1>5, <2>1 DEF WriterTypes
<1>9. committed'.xid = last /\ committed'.maps = txn.maps /\ committed'.next = head'
  BY <1>5
<1> QED
  BY <1>0, <1>1, <1>2, <1>4, <1>6, <1>7, <1>8, <1>9 DEF WriterInv, WriterTypes

\* What the invariant says of the writer and the image does not depend on the reader.
LEMMA UnchangedKeepsWriter ==
  ASSUME WriterInv, UNCHANGED <<image, writer>>
  PROVE  WriterInv'
<1>1. /\ zero' = zero /\ ring' = ring /\ attached' = attached /\ wpc' = wpc /\ txn' = txn /\ head' = head
      /\ last' = last /\ committed' = committed
  BY DEF image, writer
<1> QED
  BY <1>1 DEF WriterInv, WriterTypes, Writing

\* A crash gives up the transaction and keeps the committed checkpoint.
LEMMA CrashKeepsWriter ==
  ASSUME WriterInv, CrashAndResume \/ PowerOff
  PROVE  WriterInv'
<1>1. /\ zero' = zero /\ ring' = ring /\ attached' = attached /\ txn' = txn
      /\ last' = last /\ committed' = committed
  BY DEF CrashAndResume, PowerOff, vars, image
<1>2. \/ wpc' = "idle" /\ head' = committed.next
      \/ wpc' = "gone" /\ head' = head
  BY DEF CrashAndResume, PowerOff
<1>3. WriterTypes'
  BY <1>1, <1>2 DEF WriterInv, WriterTypes
<1> QED
  BY <1>1, <1>2, <1>3 DEF WriterInv

\* Every step of the writer keeps its invariant.
LEMMA WriterKeepsWriter ==
  ASSUME WriterInv, Writer
  PROVE  WriterInv'
<1>1. ASSUME EndWrite PROVE WriterInv'
  <2>1. txn.done < txn.maps \/ txn.done = txn.maps
    BY <1>1 DEF EndWrite
  <2> QED
    BY <1>1, <2>1, MapWritten, SuperblockWritten
<1> QED
  BY <1>1, BeginKeepsWriter, BeginWriteKeepsWriter, CrashKeepsWriter DEF Writer

\* No step of the reader changes the image.
LEMMA ReaderKeepsImage ==
  ASSUME Next
  PROVE  UNCHANGED image
  BY Zenon DEF Next, ReadBlockZero, BeginResolve, ScanSlot, EndScan, CollectSlot, RereadSuperblock, ReadFails

\* A slot is only ever rewritten by a block of a later transaction.
LEMMA SlotsNeverAge ==
  ASSUME WriterInv, Writer, NEW s \in Slots
  PROVE  ring'[s].xid >= ring[s].xid
<1>1. ring[s].xid \in Nat /\ ring[s].xid <= last /\ last \in Nat
  BY XidsAreNaturals DEF WriterInv, WriterTypes, XidsUpTo
<1>2. CASE BeginWrite \/ EndWrite
  <2>1. WriterTypes /\ Writing
    BY <1>2 DEF WriterInv, BeginWrite, EndWrite
  <2>2. ring'[s] \in {ring[s], NewBlock, Torn(NewBlock)}
    BY <1>2, <2>1 DEF BeginWrite, EndWrite, WriterTypes
  <2>3. NewBlock.xid = last /\ Torn(NewBlock).xid = last
    BY <2>1, NewBlockWritten
  <2> QED
    BY <1>1, <2>2, <2>3
<1>3. CASE ~(BeginWrite \/ EndWrite)
  <2>1. ring' = ring
    BY <1>3 DEF Writer, BeginTransaction, CrashAndResume, PowerOff, vars, image
  <2> QED
    BY <1>1, <2>1
<1> QED
  BY <1>2, <1>3

\* What the reader has is untouched by the writer.
LEMMA WriterKeepsReader ==
  ASSUME Writer
  PROVE  /\ zero' = zero /\ attached' = attached
         /\ pc' = pc /\ i' = i /\ best' = best /\ checked' = checked /\ last_magic' = last_magic
         /\ mappings' = mappings /\ superblock' = superblock /\ error' = error
         /\ attached \/ pc = "start"
  BY DEF Writer, BeginTransaction, BeginWrite, EndWrite, CrashAndResume, PowerOff, Running, vars, image, reader

\* A writer that rewrites the slot the scan chose makes it newer.
LEMMA WriterKeepsReread ==
  ASSUME WriterInv, RereadInv, Writer
  PROVE  RereadInv'
<1>1. best # None => best.slot \in Slots /\ best.xid \in Nat
  BY DEF RereadInv
<1>2. best # None => ring'[best.slot].xid >= best.xid
  <2> SUFFICES ASSUME best # None PROVE ring'[best.slot].xid >= best.xid
    OBVIOUS
  <2>1. ring'[best.slot].xid >= ring[best.slot].xid /\ ring[best.slot].xid >= best.xid
    BY <1>1, SlotsNeverAge DEF RereadInv
  <2>2. ring \in [Slots -> Blocks] /\ ring' \in [Slots -> Blocks]
    BY WriterKeepsWriter DEF WriterInv, WriterTypes
  <2>3. ring'[best.slot].xid \in Nat /\ ring[best.slot].xid \in Nat
    BY <1>1, <2>2, XidsAreNaturals
  <2> QED
    BY <1>1, <2>1, <2>3
<1> QED
  BY <1>2, WriterKeepsReader DEF RereadInv, RereadIsVerified

\* The reader keeps its part, whatever the ring was at its earlier steps: the
\* re-read trusts nothing but the block it gets.
LEMMA ReaderKeepsReread ==
  ASSUME WriterInv, RereadInv, Next
  PROVE  RereadInv'
<1>0. ring' = ring /\ DescBlocks \in Nat /\ i \in 0 .. DescBlocks
  BY ReaderKeepsImage, CheckpointAssumption DEF image, RereadInv
<1>1. \A s \in Slots : ring[s].xid \in Nat
  BY XidsAreNaturals DEF WriterInv, WriterTypes
<1>2. CASE \E e : Fail(e)
  BY <1>0, <1>2 DEF Fail, RereadInv, RereadIsVerified
<1>3. CASE ScanSlot
  <2>1. i \in Slots /\ i' \in 0 .. DescBlocks /\ pc' = "scan"
    BY <1>0, <1>3 DEF ScanSlot, Slots
  <2>2. CASE best' = best
    BY <1>0, <2>1, <2>2 DEF RereadInv, RereadIsVerified
  <2>3. CASE best' = [xid |-> ring[i].xid, slot |-> i]
    BY <1>0, <1>1, <2>1, <2>3 DEF RereadInv, RereadIsVerified
  <2> QED
    BY <1>3, <2>2, <2>3 DEF ScanSlot
<1>4. CASE RereadSuperblock /\ ~(\E e : Fail(e))
  <2>1. /\ ParseError(ring[best.slot]) = NoError /\ pc' = "open" /\ superblock' = ring[best.slot]
        /\ i' = i /\ best' = best /\ best # None
    BY <1>4 DEF RereadSuperblock, RereadInv
  <2>2. ring[best.slot].magic = NX_MAGIC /\ ring[best.slot].cksum
    BY <2>1 DEF ParseError, NoError
  <2> QED
    BY <1>0, <2>1, <2>2 DEF RereadInv, RereadIsVerified
<1>5. CASE /\ ~(\E e : Fail(e))
           /\ ReadBlockZero \/ BeginResolve \/ EndScan \/ CollectSlot \/ ReadFails
  <2>1. /\ pc' \in {"resolve", "scan", "collect"} /\ best' = best
        /\ i' \in {i, 0, i + 1} /\ (i' = i + 1 => i < DescBlocks)
        /\ pc' = "collect" => best # None
    BY <1>0, <1>5 DEF ReadBlockZero, BeginResolve, EndScan, CollectSlot, ReadFails, RereadInv
  <2> QED
    BY <1>0, <2>1 DEF RereadInv, RereadIsVerified
<1> QED
  BY <1>2, <1>3, <1>4, <1>5 DEF Next

\* Nothing of open depends on the ring before it starts.
LEMMA StartKeepsIInv ==
  ASSUME IInv, pc = "start", UNCHANGED <<zero, reader>>, ring' \in [Slots -> Blocks]
  PROVE  IInv'
<1>1. TypeOK'
  BY DEF IInv, TypeOK, reader
<1>2. pc' = "start" /\ mappings' = mappings /\ i' = i /\ best' = best /\ checked' = checked
  BY DEF reader
<1>3. ScanInv' /\ CollectInv' /\ RefusalHasAReason'
  BY <1>2 DEF IInv, ScanInv, CollectInv, RefusalHasAReason
<1> QED
  BY <1>1, <1>3 DEF IInv

\* Every step of either keeps the inductive invariant.
LEMMA RingNextKeeps == RingInv /\ [RingNext]_ringvars => RingInv'
<1> SUFFICES ASSUME RingInv, [RingNext]_ringvars PROVE RingInv'
  OBVIOUS
<1>0. WriterInv /\ RereadInv /\ FrozenInv
  BY DEF RingInv
<1>1. CASE Writer
  <2>1. WriterInv' /\ RereadInv'
    BY <1>0, <1>1, WriterKeepsWriter, WriterKeepsReread
  <2>2. ASSUME ~attached PROVE pc' = "start" /\ IInv'
    <3>1. ring' \in [Slots -> Blocks]
      BY <2>1 DEF WriterInv, WriterTypes
    <3>2. pc = "start" /\ UNCHANGED <<zero, reader>>
      BY <1>1, <2>2, WriterKeepsReader DEF reader
    <3> QED
      BY <1>0, <2>2, <3>1, <3>2, StartKeepsIInv DEF FrozenInv, reader
  <2>3. FrozenInv'
    BY <1>1, <2>2, WriterKeepsReader DEF FrozenInv
  <2> QED
    BY <2>1, <2>3 DEF RingInv
<1>2. CASE Reader
  <2>1. Next /\ UNCHANGED writer /\ UNCHANGED image
    BY <1>2, ReaderKeepsImage DEF Reader
  <2>2. WriterInv' /\ RereadInv'
    BY <1>0, <2>1, UnchangedKeepsWriter, ReaderKeepsReread
  <2>3. FrozenInv'
    <3>1. attached' = attached /\ wpc' = wpc
      BY <2>1 DEF writer
    <3>2. ~attached => IInv' /\ wpc = "gone"
      BY <1>0, <1>2, <2>1, NextKeepsIInv DEF FrozenInv, Reader
    <3> QED
      BY <3>1, <3>2 DEF FrozenInv
  <2> QED
    BY <2>2, <2>3 DEF RingInv
<1>3. CASE UNCHANGED ringvars
  <2>1. UNCHANGED vars /\ UNCHANGED image /\ UNCHANGED writer
    BY <1>3 DEF ringvars, vars
  <2>2. WriterInv'
    BY <1>0, <2>1, UnchangedKeepsWriter
  <2>3. ring' = ring /\ pc' = pc /\ i' = i /\ best' = best /\ superblock' = superblock /\ attached' = attached /\ wpc' = wpc
    BY <2>1 DEF vars, image, reader, writer
  <2>4. RereadInv'
    BY <1>0, <2>3 DEF RereadInv, RereadIsVerified
  <2>5. FrozenInv'
    BY <1>0, <2>1, <2>3, StutterKeepsIInv DEF FrozenInv
  <2> QED
    BY <2>2, <2>4, <2>5 DEF RingInv
<1> QED
  BY <1>1, <1>2, <1>3 DEF RingNext

\* A formatted container satisfies the invariant.
LEMMA RingInitInv == RingInit => RingInv
<1> SUFFICES ASSUME RingInit PROVE RingInv
  OBVIOUS
<1>0. 2 % DescBlocks = 2 /\ 2 \in Slots /\ 1 \in 1 .. MaxXid /\ 1 \in 1 .. MaxMaps /\ 0 \in Slots /\ 1 \in Slots
  BY RingBounds DEF Slots
<1>1. /\ ring[0] = MapOf(1, 1, 1) /\ ring[1] = SuperblockOf(1)
      /\ \A s \in Slots : s # 0 /\ s # 1 => ring[s] = Blank
  BY <1>0 DEF RingInit
<1>2. Blank.type = "other" /\ Blank.xid = 0
  BY DEF Blank
<1>3. ring \in [Slots -> Blocks]
  <2>1. MapOf(1, 1, 1) \in Written /\ SuperblockOf(1) \in Written /\ Blank \in Written
    BY <1>0 DEF Written
  <2>2. MapOf(1, 1, 1) \in Blocks /\ SuperblockOf(1) \in Blocks /\ Blank \in Blocks
    BY <2>1, RingAssumption
  <2> QED
    BY <2>2 DEF RingInit
<1>4. WriterTypes
  BY <1>0, <1>3, RingBounds, SMTT(30) DEF RingInit, WriterTypes
<1>5. committed = [xid |-> 1, maps |-> 1, next |-> 2] /\ last = 1 /\ head = 2 /\ wpc = "idle"
  BY <1>0 DEF RingInit
<1>6. XidsUpTo(ring, last) /\ SuperblocksUpTo(ring, committed.xid)
  BY <1>1, <1>2, <1>5, MapFields, SuperblockFields DEF XidsUpTo, SuperblocksUpTo
<1>7. CheckpointAt(ring, committed)
  <2>1. Place(2, DescBlocks - 1) = 1 /\ Place(2, DescBlocks - 2) = 0
    BY RingBounds DEF Place
  <2>2. \A k \in 1 .. 1 : k = 1 /\ DescBlocks - 2 - 1 + k = DescBlocks - 2
    BY RingBounds
  <2> QED
    BY <1>1, <1>5, <2>1, <2>2 DEF CheckpointAt
<1>8. OnlyMaps(ring, committed.xid, committed.maps)
  BY <1>1, <1>2, <1>5, SuperblockFields DEF OnlyMaps, LiveMap
<1>9. WriterInv
  BY <1>4, <1>5, <1>6, <1>7, <1>8 DEF WriterInv
<1>10. RereadInv
  BY CheckpointAssumption DEF RingInit, ReaderInit, RereadInv, RereadIsVerified
<1>11. FrozenInv
  <2>1. TypeOK
    BY <1>3, CheckpointAssumption, RingAssumption DEF RingInit, ReaderInit, TypeOK, NoError
  <2>2. ScanInv /\ CollectInv /\ RefusalHasAReason
    BY DEF RingInit, ReaderInit, ScanInv, CollectInv, RefusalHasAReason
  <2> QED
    BY <2>1, <2>2 DEF FrozenInv, IInv, RingInit, ReaderInit
<1> QED
  BY <1>9, <1>10, <1>11 DEF RingInv

\* The writer and the reader keep the inductive invariant.
LEMMA RingInductive == RingSpec => []RingInv
<1> QED
  BY RingInitInv, RingNextKeeps, PTL DEF RingSpec

\* In a ring the writer left, the newest valid superblock is the committed one.
LEMMA NewestIsCommitted ==
  ASSUME WriterInv, IInv, pc = "open"
  PROVE  superblock.xid = committed.xid /\ best.xid = committed.xid
<1>1. best # None /\ BestOf(DescBlocks) /\ superblock = ring[best.slot]
  BY DEF IInv, CollectInv
<1>2. committed.xid \in Nat /\ committed.next \in Slots /\ DescBlocks - 1 \in Slots
  BY RingBounds DEF WriterInv, WriterTypes, Slots
<1> DEFINE s == Place(committed.next, DescBlocks - 1)
<1>3. s \in 0 .. DescBlocks - 1 /\ ring[s] = SuperblockOf(committed.xid)
  BY <1>2, Places, Zenon DEF WriterInv, CheckpointAt, Slots
<1> HIDE DEF s
<1>4. ValidSuperblock(ring[s]) /\ ring[s].xid = committed.xid
  BY <1>3, SuperblockFields, WrittenIsValid, Zenon
<1>5. best.slot \in Slots /\ ValidSuperblock(ring[best.slot]) /\ best.xid = ring[best.slot].xid
  BY <1>1 DEF BestOf, Slots
<1>6. ring[best.slot].xid <= committed.xid /\ ring[best.slot].xid \in Nat
  BY <1>5, XidsAreNaturals DEF WriterInv, SuperblocksUpTo, WriterTypes
<1>7. committed.xid <= best.xid
  <2>1. committed.xid < best.xid \/ committed.xid = best.xid
    BY <1>1, <1>3, <1>4, Zenon DEF BestOf
  <2>2. best.xid \in Nat
    BY <1>5, <1>6, Zenon
  <2> QED
    BY <1>2, <2>1, <2>2
<1> QED
  BY <1>1, <1>2, <1>5, <1>6, <1>7

\* For every size of ring, number of maps and history of transactions, crashes and
\* torn writes: the image opens at the last committed checkpoint, and nothing but a
\* failing source makes open refuse it.
THEOREM OpensCommitted == RingSpec => []OpensLastCommitted
<1>1. RingInv => OpensLastCommitted
  <2> SUFFICES ASSUME RingInv, ~attached
               PROVE  /\ pc = "open" => superblock.xid = committed.xid
                      /\ pc = "failed" => error.kind = "Io"
    BY DEF OpensLastCommitted
  <2>1. WriterInv /\ IInv
    BY DEF RingInv, FrozenInv
  <2>2. pc = "open" => superblock.xid = committed.xid
    BY <2>1, NewestIsCommitted
  <2>3. BootstrapUsable
    <3>1. zero = SuperblockOf(1)
      BY <2>1 DEF WriterInv, WriterTypes
    <3>2. BlockSizeInRange(MinBlockSize)
      BY RingAssumption, CheckpointAssumption DEF BlockSizeInRange
    <3> QED
      BY <3>1, <3>2, SuperblockFields DEF BootstrapUsable
  <2>4. \E s \in Slots : Whole(ring[s])
    <3>1. committed.next \in Slots /\ DescBlocks - 1 \in Slots
      BY <2>1, RingBounds DEF WriterInv, WriterTypes, Slots
    <3>2. Place(committed.next, DescBlocks - 1) \in Slots
      BY <3>1, Places
    <3>3. Whole(ring[Place(committed.next, DescBlocks - 1)])
      BY <2>1, WrittenIsValid, Zenon DEF WriterInv, CheckpointAt
    <3> QED
      BY <3>2, <3>3
  <2>5. pc = "failed" => error.kind = "Io"
    BY <2>1, <2>3, <2>4 DEF IInv, RefusalHasAReason
  <2> QED
    BY <2>2, <2>5
<1> QED
  BY <1>1, RingInductive, PTL

\* On an attached device, too, what open keeps after its re-read is verified and no
\* older than what its scan chose.
THEOREM RereadsVerified == RingSpec => []RereadIsVerified
<1>1. RingInv => RereadIsVerified
  BY DEF RingInv, RereadInv
<1> QED
  BY <1>1, RingInductive, PTL

\* A set of naturals that is not empty has a least element.
LEMMA LeastElement ==
  ASSUME NEW T \in SUBSET Nat, T # {}
  PROVE  \E x \in T : \A y \in T : x <= y
<1> DEFINE R == OpToRel(<, Nat)
<1>1. IsWellFoundedOn(R, Nat)
  BY NatLessThanWellFounded, Zenon
<1>2. \A x, y \in Nat : x < y => <<x, y>> \in R
  BY DEF OpToRel
<1> HIDE DEF R
<1>3. PICK x \in T : \A y \in T : ~(<<y, x>> \in R)
  BY <1>1, WFMin, Zenon
<1>4. x \in Nat /\ \A y \in T : y \in Nat /\ ~(y < x)
  BY <1>2, <1>3, Zenon
<1> QED
  BY <1>4

\* The one mapping of map block k of checkpoint x.
Entry(x, k, m) == [oid |-> IF k = m THEN Spaceman ELSE Spaceman + k, paddr |-> PaddrAt(x, k)]

\* The last map block's is the spaceman's.
LEMMA EntryFields ==
  ASSUME NEW x, NEW m
  PROVE  Entry(x, m, m).oid = Spaceman /\ Entry(x, m, m).paddr = PaddrAt(x, m)
  BY DEF Entry

\* The reader takes the one mapping of a map block.
LEMMA MapLists ==
  ASSUME NEW x, NEW k, NEW m
  PROVE  Range(CappedMap(MapOf(x, k, m))) = {Entry(x, k, m)}
<1> DEFINE e == Entry(x, k, m)
<1>1. MapOf(x, k, m).map = << e >>
  BY DEF MapOf, Entry, Blank
<1> HIDE DEF e
<1>2. Len(<< e >>) = 1 /\ Minimum(1, MaxCpmCount) = 1
  BY RingAssumption, CheckpointAssumption DEF Minimum
<1>3. CappedMap(MapOf(x, k, m)) = SubSeq(<< e >>, 1, 1)
  BY <1>1, <1>2 DEF CappedMap
<1>4. SubSeq(<< e >>, 1, 1) = << e >>
  <2>1. << e >> \in Seq({e})
    OBVIOUS
  <2>2. SubSeq(<< e >>, 1, Len(<< e >>)) = << e >>
    BY <2>1, SubSeqFull, Zenon
  <2> QED
    BY <1>2, <2>2
<1>5. Range(<< e >>) = {e}
  BY DEF Range
<1> QED
  BY <1>3, <1>4, <1>5, Zenon DEF e

\* The mappings of an open container are those of the committed checkpoint, and the
\* spaceman's is among them.
LEMMA MappingsOfCommitted ==
  ASSUME WriterInv, IInv, pc = "open"
  PROVE  /\ \A e \in Range(mappings) : \E k \in 1 .. committed.maps : e = Entry(committed.xid, k, committed.maps)
         /\ Entry(committed.xid, committed.maps, committed.maps) \in Range(mappings)
<1> DEFINE x == committed.xid
           m == committed.maps
<1>1. Range(mappings) = UNION {Listed(s) : s \in {t \in Slots : LiveMap(ring[t], x)}}
  <2>1. CollectedFrom(DescBlocks) /\ best.xid = x
    BY NewestIsCommitted DEF IInv, CollectInv
  <2> QED
    BY <2>1 DEF CollectedFrom, Slots
<1>2. m \in 1 .. MaxMaps /\ m \in 1 .. m
  BY RingBounds DEF WriterInv, WriterTypes
<1>3. \A s \in Slots : LiveMap(ring[s], x) => \E k \in 1 .. m : Listed(s) = {Entry(x, k, m)}
  BY MapLists DEF WriterInv, OnlyMaps, Listed
<1> DEFINE p == Place(committed.next, DescBlocks - 2 - m + m)
<1>4. p \in Slots /\ ring[p] = MapOf(x, m, m)
  <2>1. DescBlocks - 2 - m + m \in Slots /\ committed.next \in Slots
    BY <1>2, RingBounds DEF Slots, WriterInv, WriterTypes
  <2> QED
    BY <1>2, <2>1, Places DEF WriterInv, CheckpointAt
<1> HIDE DEF p
<1>5. LiveMap(ring[p], x) /\ Listed(p) = {Entry(x, m, m)}
  <2>1. LiveMap(ring[p], x)
    BY <1>4, WrittenIsValid, Zenon
  <2> QED
    BY <1>4, <2>1, MapLists, Zenon DEF Listed
<1> HIDE DEF x, m
<1>6. \A e \in Range(mappings) : \E k \in 1 .. m : e = Entry(x, k, m)
  BY <1>1, <1>3
<1>7. Entry(x, m, m) \in Range(mappings)
  BY <1>1, <1>4, <1>5
<1> QED
  BY <1>6, <1>7 DEF x, m

\* The spaceman is found where the last committed checkpoint put it.
THEOREM FindsSpaceman == RingSpec => []SpacemanOfCommitted
<1>1. RingInv => SpacemanOfCommitted
  <2> SUFFICES ASSUME RingInv, ~attached, pc = "open"
               PROVE  resolve_ephemeral(Spaceman) = PaddrAt(committed.xid, committed.maps)
    BY DEF SpacemanOfCommitted
  <2> DEFINE m == committed.maps
             x == committed.xid
             hits == {k \in DOMAIN mappings : mappings[k].oid = Spaceman}
             first == CHOOSE k \in hits : \A j \in hits : k <= j
  <2>1. WriterInv /\ IInv /\ m \in Nat
    BY RingBounds DEF RingInv, FrozenInv, WriterInv, WriterTypes
  <2>2. \A k \in DOMAIN mappings : mappings[k] \in Range(mappings)
    BY DEF Range
  <2>3. \A k \in 1 .. m : Entry(x, k, m).oid = Spaceman => k = m
    BY <2>1 DEF Entry, Spaceman
  <2>4. \A k \in hits : mappings[k].paddr = PaddrAt(x, m)
    <3> SUFFICES ASSUME NEW k \in hits PROVE mappings[k].paddr = PaddrAt(x, m)
      OBVIOUS
    <3>1. mappings[k] \in Range(mappings) /\ mappings[k].oid = Spaceman
      BY <2>2
    <3>2. PICK n \in 1 .. m : mappings[k] = Entry(x, n, m)
      BY <2>1, <3>1, MappingsOfCommitted
    <3>3. mappings[k] = Entry(x, m, m)
      BY <2>3, <3>1, <3>2
    <3> QED
      BY <3>3, EntryFields, Zenon
  <2>5. hits # {}
    <3>1. PICK k \in DOMAIN mappings : mappings[k] = Entry(x, m, m)
      BY <2>1, MappingsOfCommitted DEF Range
    <3>2. Entry(x, m, m).oid = Spaceman
      BY EntryFields, Zenon
    <3> QED
      BY <3>1, <3>2
  <2>6. hits \in SUBSET Nat
    <3>1. DOMAIN mappings = 1 .. Len(mappings) /\ Len(mappings) \in Nat
      BY <2>1, LenProperties DEF IInv, TypeOK
    <3> QED
      BY <3>1
  <2> HIDE DEF hits
  <2>7. first \in hits
    BY <2>5, <2>6, LeastElement, Zenon
  <2>8. resolve_ephemeral(Spaceman) = mappings[first].paddr
    BY <2>5 DEF resolve_ephemeral, hits
  <2> HIDE DEF first
  <2> QED
    BY <2>4, <2>7, <2>8
<1> QED
  BY <1>1, RingInductive, PTL
=============================================================================
