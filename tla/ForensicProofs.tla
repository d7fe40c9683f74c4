--------------------------- MODULE ForensicProofs ---------------------------
(***************************************************************************)
(* What unlocking and auditing promise, for all containers.                *)
(*                                                                         *)
(* Keybags of any length, whatever their entries hold: a key that          *)
(* unlock_volume returns is the volume's own, behind the password given;   *)
(* the password of the first KEK opens what was well written; and          *)
(* read_keybag reports what is there.                                      *)
(*                                                                         *)
(* Snapshots and reap lists, any number of them: the leads that            *)
(* audit_container collects name what is out of order, and the reaper's    *)
(* whole queue.                                                            *)
(***************************************************************************)
EXTENDS Keybag, Audit, FiniteSetTheorems, WellFoundedInduction, TLAPS

----------------------------------------------------------------------------
\*                              Keys

\* The parts of an image im, for a request w: a volume key stored for the volume,
\* and a KEK in a keybag that is encrypted under the volume's UUID.
HeldIn(im, a) == {im.bags[a].entries[n] : n \in DOMAIN im.bags[a].entries}

IsVolumeKey(im, w, d) ==
  /\ im.keylocker \in DOMAIN im.bags
  /\ \E e \in HeldIn(im, im.keylocker) :
       e.uuid = w.uuid /\ e.tag = 2 /\ e.data.kind = "wrapped" /\ e.data = d

IsKekOf(im, w, d) ==
  \E a \in DOMAIN im.bags : /\ im.bags[a].uuid = w.uuid
                            /\ \E x \in HeldIn(im, a) : x.tag \in {1, 3} /\ x.data = d

\* The key k is wrapped for the volume, and by a KEK that the password opens.
IsUnlocked(im, w, k) ==
  \E d, h : /\ IsVolumeKey(im, w, d) /\ d.holds = k
            /\ IsKekOf(im, w, h) /\ h.kind = "wrapped" /\ h.by = w.password /\ h.holds = d.by

\* A scan is at an entry of a keybag that was decrypted, or has found noise.
ContainerBag(im, b) == b = Noise \/ (im.keylocker \in DOMAIN im.bags /\ b = im.bags[im.keylocker])
VolumeBag(im, w, b) == b = Noise \/ \E a \in DOMAIN im.bags : im.bags[a].uuid = w.uuid /\ b = im.bags[a]

IInv ==
  /\ None \notin DOMAIN image.bags
  /\ \A a \in DOMAIN image.bags : IsBag(image.bags[a])
  /\ i \in Nat \ {0}
  /\ pc = "records" => ContainerBag(image, bag)
  /\ pc = "kek" => VolumeBag(image, want, bag)
  /\ pc \in {"kek", "unwrap"} => vek # None
  /\ pc = "unwrap" => IsKekOf(image, want, kek)
  /\ vek # None => IsVolumeKey(image, want, vek)
  /\ key # None => IsUnlocked(image, want, key)

----------------------------------------------------------------------------
\* A scan looks at entries of its keybag only.
LEMMA AtAnEntry ==
  ASSUME IInv, InScan, NEW b, bag = b, b = Noise \/ IsBag(b)
  PROVE  b # Noise /\ i \in DOMAIN b.entries
<1>1. i \in Nat \ {0} /\ i <= Len(b.entries)
  BY DEF IInv, InScan
<1>2. b # Noise
  BY <1>1 DEF Noise
<1>3. b.entries \in Seq({b.entries[n] : n \in DOMAIN b.entries})
  BY <1>2 DEF IsBag
<1>4. DOMAIN b.entries = 1 .. Len(b.entries) /\ Len(b.entries) \in Nat
  BY <1>3
<1> QED
  BY <1>1, <1>2, <1>4

\* The tags that are looked for.
LEMMA Tags ==
  ASSUME NEW t
  PROVE  /\ from_u16(t) = "VolumeKey" <=> t = 2
         /\ from_u16(t) = "VolumeUnlockRecords" <=> t = 3
         /\ MayBeKek(from_u16(t)) <=> t \in {1, 3}
         /\ from_u16(t) \in {"WrappingKey", "VolumeKey", "VolumeUnlockRecords"} <=> t \in {1, 2, 3}
         /\ from_u16(t) = "Unknown" <=> t \notin {1, 2, 3, 4, 248}
  BY DEF from_u16, MayBeKek

\* The volume key comes from an entry of the container's keybag that is the volume's.
LEMMA RecordStep ==
  ASSUME IInv, ScanRecord
  PROVE  IInv'
<1> DEFINE e == bag.entries[i]
<1>1. pc = "records" /\ InScan /\ image' = image /\ want' = want /\ bag' = bag /\ key' = key /\ kek' = kek
  BY DEF ScanRecord, Fail
<1>2. i' \in Nat \ {0}
  BY DEF ScanRecord, Fail, Advance, IInv
<1>3. bag = image.bags[image.keylocker] /\ image.keylocker \in DOMAIN image.bags /\ i \in DOMAIN bag.entries
  <2>1. ContainerBag(image, bag) /\ \A a \in DOMAIN image.bags : IsBag(image.bags[a])
    BY <1>1 DEF IInv
  <2>2. bag = Noise \/ IsBag(bag)
    BY <2>1 DEF ContainerBag
  <2>3. bag # Noise /\ i \in DOMAIN bag.entries
    BY <1>1, <2>2, AtAnEntry
  <2> QED
    BY <2>1, <2>3 DEF ContainerBag
<1>4. e \in HeldIn(image, image.keylocker)
  BY <1>3 DEF HeldIn
<1>5. vek' # None => IsVolumeKey(image, want, vek')
  <2>1. vek' = vek \/ (IsOurs(e) /\ from_u16(e.tag) = "VolumeKey" /\ IsKey(e.data) /\ vek' = e.data)
    BY DEF ScanRecord, Fail
  <2>2. CASE vek' = vek
    BY <1>1, <2>2, ZenonT(30) DEF IInv
  <2>3. CASE IsOurs(e) /\ from_u16(e.tag) = "VolumeKey" /\ IsKey(e.data) /\ vek' = e.data
    <3>1. e.uuid = want.uuid /\ e.tag = 2 /\ e.data.kind = "wrapped"
      BY <2>3, Tags DEF IsOurs, IsKey
    <3> QED
      BY <1>3, <1>4, <2>3, <3>1 DEF IsVolumeKey
  <2> QED
    BY <2>1, <2>2, <2>3
<1>6. pc' \in {"records", "failed"}
  BY <1>1 DEF ScanRecord, Fail
<1> QED
  BY <1>1, <1>2, <1>5, <1>6 DEF IInv

\* The KEK comes from an entry of a keybag that is the volume's.
LEMMA KekStep ==
  ASSUME IInv, ScanKek
  PROVE  IInv'
<1> DEFINE e == bag.entries[i]
<1>1. pc = "kek" /\ InScan /\ image' = image /\ want' = want /\ bag' = bag /\ key' = key /\ vek' = vek
  BY DEF ScanKek
<1>2. i' \in Nat \ {0}
  BY DEF ScanKek, Advance, IInv
<1>3. \/ pc' = "kek" /\ kek' = kek
      \/ pc' = "unwrap" /\ kek' = e.data /\ MayBeKek(from_u16(e.tag))
  BY <1>1 DEF ScanKek
<1>4. pc' = "unwrap" => IsKekOf(image, want, kek')
  <2>1. SUFFICES ASSUME pc' = "unwrap" PROVE IsKekOf(image, want, kek')
    OBVIOUS
  <2>2. kek' = e.data /\ e.tag \in {1, 3}
    BY <1>3, <2>1, Tags
  <2>3. VolumeBag(image, want, bag) /\ \A a \in DOMAIN image.bags : IsBag(image.bags[a])
    BY <1>1 DEF IInv
  <2>4. bag = Noise \/ IsBag(bag)
    BY <2>3 DEF VolumeBag
  <2>5. bag # Noise /\ i \in DOMAIN bag.entries
    BY <1>1, <2>4, AtAnEntry
  <2>6. PICK a \in DOMAIN image.bags : image.bags[a].uuid = want.uuid /\ bag = image.bags[a]
    BY <2>3, <2>5 DEF VolumeBag
  <2>7. e \in HeldIn(image, a)
    BY <2>5, <2>6 DEF HeldIn
  <2> QED
    BY <2>2, <2>6, <2>7 DEF IsKekOf
<1> QED
  BY <1>1, <1>2, <1>3, <1>4 DEF IInv

\* The other steps, the last of which opens one with the other.
LEMMA StepOK == IInv /\ [Next]_vars => IInv'
<1> SUFFICES ASSUME IInv, [Next]_vars PROVE IInv'
  OBVIOUS
<1>1. ASSUME Fail PROVE IInv'
  BY <1>1 DEF Fail, IInv
<1>2. CASE DecryptContainerKeybag
  <2>1. CASE pc' = "failed"
    BY <1>1, <1>2, <2>1 DEF DecryptContainerKeybag, Fail
  <2>2. CASE pc' # "failed"
    <3>1. /\ image.keylocker \in Blocks /\ bag' = Decrypted(image.keylocker, image.uuid)
          /\ pc' \in {"records", "observe"} /\ UNCHANGED <<image, want, i, vek, key>>
      BY <1>2, <2>2 DEF DecryptContainerKeybag, Fail
    <3>2. ContainerBag(image, bag')
      BY <3>1 DEF Decrypted, ContainerBag, Blocks
    <3> QED
      BY <3>1, <3>2 DEF IInv
  <2> QED
    BY <2>1, <2>2
<1>3. CASE EndRecords
  <2>1. CASE Fail
    BY <1>1, <2>1
  <2>2. CASE ~Fail
    <3>1. /\ vek # None /\ bag' = Decrypted(extent, want.uuid) /\ i' = 1 /\ pc' = "kek"
          /\ UNCHANGED <<image, want, vek, key>>
      BY <1>3, <2>2 DEF EndRecords
    <3>2. VolumeBag(image, want, bag')
      BY <3>1 DEF Decrypted, VolumeBag, Blocks
    <3> QED
      BY <3>1, <3>2 DEF IInv
  <2> QED
    BY <2>1, <2>2
<1>4. CASE Unwrap
  <2>1. CASE Fail
    BY <1>1, <2>1
  <2>2. CASE ~Fail
    <3>1. /\ pc = "unwrap" /\ kek.kind = "wrapped" /\ kek.by = want.password /\ vek.by = kek.holds
          /\ key' = vek.holds /\ pc' = "done" /\ UNCHANGED <<image, want, i, vek>>
      BY <1>4, <2>2 DEF Unwrap, Opens
    <3>2. IsVolumeKey(image, want, vek) /\ IsKekOf(image, want, kek)
      BY <3>1 DEF IInv
    <3>3. IsUnlocked(image, want, key')
      BY <3>1, <3>2 DEF IsUnlocked
    <3> QED
      BY <3>1, <3>3 DEF IInv
  <2> QED
    BY <2>1, <2>2
<1>5. CASE NoKek
  BY <1>1, <1>5 DEF NoKek
<1>6. CASE Observe \/ EndObserve
  <2>1. pc' \in {"observe", "done"} /\ UNCHANGED <<image, want, vek, key>> /\ i' \in Nat \ {0}
    BY <1>6 DEF Observe, EndObserve, Advance, IInv
  <2> QED
    BY <2>1 DEF IInv
<1>7. CASE UNCHANGED vars
  BY <1>7 DEF vars, IInv
<1> QED
  BY <1>2, <1>3, <1>4, <1>5, <1>6, <1>7, RecordStep, KekStep DEF Next

\* Whatever the keybags hold, unlock_volume returns no key but the volume's own, and
\* only for a password that opens a KEK of the volume that opens it.
THEOREM OnlyTheVolumesKey == Spec => []KeyIsTheVolumes
<1>1. Init => IInv
  BY KeybagAssumption DEF Init, IInv
<1>2. IInv => KeyIsTheVolumes
  <2>1. SUFFICES ASSUME IInv, key # None PROVE KeyIsTheVolumes
    BY DEF KeyIsTheVolumes
  <2>2. PICK d, h : /\ IsVolumeKey(image, want, d) /\ d.holds = key
                    /\ IsKekOf(image, want, h) /\ h.kind = "wrapped" /\ h.by = want.password /\ h.holds = d.by
    BY <2>1 DEF IInv, IsUnlocked
  <2>3. PICK e \in HeldIn(image, image.keylocker) :
          e.uuid = want.uuid /\ e.tag = 2 /\ e.data.kind = "wrapped" /\ e.data = d
    BY <2>2 DEF IsVolumeKey
  <2>4. PICK a \in DOMAIN image.bags : /\ image.bags[a].uuid = want.uuid
                                       /\ \E x \in HeldIn(image, a) : x.tag \in {1, 3} /\ x.data = h
    BY <2>2 DEF IsKekOf
  <2>5. PICK x \in HeldIn(image, a) : x.tag \in {1, 3} /\ x.data = h
    BY <2>4
  <2>6. e \in EntriesAt(image.keylocker) /\ x \in EntriesAt(a)
    BY <2>3, <2>5 DEF HeldIn, EntriesAt
  <2>7. e.data.by \in KeksOf(a, want.password)
    <3>1. x \in {y \in EntriesAt(a) : y.tag \in {1, 3} /\ y.data.kind = "wrapped" /\ y.data.by = want.password}
      BY <2>2, <2>5, <2>6
    <3>2. x.data.holds = e.data.by
      BY <2>2, <2>3, <2>5
    <3> QED
      BY ONLY <3>1, <3>2 DEF KeksOf
  <2> QED
    BY <2>2, <2>3, <2>4, <2>6, <2>7 DEF KeyIsTheVolumes, Blocks
<1> QED
  BY <1>1, <1>2, StepOK, PTL DEF Spec

----------------------------------------------------------------------------
\* Entry n is the first KEK of a volume keybag, and wrapped under password p.
FirstKek(es, n, p) ==
  es[n].tag \in {1, 3} /\ es[n].data.by = p /\ \A m \in 1 .. n - 1 : es[m].tag \notin {1, 3}

\* The records of a well-written container for the volume of request w, asked for with
\* the password of its first KEK: E has the volume key, R leads to the keybag.
WrittenFor(im, w, E, R) ==
  /\ im.magic /\ im.block_size_ok
  /\ im.keylocker \in DOMAIN im.bags /\ im.bags[im.keylocker].uuid = im.uuid
  /\ \A a \in DOMAIN im.bags : im.bags[a].nkeys = Len(im.bags[a].entries) /\ im.bags[a].nkeys <= MaxEntries
  /\ E \in HeldIn(im, im.keylocker) /\ R \in HeldIn(im, im.keylocker)
  /\ \A x \in HeldIn(im, im.keylocker) : x.uuid = w.uuid /\ x.tag \in {2, 3} => x \in {E, R}
  /\ E.uuid = w.uuid /\ E.tag = 2 /\ E.data.kind = "wrapped"
  /\ R.uuid = w.uuid /\ R.tag = 3 /\ R.data.kind = "prange" /\ R.data.addr \in DOMAIN im.bags
  /\ im.bags[R.data.addr].uuid = w.uuid
  /\ \A x \in HeldIn(im, R.data.addr) :
       x.tag \in {1, 3} => x.data.kind = "wrapped" /\ x.data.holds = E.data.by
  /\ LET es == im.bags[R.data.addr].entries IN \E n \in DOMAIN es : FirstKek(es, n, w.password)

\* What unlock_volume has found so far, and that it has not failed.
Progress(E, R) ==
  /\ pc \in {"start", "records", "kek", "unwrap", "done"}
  /\ pc = "start" => i = 1 /\ vek = None /\ extent = None
  /\ pc = "records" =>
       /\ bag = image.bags[image.keylocker]
       /\ vek \in {None, E.data} /\ extent \in {None, R.data.addr}
       /\ \A n \in DOMAIN bag.entries : n < i =>
            (bag.entries[n] = E => vek = E.data) /\ (bag.entries[n] = R => extent = R.data.addr)
  /\ pc = "kek" =>
       /\ bag = image.bags[R.data.addr] /\ vek = E.data
       /\ \A n \in DOMAIN bag.entries : n < i => bag.entries[n].tag \notin {1, 3}
  /\ pc = "unwrap" =>
       vek = E.data /\ kek.kind = "wrapped" /\ kek.by = want.password /\ kek.holds = E.data.by

UInv ==
  /\ op \in {"unlock_volume", "read_keybag"}
  /\ \A E, R : op = "unlock_volume" /\ WrittenFor(image, want, E, R) => Progress(E, R)

\* The entries of a keybag are numbered from one.
LEMMA BagEntries ==
  ASSUME NEW b, IsBag(b)
  PROVE  /\ DOMAIN b.entries = 1 .. Len(b.entries) /\ Len(b.entries) \in Nat
         /\ \A n \in DOMAIN b.entries : n \in Nat /\ ~(n < 1)
         /\ \A n \in DOMAIN b.entries : b.entries[n].tag \in Nat /\ b.entries[n].data # None
<1>1. DOMAIN b.entries = 1 .. Len(b.entries) /\ Len(b.entries) \in Nat
  BY DEF IsBag
<1> QED
  BY <1>1 DEF IsBag

\* A scan of a keybag with a right count ends behind its last entry.
LEMMA ScanEnds ==
  ASSUME IInv, NEW b, bag = b, IsBag(b), b.nkeys = Len(b.entries), b.nkeys <= MaxEntries
  PROVE  /\ DOMAIN b.entries = 1 .. Len(b.entries) /\ Len(b.entries) \in Nat
         /\ InScan <=> i \in DOMAIN b.entries
         /\ ~InScan => \A n \in DOMAIN b.entries : n < i
<1>1. DOMAIN b.entries = 1 .. Len(b.entries) /\ Len(b.entries) \in Nat
  BY BagEntries
<1>2. i \in Nat \ {0} /\ MaxEntries \in Nat
  BY KeybagAssumption DEF IInv
<1>3. InScan <=> i <= Len(b.entries)
  BY <1>1, <1>2 DEF InScan
<1> QED
  BY <1>1, <1>2, <1>3

\* A turn of volume_records on a well-written container keeps to the two records.
LEMMA RecordProgress ==
  ASSUME IInv, NEW E, NEW R, WrittenFor(image, want, E, R), Progress(E, R), ScanRecord
  PROVE  Progress(E, R)'
<1> DEFINE b == image.bags[image.keylocker]
           e == bag.entries[i]
<1>1. /\ pc = "records" /\ InScan /\ bag = b /\ bag' = bag /\ image' = image
      /\ vek \in {None, E.data} /\ extent \in {None, R.data.addr}
      /\ \A n \in DOMAIN bag.entries : n < i =>
            (bag.entries[n] = E => vek = E.data) /\ (bag.entries[n] = R => extent = R.data.addr)
  BY SMTT(30) DEF ScanRecord, Progress, Fail
<1>2. i \in DOMAIN b.entries /\ DOMAIN b.entries \subseteq Nat /\ i \in Nat
  <2>1. IsBag(b) /\ b.nkeys = Len(b.entries) /\ b.nkeys <= MaxEntries
    BY DEF IInv, WrittenFor
  <2> QED
    BY <1>1, <2>1, ScanEnds, SMTT(30) DEF IInv
<1>3. e \in HeldIn(image, image.keylocker)
  BY <1>1, <1>2 DEF HeldIn
<1>4. IsOurs(e) /\ e.tag = 2 => e = E /\ IsKey(e.data)
  BY <1>3 DEF WrittenFor, IsOurs, IsKey
<1>5. IsOurs(e) /\ e.tag = 3 => e = R /\ e.data.kind = "prange"
  BY <1>3 DEF WrittenFor, IsOurs
<1>6. E.tag = 2 /\ R.tag = 3
  BY DEF WrittenFor
<1>7. \/ e = E /\ vek' = E.data /\ extent' = extent
      \/ e = R /\ extent' = R.data.addr /\ vek' = vek
      \/ /\ ~IsOurs(e) \/ e.tag \notin {2, 3}
         /\ vek' = vek /\ extent' = extent
  BY <1>4, <1>5, Tags, ZenonT(30) DEF ScanRecord
<1>8. i' = i + 1 /\ pc' = "records"
  BY <1>1, <1>4, <1>5, Tags, Zenon DEF ScanRecord, Advance
<1>9. E.uuid = want.uuid /\ R.uuid = want.uuid
  BY DEF WrittenFor
<1>10. vek' \in {None, E.data} /\ extent' \in {None, R.data.addr}
  BY <1>1, <1>7
<1>11. ASSUME NEW n \in DOMAIN bag.entries, n < i'
       PROVE  (bag.entries[n] = E => vek' = E.data) /\ (bag.entries[n] = R => extent' = R.data.addr)
  <2>1. CASE n < i
    BY <1>1, <1>7, <2>1
  <2>2. CASE n = i
    BY <1>6, <1>7, <1>9, <2>2 DEF IsOurs
  <2> QED
    BY <1>1, <1>2, <1>8, <1>11, <2>1, <2>2, SMTT(30)
<1> QED
  BY <1>1, <1>8, <1>10, <1>11 DEF Progress

\* The two records lead to the volume's own keybag.
LEMMA RecordsLead ==
  ASSUME IInv, NEW E, NEW R, WrittenFor(image, want, E, R), Progress(E, R), EndRecords
  PROVE  Progress(E, R)'
<1> DEFINE b == image.bags[image.keylocker]
<1>1. pc = "records" /\ ~InScan /\ bag = b
  BY DEF EndRecords, Progress
<1>2. \A n \in DOMAIN b.entries : n < i
  <2>1. IsBag(b) /\ b.nkeys = Len(b.entries) /\ b.nkeys <= MaxEntries
    BY DEF IInv, WrittenFor
  <2> QED
    BY <1>1, <2>1, ScanEnds
<1>3. vek = E.data /\ extent = R.data.addr
  <2>1. PICK n \in DOMAIN b.entries : b.entries[n] = E
    BY SMTT(30) DEF WrittenFor, HeldIn
  <2>2. PICK m \in DOMAIN b.entries : b.entries[m] = R
    BY DEF WrittenFor, HeldIn
  <2> QED
    BY <1>1, <1>2, <2>1, <2>2, SMTT(30) DEF Progress
<1>4. E.data # None /\ R.data.addr # None /\ R.data.addr \in Blocks
  <2>1. \A x \in HeldIn(image, image.keylocker) : x.data # None
    <3>1. IsBag(b)
      BY Zenon DEF IInv, WrittenFor
    <3>2. \A n \in DOMAIN b.entries : b.entries[n].data # None
      BY <3>1, BagEntries, Zenon
    <3> QED
      BY <3>2, Zenon DEF HeldIn
  <2> QED
    BY <2>1 DEF IInv, WrittenFor, Blocks
<1>5. pc' = "kek" /\ i' = 1 /\ vek' = vek /\ image' = image /\ bag' = Decrypted(R.data.addr, want.uuid)
  BY <1>3, <1>4 DEF EndRecords
<1>6. bag' = image.bags[R.data.addr] /\ IsBag(bag')
  BY <1>4, <1>5 DEF Decrypted, WrittenFor, IInv, Blocks
<1>7. \A n \in DOMAIN bag'.entries : ~(n < 1)
  BY <1>6, BagEntries, Zenon
<1> QED
  BY <1>3, <1>5, <1>6, <1>7 DEF Progress

\* The first KEK found is one that the password opens.
LEMMA KekProgress ==
  ASSUME IInv, NEW E, NEW R, WrittenFor(image, want, E, R), Progress(E, R), ScanKek \/ NoKek
  PROVE  Progress(E, R)'
<1> DEFINE b == image.bags[R.data.addr]
           e == bag.entries[i]
<1>1. /\ pc = "kek" /\ bag = b /\ vek = E.data
      /\ \A n \in DOMAIN bag.entries : n < i => bag.entries[n].tag \notin {1, 3}
  BY SMTT(30) DEF ScanKek, NoKek, Progress
<1>2. /\ DOMAIN b.entries = 1 .. Len(b.entries) /\ Len(b.entries) \in Nat
      /\ InScan <=> i \in DOMAIN b.entries
      /\ ~InScan => \A n \in DOMAIN b.entries : n < i
  <2>1. IsBag(b) /\ b.nkeys = Len(b.entries) /\ b.nkeys <= MaxEntries
    BY SMTT(30) DEF IInv, WrittenFor
  <2> QED
    BY <1>1, <2>1, ScanEnds, Zenon
<1>3. PICK k \in DOMAIN b.entries : FirstKek(b.entries, k, want.password)
  BY Zenon DEF WrittenFor
<1>4. /\ b.entries[k].tag \in {1, 3} /\ b.entries[k].data.by = want.password
      /\ \A m \in 1 .. k - 1 : b.entries[m].tag \notin {1, 3}
  BY <1>3, Zenon DEF FirstKek
<1>5. InScan
  BY <1>1, <1>2, <1>4, Zenon
<1>6. e \in HeldIn(image, R.data.addr)
  BY <1>1, <1>2, <1>5 DEF HeldIn
<1>7. ScanKek /\ image' = image /\ want' = want /\ bag' = bag /\ vek' = vek
  BY <1>5 DEF ScanKek, NoKek
<1>8. CASE e.tag \in {1, 3}
  <2>0. i = k
    <3>1. i \in DOMAIN b.entries /\ ~(k < i) /\ i \notin 1 .. k - 1
      BY <1>1, <1>2, <1>4, <1>5, <1>8, Zenon
    <3> QED
      BY ONLY <1>2, <3>1
  <2>1. e.data.kind = "wrapped" /\ e.data.holds = E.data.by /\ e.data.by = want.password
    <3>1. e.data.kind = "wrapped" /\ e.data.holds = E.data.by
      BY <1>6, <1>8, Zenon DEF WrittenFor
    <3> QED
      BY <1>1, <1>4, <2>0, <3>1, Zenon
  <2>2. pc' = "unwrap" /\ kek' = e.data
    BY <1>7, <1>8, <2>1, Tags, SMTT(30) DEF ScanKek
  <2> QED
    BY <1>1, <1>7, <2>1, <2>2, Zenon DEF Progress
<1>9. CASE e.tag \notin {1, 3}
  <2>1. pc' = "kek" /\ i' = i + 1
    BY <1>1, <1>7, <1>9, Tags, ZenonT(30) DEF ScanKek, Advance
  <2>2. i \in Nat /\ \A n \in DOMAIN b.entries : n < i + 1 => n < i \/ n = i
    BY <1>2 DEF IInv
  <2>3. \A n \in DOMAIN bag'.entries : n < i' => bag'.entries[n].tag \notin {1, 3}
    BY <1>1, <1>7, <1>9, <2>1, <2>2, Zenon
  <2> QED
    BY <1>1, <1>7, <2>1, <2>3, Zenon DEF Progress
<1> QED
  BY <1>8, <1>9

\* On a well-written container no step of unlock_volume with the password of the first
\* KEK fails.
LEMMA UnlockStep == IInv /\ UInv /\ [Next]_vars => UInv'
<1> SUFFICES ASSUME IInv, UInv, [Next]_vars
             PROVE  UInv'
  OBVIOUS
<1>1. image' = image /\ want' = want /\ op' = op
  BY Zenon DEF Next, DecryptContainerKeybag, ScanRecord, EndRecords, ScanKek, NoKek, Unwrap, Observe, EndObserve, Fail, vars
<1> SUFFICES ASSUME NEW E, NEW R, op' = "unlock_volume", WrittenFor(image', want', E, R)
             PROVE  Progress(E, R)'
  BY <1>1, Zenon DEF UInv
<1>2. WrittenFor(image, want, E, R) /\ op = "unlock_volume" /\ Progress(E, R)
  BY <1>1 DEF UInv
<1>3. CASE DecryptContainerKeybag
  <2>1. image.magic /\ image.block_size_ok /\ image.keylocker \in Blocks /\ image.bags[image.keylocker].uuid = image.uuid
    BY <1>2, SMTT(30) DEF WrittenFor, Blocks
  <2>2. /\ pc = "start" /\ bag' = image.bags[image.keylocker] /\ pc' = "records"
        /\ i' = i /\ vek' = vek /\ extent' = extent
    BY <1>2, <1>3, <2>1 DEF DecryptContainerKeybag, Decrypted
  <2>3. i' = 1 /\ vek' = None /\ extent' = None
    BY <1>2, <2>2 DEF Progress
  <2>4. \A n \in DOMAIN bag'.entries : ~(n < 1)
    <3>1. IsBag(bag')
      BY <2>1, <2>2 DEF IInv, Blocks
    <3> QED
      BY <3>1, BagEntries, Zenon
  <2> QED
    BY <1>1, <2>2, <2>3, <2>4, SMTT(30) DEF Progress
<1>4. CASE Unwrap
  <2>1. Opens(kek)
    BY <1>2, <1>4 DEF Unwrap, Opens, Progress
  <2> QED
    BY <1>4, <2>1 DEF Unwrap, Progress
<1>5. CASE Observe \/ EndObserve
  BY <1>2, <1>5 DEF Observe, EndObserve, Progress
<1>6. CASE UNCHANGED vars
  BY <1>2, <1>6 DEF vars, Progress
<1> QED
  BY <1>2, <1>3, <1>4, <1>5, <1>6, RecordProgress, RecordsLead, KekProgress DEF Next

\* The records of a container that is well written for the volume.
LEMMA WellWrittenRecords ==
  ASSUME WellWritten(want.uuid), FirstPassword(want.uuid, want.password)
  PROVE  \E E, R : WrittenFor(image, want, E, R)
<1> DEFINE u == want.uuid
           C == EntriesAt(image.keylocker)
<1>1. PICK E \in C, R \in C :
       /\ {x \in C : x.uuid = u /\ x.tag \in {2, 3}} = {E, R}
       /\ E.tag = 2 /\ E.data.kind = "wrapped"
       /\ R.tag = 3 /\ R.data.kind = "prange" /\ R.data.addr \in Blocks
       /\ image.bags[R.data.addr].uuid = u
       /\ \A x \in EntriesAt(R.data.addr) :
            x.tag \in {1, 3} => x.data.kind = "wrapped" /\ x.data.holds = E.data.by
  BY Zenon DEF WellWritten
<1> HIDE DEF C
<1>2. /\ E.uuid = u /\ R.uuid = u
      /\ \A x \in C : x.uuid = u /\ x.tag \in {2, 3} => x \in {E, R}
  BY <1>1
<1>3. PICK z \in C :
        /\ z.uuid = u /\ z.tag = 3
        /\ LET es == image.bags[z.data.addr].entries IN \E n \in DOMAIN es : FirstKek(es, n, want.password)
  BY ZenonT(30) DEF FirstPassword, FirstKek, C
<1>4. z = R
  BY <1>1, <1>2, <1>3
<1>8. LET es == image.bags[R.data.addr].entries IN \E n \in DOMAIN es : FirstKek(es, n, want.password)
  BY <1>3, <1>4, Zenon
<1>10. \A a : EntriesAt(a) = HeldIn(image, a)
  BY DEF EntriesAt, HeldIn
<1>11. /\ image.magic /\ image.block_size_ok
       /\ image.keylocker \in DOMAIN image.bags /\ image.bags[image.keylocker].uuid = image.uuid
       /\ \A a \in DOMAIN image.bags : image.bags[a].nkeys = Len(image.bags[a].entries) /\ image.bags[a].nkeys <= MaxEntries
  BY Zenon DEF WellWritten, Blocks
<1>12. WrittenFor(image, want, E, R)
  BY <1>1, <1>2, <1>8, <1>10, <1>11, Zenon DEF WrittenFor, Blocks, C
<1> QED
  BY <1>12

\* The password of the first KEK unlocks a volume: on a container that is well written
\* for the volume unlock_volume does not fail, whatever else the keybags hold.
THEOREM RightPasswordUnlocks == Spec => []PasswordUnlocks
<1>1. Init => IInv /\ UInv
  <2>1. Init => IInv
    BY KeybagAssumption DEF Init, IInv
  <2>2. Init => UInv
    BY DEF Init, UInv, Progress
  <2> QED
    BY <2>1, <2>2
<1>2. UInv => PasswordUnlocks
  <2> SUFFICES ASSUME UInv, pc = "failed", WellWritten(want.uuid),
                      FirstPassword(want.uuid, want.password)
               PROVE  op = "read_keybag"
    BY DEF PasswordUnlocks
  <2>1. PICK E, R : WrittenFor(image, want, E, R)
    BY WellWrittenRecords
  <2>2. ~Progress(E, R)
    BY DEF Progress
  <2> QED
    BY <2>1, <2>2 DEF UInv
<1> QED
  BY <1>1, <1>2, StepOK, UnlockStep, PTL DEF Spec

----------------------------------------------------------------------------
\* The first k entries of keybag b with a tag the audit does not know.
UnknownIn(b, k) == {n \in 1 .. k : b.entries[n].tag \notin {1, 2, 3, 4, 248}}

\* What read_keybag has reported when it has looked at k entries of keybag b.
Observed(b, k, ts, rs) ==
  /\ IsBag(b)
  /\ k \in Nat /\ k <= b.nkeys /\ k <= MaxEntries /\ k <= Len(b.entries)
  /\ ts = {from_u16(b.entries[n].tag) : n \in 1 .. k}
  /\ rs \in Seq(Nat) /\ Len(rs) = Cardinality(UnknownIn(b, k))

OInv ==
  op = "read_keybag" =>
    /\ pc \in {"start", "observe", "done", "failed"}
    /\ pc = "start" => i = 1 /\ tags = {} /\ raws = << >>
    /\ pc \in {"observe", "done"} => Observed(bag, i - 1, tags, raws)
    /\ pc = "done" => ~InScan

\* A keybag that was decrypted under the wrong UUID has no entries.
LEMMA NoiseIsABag == IsBag(Noise)
  BY DEF IsBag, Noise

\* Before the first entry nothing is reported.
LEMMA ObservedNothing ==
  ASSUME NEW b, IsBag(b)
  PROVE  Observed(b, 0, {}, << >>)
<1>1. 1 .. 0 = {} /\ Len(b.entries) \in Nat /\ b.nkeys \in Nat /\ MaxEntries \in Nat
  BY BagEntries, KeybagAssumption DEF IsBag
<1>2. UnknownIn(b, 0) = {} /\ Len(<< >>) = 0 /\ << >> \in Seq(Nat)
  BY <1>1 DEF UnknownIn
<1> QED
  BY <1>1, <1>2, FS_EmptySet, SMTT(30) DEF Observed

\* One more entry: its tag is noted, and counted exactly if it is unknown.
LEMMA ObservedOneMore ==
  ASSUME NEW b, NEW k, NEW ts, NEW rs, Observed(b, k, ts, rs),
         k + 1 <= b.nkeys, k + 1 <= MaxEntries, k + 1 <= Len(b.entries)
  PROVE  LET t == b.entries[k + 1].tag IN
         Observed(b, k + 1, ts \cup {from_u16(t)}, IF from_u16(t) = "Unknown" THEN Append(rs, raw_tag(t)) ELSE rs)
<1> DEFINE n == k + 1
           t == b.entries[n].tag
           r == IF from_u16(t) = "Unknown" THEN Append(rs, raw_tag(t)) ELSE rs
<1>0. /\ IsBag(b) /\ k \in Nat /\ rs \in Seq(Nat) /\ Len(rs) = Cardinality(UnknownIn(b, k))
      /\ ts = {from_u16(b.entries[j].tag) : j \in 1 .. k}
  BY DEF Observed
<1>1. n \in Nat /\ 1 .. n = (1 .. k) \cup {n} /\ n \notin 1 .. k /\ n \in DOMAIN b.entries
  BY <1>0, BagEntries
<1>2. t \in Nat
  BY <1>0, <1>1, BagEntries
<1>3. raw_tag(t) \in Nat
  <2> HIDE DEF t
  <2> QED
    BY <1>2 DEF raw_tag
<1>4. ts \cup {from_u16(t)} = {from_u16(b.entries[j].tag) : j \in 1 .. n}
  BY <1>0, <1>1
<1>5. IsFiniteSet(UnknownIn(b, k)) /\ n \notin UnknownIn(b, k)
  <2>1. IsFiniteSet(1 .. k)
    BY <1>0, FS_Interval
  <2> QED
    BY <1>1, <2>1, FS_Subset, Zenon DEF UnknownIn
<1>6. r \in Seq(Nat) /\ Len(r) = Cardinality(UnknownIn(b, n))
  <2>1. CASE from_u16(t) = "Unknown"
    <3>1. UnknownIn(b, n) = UnknownIn(b, k) \cup {n}
      BY <1>1, <2>1, Tags DEF UnknownIn
    <3>2. Cardinality(UnknownIn(b, n)) = Cardinality(UnknownIn(b, k)) + 1
      BY <1>5, <3>1, FS_AddElement
    <3>3. Append(rs, raw_tag(t)) \in Seq(Nat) /\ Len(Append(rs, raw_tag(t))) = Len(rs) + 1
      <4> DEFINE x == raw_tag(t)
      <4> HIDE DEF x
      <4>1. x \in Nat
        BY <1>3 DEF x
      <4>2. Append(rs, x) \in Seq(Nat) /\ Len(Append(rs, x)) = Len(rs) + 1
        BY <1>0, <4>1
      <4> QED
        BY <4>2 DEF x
    <3> QED
      BY <1>0, <2>1, <3>2, <3>3
  <2>2. CASE from_u16(t) # "Unknown"
    <3>1. UnknownIn(b, n) = UnknownIn(b, k)
      BY <1>1, <2>2, Tags DEF UnknownIn
    <3> QED
      BY <1>0, <2>2, <3>1
  <2> QED
    BY <2>1, <2>2
<1> HIDE DEF r, t
<1>7. Observed(b, n, ts \cup {from_u16(t)}, r)
  BY <1>0, <1>1, <1>4, <1>6 DEF Observed, t
<1> QED
  BY <1>7 DEF r, t

\* Every step of read_keybag keeps the report in line with the entries looked at.
LEMMA ObserveStep == IInv /\ OInv /\ [Next]_vars => OInv'
<1> SUFFICES ASSUME IInv, OInv, [Next]_vars, op' = "read_keybag"
             PROVE  /\ pc' \in {"start", "observe", "done", "failed"}
                    /\ pc' = "start" => i' = 1 /\ tags' = {} /\ raws' = << >>
                    /\ pc' \in {"observe", "done"} => Observed(bag', i' - 1, tags', raws')
                    /\ pc' = "done" => ~InScan'
  BY Zenon DEF OInv
<1>1. op = "read_keybag" /\ i \in Nat \ {0}
  <2>1. op' = op
    BY Zenon DEF Next, DecryptContainerKeybag, ScanRecord, EndRecords, ScanKek, NoKek, Unwrap, Observe, EndObserve, Fail, vars
  <2> QED
    BY <2>1 DEF IInv
<1>2. /\ pc \in {"start", "observe", "done", "failed"}
      /\ pc = "start" => i = 1 /\ tags = {} /\ raws = << >>
      /\ pc \in {"observe", "done"} => Observed(bag, i - 1, tags, raws)
      /\ pc = "done" => ~InScan
  BY <1>1, Zenon DEF OInv
<1>3. CASE DecryptContainerKeybag
  <2>1. pc = "start" /\ i = 1 /\ tags = {} /\ raws = << >>
    BY <1>2, <1>3 DEF DecryptContainerKeybag
  <2>2. CASE Fail
    BY <2>2 DEF Fail
  <2>3. CASE ~Fail
    <3>1. /\ bag' = Decrypted(image.keylocker, image.uuid) /\ pc' = "observe"
          /\ i' = i /\ tags' = tags /\ raws' = raws
      BY <1>1, <1>3, <2>3 DEF DecryptContainerKeybag
    <3>2. IsBag(bag')
      BY <3>1, NoiseIsABag, Zenon DEF Decrypted, Blocks, IInv
    <3>3. Observed(bag', 0, {}, << >>)
      BY <3>2, ObservedNothing
    <3>4. i' - 1 = 0 /\ tags' = {} /\ raws' = << >>
      BY <2>1, <3>1
    <3> QED
      BY <3>1, <3>3, <3>4
  <2> QED
    BY <2>2, <2>3
<1>4. CASE Observe
  <2> DEFINE t == bag.entries[i].tag
             k == i - 1
  <2>1. /\ pc = "observe" /\ pc' = pc /\ bag' = bag
        /\ tags' = tags \cup {from_u16(t)}
        /\ raws' = IF from_u16(t) = "Unknown" THEN Append(raws, raw_tag(t)) ELSE raws
        /\ i' = i + 1
    BY <1>4 DEF Observe, Advance
  <2>2. Observed(bag, k, tags, raws)
    BY <1>2, <2>1
  <2>3. k + 1 = i /\ i' - 1 = i
    BY <1>1, <2>1
  <2>4. k + 1 <= bag.nkeys /\ k + 1 <= MaxEntries /\ k + 1 <= Len(bag.entries)
    BY <1>4, <2>3 DEF Observe, InScan
  <2> HIDE DEF k
  <2>5. Observed(bag, i, tags', raws')
    BY <2>1, <2>2, <2>3, <2>4, ObservedOneMore, Zenon
  <2> QED
    BY <2>1, <2>3, <2>5
<1>5. CASE EndObserve
  <2>1. pc = "observe" /\ ~InScan /\ pc' = "done" /\ bag' = bag /\ i' = i /\ tags' = tags /\ raws' = raws
    BY <1>5, SMTT(30) DEF EndObserve
  <2> QED
    BY <1>2, <2>1 DEF InScan
<1>6. CASE ScanRecord \/ EndRecords \/ ScanKek \/ NoKek \/ Unwrap
  BY <1>2, <1>6, Zenon DEF ScanRecord, EndRecords, ScanKek, NoKek, Unwrap
<1>7. CASE UNCHANGED vars
  <2>1. pc' = pc /\ bag' = bag /\ i' = i /\ tags' = tags /\ raws' = raws
    BY <1>7 DEF vars
  <2> QED
    BY <1>2, <2>1 DEF InScan
<1> QED
  BY <1>3, <1>4, <1>5, <1>6, <1>7 DEF Next

\* The audit sees all of a keybag: read_keybag reports key material exactly if some
\* entry has it, and one anomaly for each unknown tag, in keybags of any length.
THEOREM AuditSeesAll == Spec => []StateIsObserved
<1>1. Init => IInv /\ OInv
  <2>1. Init => IInv
    BY KeybagAssumption DEF Init, IInv
  <2>2. Init => OInv
    BY SMTT(30) DEF Init, OInv
  <2> QED
    BY <2>1, <2>2
<1>2. IInv /\ OInv => StateIsObserved
  <2> DEFINE inBag == {n \in DOMAIN bag.entries : n <= bag.nkeys /\ n <= MaxEntries}
             k == i - 1
  <2> SUFFICES ASSUME IInv, OInv, pc = "done", op = "read_keybag"
               PROVE  /\ encrypted <=> \E n \in inBag : bag.entries[n].tag \in 1 .. 3
                      /\ Len(raws) = Cardinality({n \in inBag : bag.entries[n].tag \notin {1, 2, 3, 4, 248}})
    BY Zenon DEF StateIsObserved
  <2>1. Observed(bag, k, tags, raws) /\ ~InScan
    BY ZenonT(30) DEF OInv
  <2>2. i \in Nat \ {0} /\ MaxEntries \in Nat /\ bag.nkeys \in Nat
    BY <2>1, KeybagAssumption DEF IInv, Observed, IsBag
  <2>3. DOMAIN bag.entries = 1 .. Len(bag.entries) /\ Len(bag.entries) \in Nat
    BY <2>1, BagEntries DEF Observed
  <2>4. inBag = 1 .. k
    <3>1. k <= bag.nkeys /\ k <= MaxEntries /\ k <= Len(bag.entries)
      BY <2>1 DEF Observed
    <3> QED
      BY <2>1, <2>2, <2>3, <3>1 DEF InScan
  <2> HIDE DEF inBag, k
  <2>5. tags = {from_u16(bag.entries[n].tag) : n \in inBag}
    BY <2>1, <2>4 DEF Observed
  <2>6. encrypted <=> \E n \in inBag : bag.entries[n].tag \in 1 .. 3
    <3>1. encrypted <=> \E n \in inBag : from_u16(bag.entries[n].tag) \in {"WrappingKey", "VolumeKey", "VolumeUnlockRecords"}
      BY <2>5, Zenon DEF encrypted
    <3>2. 1 .. 3 = {1, 2, 3}
      OBVIOUS
    <3> QED
      BY <3>1, <3>2, Tags, ZenonT(30)
  <2>7. UnknownIn(bag, k) = {n \in inBag : bag.entries[n].tag \notin {1, 2, 3, 4, 248}}
    BY <2>4 DEF UnknownIn
  <2> QED
    BY <2>1, <2>6, <2>7 DEF Observed
<1> QED
  BY <1>1, <1>2, StepOK, ObserveStep, PTL DEF Spec

----------------------------------------------------------------------------
\*                             Audits

\* A nonempty set of naturals has a least element.
LEMMA LeastElement ==
  ASSUME NEW T \in SUBSET Nat, T # {}
  PROVE  \E x \in T : \A y \in T : x <= y
<1> DEFINE R == OpToRel(<, Nat)
<1>1. IsWellFoundedOn(R, Nat)
  BY NatLessThanWellFounded, Zenon
<1>2. \A x, y \in Nat : x < y => <<x, y>> \in R
  BY DEF OpToRel
<1> HIDE DEF R
<1>3. PICK x \in T : \A y \in T : ~(<<y, x>> \in R)
  BY <1>1, WFMin, Zenon
<1>4. x \in Nat /\ \A y \in T : y \in Nat /\ ~(y < x)
  BY <1>2, <1>3, Zenon
<1> QED
  BY <1>4


\* The snapshots of a volume.
IsSnaps(q) == q \in Seq(Snapshot)

\* What the elements of such a list are.
LEMMA SnapNumbers ==
  ASSUME NEW q, IsSnaps(q)
  PROVE  /\ Len(q) \in Nat /\ DOMAIN q = 1 .. Len(q)
         /\ \A k \in DOMAIN q : q[k].xid \in Nat /\ q[k].create_time \in Nat
<1>1. Len(q) \in Nat /\ DOMAIN q = 1 .. Len(q) /\ \A k \in DOMAIN q : q[k] \in Snapshot
  BY DEF IsSnaps
<1> QED
  BY <1>1 DEF Snapshot

\* The order is one: it is transitive, and relates no snapshot to itself.
LEMMA Order ==
  ASSUME NEW q, IsSnaps(q), NEW a \in DOMAIN q, NEW b \in DOMAIN q, NEW d \in DOMAIN q
  PROVE  /\ Precedes(q, a, b) /\ Precedes(q, b, d) => Precedes(q, a, d)
         /\ ~Precedes(q, a, a)
         /\ Precedes(q, a, b) => q[a].xid <= q[b].xid
<1>1. DOMAIN q \subseteq Nat /\ \A k \in DOMAIN q : q[k].xid \in Nat
  BY SnapNumbers
<1> QED
  BY <1>1 DEF Precedes

\* What lies between is a finite set; what lies between one of them and an end is less.
LEMMA Gaps ==
  ASSUME NEW q, IsSnaps(q), NEW a \in DOMAIN q, NEW b \in DOMAIN q, NEW n \in Between(q, a, b)
  PROVE  /\ n \in DOMAIN q /\ Precedes(q, a, n) /\ Precedes(q, n, b)
         /\ Cardinality(Between(q, a, n)) < Cardinality(Between(q, a, b))
         /\ Cardinality(Between(q, n, b)) < Cardinality(Between(q, a, b))
<1>1. n \in DOMAIN q /\ Precedes(q, a, n) /\ Precedes(q, n, b)
  BY DEF Between
<1>2. IsFiniteSet(Between(q, a, b))
  <2>1. IsFiniteSet(DOMAIN q)
    BY SnapNumbers, FS_Interval
  <2>2. Between(q, a, b) \subseteq DOMAIN q
    BY DEF Between
  <2> QED
    BY <2>1, <2>2, FS_Subset, Zenon
<1>3. /\ Between(q, a, n) \subseteq Between(q, a, b) /\ Between(q, n, b) \subseteq Between(q, a, b)
      /\ n \notin Between(q, a, n) /\ n \notin Between(q, n, b)
  BY <1>1, Order, Zenon DEF Between
<1>4. ASSUME NEW X, X \subseteq Between(q, a, b), n \notin X PROVE Cardinality(X) < Cardinality(Between(q, a, b))
  <2>1. Cardinality(X) <= Cardinality(Between(q, a, b)) /\ IsFiniteSet(X)
    BY <1>2, <1>4, FS_Subset, Zenon
  <2>2. Cardinality(X) = Cardinality(Between(q, a, b)) => X = Between(q, a, b)
    BY <1>2, <1>4, FS_Subset, Zenon
  <2>3. X # Between(q, a, b)
    BY <1>4
  <2>4. Cardinality(X) \in Nat /\ Cardinality(Between(q, a, b)) \in Nat
    BY <1>2, <2>1, FS_CardinalityType, Zenon
  <2> QED
    BY ONLY <2>1, <2>2, <2>3, <2>4
<1> QED
  BY <1>1, <1>3, <1>4, Zenon

\* Two snapshots out of order, of those from j to k.
Inverted(q, j, k, a, b) ==
  /\ Precedes(q, a, b) /\ q[b].create_time < q[a].create_time
  /\ q[j].xid <= q[a].xid /\ q[b].xid <= q[k].xid

\* Of two snapshots that are out of order and not neighbours, one is out of order with
\* any that lies between.
LEMMA Narrower ==
  ASSUME NEW q, IsSnaps(q), NEW j \in DOMAIN q, NEW k \in DOMAIN q, NEW a \in DOMAIN q, NEW b \in DOMAIN q,
         Inverted(q, j, k, a, b), NEW n \in Between(q, a, b)
  PROVE  n \in DOMAIN q /\ (Inverted(q, j, k, a, n) \/ Inverted(q, j, k, n, b))
<1>1. n \in DOMAIN q /\ Precedes(q, a, n) /\ Precedes(q, n, b)
  BY Gaps
<1>2. q[a].xid <= q[n].xid /\ q[n].xid <= q[b].xid
  BY <1>1, Order
<1>3. \A m \in DOMAIN q : q[m].xid \in Nat /\ q[m].create_time \in Nat
  BY SnapNumbers
<1>4. CASE q[n].create_time < q[a].create_time
  BY <1>1, <1>2, <1>3, <1>4 DEF Inverted
<1>5. CASE ~(q[n].create_time < q[a].create_time)
  BY <1>1, <1>2, <1>3, <1>5 DEF Inverted
<1> QED
  BY <1>1, <1>4, <1>5

\* If two snapshots are out of order, two neighbours from one to the other are.
LEMMA DisorderOfNeighbours ==
  ASSUME NEW q, IsSnaps(q), \A n \in DOMAIN q : q[n].create_time # 0,
         NEW j \in DOMAIN q, NEW k \in DOMAIN q,
         q[j].xid < q[k].xid, q[k].create_time < q[j].create_time
  PROVE  \E n \in DOMAIN q : /\ q[j].xid <= q[n].xid /\ q[n].xid <= q[k].xid
                             /\ \E a \in DOMAIN q : OutOfOrder(q, a, n)
<1> DEFINE Gap(a, b) == Cardinality(Between(q, a, b))
           T == {m \in Nat : \E a, b \in DOMAIN q : Inverted(q, j, k, a, b) /\ m = Gap(a, b)}
<1>0. \A m \in DOMAIN q : q[m].xid \in Nat
  BY SnapNumbers
<1>1. \A a, b \in DOMAIN q : Gap(a, b) \in Nat
  <2> SUFFICES ASSUME NEW a \in DOMAIN q, NEW b \in DOMAIN q PROVE Gap(a, b) \in Nat
    OBVIOUS
  <2>1. IsFiniteSet(DOMAIN q)
    BY SnapNumbers, FS_Interval
  <2>2. Between(q, a, b) \subseteq DOMAIN q
    BY DEF Between
  <2> QED
    BY <2>1, <2>2, FS_Subset, FS_CardinalityType, Zenon
<1>2. Inverted(q, j, k, j, k)
  BY <1>0 DEF Inverted, Precedes
<1> HIDE DEF Gap
<1>3. T # {} /\ T \in SUBSET Nat
  BY <1>1, <1>2, Zenon
<1>4. PICK m \in T : \A y \in T : m <= y
  BY <1>3, LeastElement, Zenon
<1>5. PICK a \in DOMAIN q, b \in DOMAIN q : Inverted(q, j, k, a, b) /\ m = Gap(a, b)
  BY <1>4, Zenon
<1>6. \A x, y \in DOMAIN q : Inverted(q, j, k, x, y) => m <= Gap(x, y)
  BY <1>1, <1>4, Zenon
<1> HIDE DEF T
<1>7. Between(q, a, b) = {}
  <2> SUFFICES ASSUME NEW n \in Between(q, a, b) PROVE FALSE
    OBVIOUS
  <2>1. n \in DOMAIN q /\ Gap(a, n) < Gap(a, b) /\ Gap(n, b) < Gap(a, b)
    BY Gaps DEF Gap
  <2>2. Gap(a, b) <= Gap(a, n) \/ Gap(a, b) <= Gap(n, b)
    BY <1>5, <1>6, <2>1, Narrower, Zenon
  <2>3. Gap(a, b) \in Nat /\ Gap(a, n) \in Nat /\ Gap(n, b) \in Nat
    BY <1>1, <2>1
  <2> QED
    BY ONLY <2>1, <2>2, <2>3
<1>8. OutOfOrder(q, a, b)
  BY <1>5, <1>7, Zenon DEF OutOfOrder, IsWindow, Neighbours, Inverted
<1>9. q[j].xid <= q[a].xid /\ q[b].xid <= q[k].xid /\ q[a].xid <= q[b].xid
  BY <1>5, Order DEF Inverted
<1>10. q[j].xid <= q[b].xid
  BY <1>0, <1>9
<1> QED
  BY <1>8, <1>9, <1>10, Zenon

\* The names of the leads of a kind.
LeadsIn(leads, kind) == {a[2] : a \in {b \in leads : b[1] = kind}}

\* Leads add up, and those of one kind are no leads of another.
LEMMA LeadsAdd ==
  ASSUME NEW a, NEW b, NEW kind
  PROVE  /\ LeadsIn(a \cup b, kind) = LeadsIn(a, kind) \cup LeadsIn(b, kind)
         /\ (\A x \in b : x[1] # kind) => LeadsIn(b, kind) = {}
         /\ \A x \in b : x[1] = kind => x[2] \in LeadsIn(b, kind)
  BY DEF LeadsIn

\* The leads of one kind, each once.
LEMMA LeadsOf ==
  ASSUME NEW names, NEW kind
  PROVE  LeadsIn({<<kind, x>> : x \in names}, kind) = names
<1> DEFINE leads == {<<kind, x>> : x \in names}
<1>1. \A a \in leads : a[1] = kind /\ a[2] \in names
  OBVIOUS
<1>2. ASSUME NEW x \in names PROVE \E a \in leads : a[1] = kind /\ x = a[2]
  <2>1. <<kind, x>> \in leads /\ <<kind, x>>[1] = kind /\ x = <<kind, x>>[2]
    OBVIOUS
  <2> HIDE DEF leads
  <2> QED
    BY <2>1
<1> HIDE DEF leads
<1>3. LeadsIn(leads, kind) = names
  BY <1>1, <1>2 DEF LeadsIn
<1> QED
  BY <1>3 DEF leads

\* An object id is mapped to one block.
LEMMA OnePaddr ==
  ASSUME IsContainer(c), NEW o, NEW p, NEW q, PaddrOf(o, p), PaddrOf(o, q)
  PROVE  p = q
<1> DEFINE m == c.mappings
<1>1. Len(m) \in Nat /\ DOMAIN m = 1 .. Len(m)
  BY DEF IsContainer
<1>2. PICK j \in DOMAIN m : m[j].oid = o /\ m[j].paddr = p /\ \A h \in 1 .. j - 1 : m[h].oid # o
  BY Zenon DEF PaddrOf
<1>3. PICK k \in DOMAIN m : m[k].oid = o /\ m[k].paddr = q /\ \A h \in 1 .. k - 1 : m[h].oid # o
  BY Zenon DEF PaddrOf
<1> HIDE DEF m
<1>4. ~(j < k)
  BY <1>1, <1>2, <1>3
<1>5. ~(k < j)
  BY <1>1, <1>2, <1>3
<1>6. j = k
  BY <1>1, <1>4, <1>5
<1> QED
  BY <1>2, <1>3, <1>6

\* The objects of the lists with the ids in sn.
ObjectsOf(sn) == UNION {Listed(p) : p \in {q \in DOMAIN c.lists : \E o \in sn : PaddrOf(o, q)}}

\* The chain's invariant: the lists visited, and the one to visit, are reachable, what
\* they name is visited or to be, and their objects are reported.
ChainInv(sn, nx, leads) ==
  /\ c.reaper # NoReaper
  /\ sn \subseteq ListIds /\ nx \in ListIds /\ 0 \notin sn
  /\ c.reaper.head \in sn \cup {nx}
  /\ \A o \in sn : \A p \in DOMAIN c.lists : PaddrOf(o, p) => c.lists[p].next \in sn \cup {nx}
  /\ \A ids \in SUBSET ListIds : Closed(ids) => sn \subseteq ids /\ nx \in ids
  /\ sn # {} => \E o \in sn : \E p \in DOMAIN c.lists : PaddrOf(o, p) /\ c.lists[p].next = nx
  /\ leads = ({c.reaper.oid} \cup ObjectsOf(sn)) \ {0}

\* It starts with the first list and the object in progress.
LEMMA ChainStarts ==
  ASSUME c.reaper # NoReaper
  PROVE  ChainInv({}, c.reaper.head, {c.reaper.oid} \ {0})
<1>1. c.reaper.head \in ListIds
  BY DEF ListIds
<1>2. ObjectsOf({}) = {}
  BY DEF ObjectsOf
<1>3. \A ids : Closed(ids) => c.reaper.head \in ids
  BY DEF Closed
<1> QED
  BY <1>1, <1>2, <1>3 DEF ChainInv

\* It goes on with the list that is read.
LEMMA ChainGoesOn ==
  ASSUME IsContainer(c), NEW sn, NEW nx, NEW leads, ChainInv(sn, nx, leads), nx # 0,
         NEW p \in DOMAIN c.lists, PaddrOf(nx, p)
  PROVE  ChainInv(sn \cup {nx}, c.lists[p].next, leads \cup (Listed(p) \ {0}))
<1> DEFINE tn == sn \cup {nx}
           ny == c.lists[p].next
<1>1. c.reaper # NoReaper /\ tn \subseteq ListIds /\ 0 \notin tn /\ c.reaper.head \in tn \cup {ny}
  BY DEF ChainInv
<1>2. ny \in ListIds
  BY DEF ListIds
<1>3. \A q : PaddrOf(nx, q) => q = p
  BY OnePaddr, Zenon
<1>4. ASSUME NEW o \in tn, NEW q \in DOMAIN c.lists, PaddrOf(o, q) PROVE c.lists[q].next \in tn \cup {ny}
  <2>1. CASE o = nx
    BY <1>3, <1>4, <2>1
  <2>2. CASE o \in sn
    <3>1. c.lists[q].next \in sn \cup {nx}
      BY <1>4, <2>2, Zenon DEF ChainInv
    <3> QED
      BY <3>1
  <2> QED
    BY <2>1, <2>2
<1>5. ASSUME NEW ids \in SUBSET ListIds, Closed(ids) PROVE tn \subseteq ids /\ ny \in ids
  <2>1. sn \subseteq ids /\ nx \in ids
    BY <1>5, Zenon DEF ChainInv
  <2>2. ny \in ids
    BY <1>5, <2>1, Zenon DEF Closed
  <2> QED
    BY <2>1, <2>2
<1>6. \E o \in tn : \E q \in DOMAIN c.lists : PaddrOf(o, q) /\ c.lists[q].next = ny
  OBVIOUS
<1>7. ObjectsOf(tn) = ObjectsOf(sn) \cup Listed(p)
  <2>1. \A q : (\E o \in tn : PaddrOf(o, q)) <=> (\E o \in sn : PaddrOf(o, q)) \/ q = p
    BY <1>3, Zenon
  <2> HIDE DEF tn
  <2> QED
    BY <2>1 DEF ObjectsOf
<1>8. leads = ({c.reaper.oid} \cup ObjectsOf(sn)) \ {0}
  BY DEF ChainInv
<1>9. leads \cup (Listed(p) \ {0}) = ({c.reaper.oid} \cup ObjectsOf(tn)) \ {0}
  BY ONLY <1>7, <1>8
<1> HIDE DEF tn, ny
<1>10. ChainInv(tn, ny, leads \cup (Listed(p) \ {0}))
  BY <1>1, <1>2, <1>4, <1>5, <1>6, <1>9, Zenon DEF ChainInv
<1> QED
  BY <1>10 DEF tn, ny

\* At its end the lists visited are the reachable ones.
LEMMA ChainEnds ==
  ASSUME NEW sn, NEW leads, ChainInv(sn, 0, leads)
  PROVE  leads = Queued \ {0}
<1> DEFINE ids == sn \cup {0}
<1>1. ids \in SUBSET ListIds
  BY DEF ChainInv
<1>2. Closed(ids)
  <2>1. c.reaper.head \in ids
    BY DEF ChainInv
  <2>2. \A o \in sn : \A p \in DOMAIN c.lists : PaddrOf(o, p) => c.lists[p].next \in ids
    BY DEF ChainInv
  <2>3. ids \ {0} \subseteq sn
    OBVIOUS
  <2> HIDE DEF ids
  <2> QED
    BY <2>1, <2>2, <2>3, Zenon DEF Closed
<1>3. Chained \subseteq sn
  <2> SUFFICES ASSUME NEW o \in Chained PROVE o \in sn
    OBVIOUS
  <2>1. o # 0 /\ o \in ids
    BY <1>1, <1>2 DEF Chained
  <2> QED
    BY <2>1
<1>4. sn \subseteq Chained
  <2> SUFFICES ASSUME NEW o \in sn PROVE o \in Chained
    OBVIOUS
  <2>1. o \in ListIds \ {0}
    BY DEF ChainInv
  <2>2. \A is \in SUBSET ListIds : Closed(is) => o \in is
    BY DEF ChainInv
  <2> QED
    BY <2>1, <2>2, Zenon DEF Chained
<1>5. sn = Chained
  BY <1>3, <1>4
<1>6. Queued = {c.reaper.oid} \cup ObjectsOf(Chained)
  BY DEF Queued, ObjectsOf
<1> QED
  BY <1>5, <1>6 DEF ChainInv

\* The volumes audited so far have all their leads.
VolumesInv ==
  /\ IsContainer(c) /\ (apc = "open" => out = {})
  /\ v \in Nat \ {0} /\ (apc = "names" => v <= Len(c.volumes))
  /\ audited \subseteq 1 .. Len(c.volumes)
  /\ \A w \in audited : Disorders(c.volumes[w].snaps) \subseteq out

\* The objects reported.
Reported == LeadsIn(out, "ReaperPendingObject")

\* The chain that is refused has a loop, or too many lists.
Refused ==
  \/ Cardinality(seen) >= MaxReapLists
  \/ \E o \in seen : \E p \in DOMAIN c.lists : PaddrOf(o, p) /\ c.lists[p].next \in seen

\* The reaper's queue is reported list by list, once the volumes are done.
ReaperInv ==
  /\ apc \in {"open", "volumes", "names"} => seen = {} /\ Reported = {}
  /\ apc = "lists" => ChainInv(seen, next_oid, Reported)
  /\ apc = "done" => IF c.reaper = NoReaper THEN Reported = {} ELSE ChainInv(seen, 0, Reported)
  /\ error # "None" => apc = "failed"
  /\ error = "CycleGuard" => Refused

AuditInv == VolumesInv /\ ReaperInv

\* The container is the same all the time.
LEMMA SameContainer ==
  ASSUME c' = c
  PROVE  /\ IsContainer(c)' <=> IsContainer(c)
         /\ \A o, p : (PaddrOf(o, p))' <=> PaddrOf(o, p)
         /\ \A sn, nx, leads : (ChainInv(sn, nx, leads))' <=> ChainInv(sn, nx, leads)
<1>1. IsContainer(c)' <=> IsContainer(c)
  BY DEF IsContainer
<1>2. \A o, p : (PaddrOf(o, p))' <=> PaddrOf(o, p)
  BY Zenon DEF PaddrOf
<1>3. ListIds' = ListIds
  BY DEF ListIds
<1>4. \A ids : (Closed(ids))' <=> Closed(ids)
  BY <1>2, Zenon DEF Closed
<1>5. \A sn : (ObjectsOf(sn))' = ObjectsOf(sn)
  <2> SUFFICES ASSUME NEW sn PROVE (ObjectsOf(sn))' = ObjectsOf(sn)
    BY Zenon
  <2>1. \A p : (Listed(p))' = Listed(p)
    BY DEF Listed
  <2> QED
    BY <1>2, <2>1 DEF ObjectsOf
<1>6. ASSUME NEW sn, NEW nx, NEW leads
      PROVE  (ChainInv(sn, nx, leads))' <=> ChainInv(sn, nx, leads)
  <2>1. (\A ids \in SUBSET ListIds : Closed(ids) => sn \subseteq ids /\ nx \in ids)'
          <=> (\A ids \in SUBSET ListIds : Closed(ids) => sn \subseteq ids /\ nx \in ids)
    BY <1>3, <1>4, Zenon
  <2>2. (\A o \in sn : \A p \in DOMAIN c.lists : PaddrOf(o, p) => c.lists[p].next \in sn \cup {nx})'
          <=> (\A o \in sn : \A p \in DOMAIN c.lists : PaddrOf(o, p) => c.lists[p].next \in sn \cup {nx})
    BY <1>2, Zenon
  <2>3. (\E o \in sn : \E p \in DOMAIN c.lists : PaddrOf(o, p) /\ c.lists[p].next = nx)'
          <=> (\E o \in sn : \E p \in DOMAIN c.lists : PaddrOf(o, p) /\ c.lists[p].next = nx)
    BY <1>2, Zenon
  <2> QED
    BY <1>3, <1>5, <2>1, <2>2, <2>3, Zenon DEF ChainInv
<1> QED
  BY <1>1, <1>2, <1>6, Zenon

\* A step that refuses for a reason other than a loop.
LEMMA RefuseKeeps ==
  ASSUME AuditInv, NEW kind, Refuse(kind), kind = "CycleGuard" => Refused
  PROVE  AuditInv'
<1>1. /\ apc' = "failed" /\ error' = kind /\ c' = c /\ v' = v /\ s' = s /\ next_oid' = next_oid
      /\ seen' = seen /\ out' = out /\ audited' = audited
  BY DEF Refuse
<1>2. VolumesInv'
  <2>1. /\ IsContainer(c) /\ v \in Nat \ {0} /\ audited \subseteq 1 .. Len(c.volumes)
        /\ \A w \in audited : Disorders(c.volumes[w].snaps) \subseteq out
    BY Zenon DEF AuditInv, VolumesInv
  <2>2. IsContainer(c)'
    BY <1>1, <2>1, SameContainer, Zenon
  <2>3. apc' # "open" /\ apc' # "names"
    BY <1>1
  <2> QED
    BY <1>1, <2>1, <2>2, <2>3, Zenon DEF VolumesInv
<1>3. Refused' <=> Refused
  BY <1>1, SameContainer, Zenon DEF Refused
<1> QED
  BY <1>1, <1>2, <1>3 DEF AuditInv, ReaperInv

\* A step that only adds leads of another kind than the reaper's, to where the volumes
\* are still audited.
LEMMA LeadsKeep ==
  ASSUME AuditInv, NEW leads, out' = out \cup leads, \A x \in leads : x[1] # "ReaperPendingObject",
         apc \in {"open", "volumes", "names"}, apc' \in {"open", "volumes", "names"},
         c' = c, seen' = seen, error' = error
  PROVE  ReaperInv'
<1>1. Reported' = Reported
  <2>1. /\ LeadsIn(out \cup leads, "ReaperPendingObject") = Reported \cup LeadsIn(leads, "ReaperPendingObject")
        /\ LeadsIn(leads, "ReaperPendingObject") = {}
    BY LeadsAdd, Zenon DEF Reported
  <2>2. Reported' = LeadsIn(out \cup leads, "ReaperPendingObject")
    BY DEF Reported
  <2> QED
    BY <2>1, <2>2, Zenon
<1>2. error' = "None" /\ seen = {} /\ Reported = {}
  BY DEF AuditInv, ReaperInv
<1>3. apc' # "lists" /\ apc' # "done" /\ error' # "CycleGuard"
  BY <1>2
<1> QED
  BY <1>1, <1>2, <1>3, Zenon DEF ReaperInv

\* The steps over the volumes.
LEMMA VolumeSteps ==
  ASSUME AuditInv, Open \/ ReadVolume \/ CheckName \/ EndNames
  PROVE  AuditInv'
<1>0. \A kind : Refuse(kind) /\ kind # "CycleGuard" => AuditInv'
  BY RefuseKeeps, Zenon
<1>1. /\ IsContainer(c) /\ Len(c.volumes) \in Nat /\ v \in Nat \ {0}
      /\ audited \subseteq 1 .. Len(c.volumes)
      /\ \A w \in audited : Disorders(c.volumes[w].snaps) \subseteq out
  <2>1. /\ IsContainer(c) /\ v \in Nat \ {0} /\ audited \subseteq 1 .. Len(c.volumes)
        /\ \A w \in audited : Disorders(c.volumes[w].snaps) \subseteq out
    BY Zenon DEF AuditInv, VolumesInv
  <2>2. Len(c.volumes) \in Nat
    BY <2>1 DEF IsContainer
  <2> QED
    BY <2>1, <2>2, Zenon
<1>2. ASSUME NEW leads, out' = out \cup leads, \A x \in leads : x[1] # "ReaperPendingObject",
             apc \in {"open", "volumes", "names"}, apc' \in {"volumes", "names"},
             c' = c, v' \in Nat \ {0}, apc' = "names" => v' <= Len(c.volumes),
             seen' = seen, error' = error,
             \/ audited' = audited
             \/ /\ audited' = audited \cup {v} /\ v <= Len(c.volumes)
                /\ leads = Disorders(c.volumes[v].snaps)
      PROVE  AuditInv'
  <2>1. ReaperInv'
    BY <1>2, LeadsKeep, Zenon
  <2>2. audited' \subseteq 1 .. Len(c.volumes)
    <3>1. CASE audited' = audited
      BY <1>1, <3>1
    <3>2. CASE audited' = audited \cup {v} /\ v <= Len(c.volumes)
      <4>1. v \in 1 .. Len(c.volumes)
        BY <1>1, <3>2
      <4> QED
        BY <1>1, <3>2, <4>1
    <3> QED
      BY <1>2, <3>1, <3>2
  <2>3. \A w \in audited' : Disorders(c.volumes[w].snaps) \subseteq out'
    BY <1>1, <1>2, Zenon
  <2>4. (\A w \in audited : Disorders(c.volumes[w].snaps) \subseteq out)'
    BY <1>2, <2>3
  <2>5. IsContainer(c)'
    BY <1>1, <1>2, SameContainer, Zenon
  <2> QED
    BY <1>2, <2>1, <2>2, <2>4, <2>5 DEF AuditInv, VolumesInv
<1>3. CASE Open
  <2>1. CASE ~Refuse("Open")
    <3>1. /\ apc = "open" /\ apc' = "volumes" /\ out' = XidReuses
          /\ c' = c /\ v' = v /\ seen' = seen /\ audited' = audited /\ error' = error
      BY <1>3, <2>1 DEF Open
    <3>2. \A x \in XidReuses : x[1] = "XidReuse"
      BY DEF XidReuses
    <3>3. out' = out \cup XidReuses
      BY <3>1 DEF AuditInv, VolumesInv
    <3> HIDE DEF XidReuses
    <3> QED
      BY <1>1, <1>2, <3>1, <3>2, <3>3
  <2> QED
    BY <1>0, <2>1, Zenon
<1>4. CASE ReadVolume
  <2>1. CASE ~Refuse("Io") /\ ~Refuse("Snapshots")
    <3> DEFINE none == {}
    <3>1. /\ apc = "volumes" /\ v <= Len(c.volumes) /\ out' = out \cup none
          /\ c' = c /\ seen' = seen /\ audited' = audited /\ error' = error
          /\ (apc' = "volumes" /\ v' = v + 1) \/ (apc' = "names" /\ v' = v)
      BY <1>4, <2>1 DEF ReadVolume
    <3>2. v' \in Nat \ {0} /\ (apc' = "names" => v' <= Len(c.volumes))
      BY <1>1, <3>1
    <3>3. apc' \in {"volumes", "names"} /\ apc \in {"open", "volumes", "names"}
      BY <3>1
    <3>4. \A x \in none : x[1] # "ReaperPendingObject"
      OBVIOUS
    <3> HIDE DEF none
    <3> QED
      BY <1>2, <3>1, <3>2, <3>3, <3>4, Zenon
  <2> QED
    BY <1>0, <2>1, Zenon
<1>5. CASE CheckName
  <2>1. CASE ~Refuse("Snapshots")
    <3> DEFINE lead == IF Resolves(Snap.name, Snap.xid) THEN {}
                       ELSE {<<"SnapshotMissingMetadata", Snap.name>>}
    <3>1. /\ apc = "names" /\ apc' = "names" /\ v' = v
          /\ c' = c /\ seen' = seen /\ audited' = audited /\ error' = error
      BY <1>5, <2>1 DEF CheckName
    <3>2. out' = out \cup lead
      BY <1>5, <2>1 DEF CheckName
    <3>3. \A x \in lead : x[1] # "ReaperPendingObject"
      OBVIOUS
    <3>4. v <= Len(c.volumes)
      BY <3>1 DEF AuditInv, VolumesInv
    <3>5. apc' \in {"volumes", "names"} /\ apc \in {"open", "volumes", "names"}
      BY <3>1
    <3> HIDE DEF lead
    <3> QED
      BY <1>1, <1>2, <3>1, <3>2, <3>3, <3>4, <3>5, Zenon
  <2> QED
    BY <1>0, <2>1, Zenon
<1>6. CASE EndNames
  <2> DEFINE q == c.volumes[v].snaps
  <2>1. /\ apc = "names" /\ apc' = "volumes" /\ v' = v + 1 /\ out' = out \cup Disorders(q)
        /\ c' = c /\ seen' = seen /\ audited' = audited \cup {v} /\ error' = error
    BY <1>6 DEF EndNames, Volume
  <2>2. v <= Len(c.volumes)
    BY <2>1 DEF AuditInv, VolumesInv
  <2>3. \A x \in Disorders(q) : x[1] # "ReaperPendingObject"
    BY DEF Disorders
  <2> HIDE DEF q
  <2>4. v' \in Nat \ {0}
    BY <1>1, <2>1
  <2> QED
    BY <1>2, <2>1, <2>2, <2>3, <2>4, Zenon DEF q
<1> QED
  BY <1>3, <1>4, <1>5, <1>6

\* The steps of the reaper keep what the volumes' left.
LEMMA VolumesStay ==
  ASSUME VolumesInv, c' = c, v' = v, audited' = audited, out \subseteq out', apc' \in {"lists", "done"}
  PROVE  VolumesInv'
<1>1. /\ IsContainer(c) /\ v \in Nat \ {0} /\ audited \subseteq 1 .. Len(c.volumes)
      /\ \A w \in audited : Disorders(c.volumes[w].snaps) \subseteq out
  BY Zenon DEF VolumesInv
<1>2. IsContainer(c)'
  BY <1>1, SameContainer, Zenon
<1>3. \A w \in audited : Disorders(c.volumes[w].snaps) \subseteq out'
  BY <1>1
<1>4. apc' # "open" /\ apc' # "names"
  OBVIOUS
<1> QED
  BY <1>1, <1>2, <1>3, <1>4, Zenon DEF VolumesInv

\* The steps over the reaper's queue.
LEMMA ReaperSteps ==
  ASSUME AuditInv, ReadReaper \/ ReadList \/ EndLists
  PROVE  AuditInv'
<1> DEFINE kind == "ReaperPendingObject"
<1>0. \A k : Refuse(k) /\ (k = "CycleGuard" => Refused) => AuditInv'
  BY RefuseKeeps, ZenonT(30)
<1>1. IsContainer(c) /\ VolumesInv /\ ReaperInv /\ error = "None"
  BY DEF AuditInv, VolumesInv, ReaperInv, ReadReaper, ReadList, EndLists
<1>2. ASSUME c' = c, v' = v, audited' = audited, out \subseteq out', error' = error,
             \/ apc' = "lists" /\ ChainInv(seen', next_oid', Reported')
             \/ apc' = "done" /\ c.reaper = NoReaper /\ Reported' = {}
             \/ apc' = "done" /\ c.reaper # NoReaper /\ ChainInv(seen', 0, Reported')
      PROVE  AuditInv'
  <2>1. apc' \in {"lists", "done"} /\ error' = "None" /\ error' # "CycleGuard"
    BY <1>1, <1>2
  <2>2. VolumesInv'
    BY <1>1, <1>2, <2>1, VolumesStay, Zenon
  <2>3. \A sn, nx, leads : (ChainInv(sn, nx, leads))' <=> ChainInv(sn, nx, leads)
    BY <1>2, SameContainer, Zenon
  <2>4. apc' = "lists" => (ChainInv(seen, next_oid, Reported))'
    <3>1. ChainInv(seen', next_oid', Reported') => (ChainInv(seen, next_oid, Reported))'
      BY <2>3
    <3> QED
      BY <1>2, <3>1
  <2>5. apc' = "done" => (IF c.reaper = NoReaper THEN Reported = {} ELSE ChainInv(seen, 0, Reported))'
    <3>1. ChainInv(seen', 0, Reported') => (ChainInv(seen, 0, Reported))'
      BY <2>3
    <3> QED
      BY <1>2, <3>1
  <2>6. apc' \notin {"open", "volumes", "names"}
    BY <2>1
  <2>7. ReaperInv'
    BY <2>1, <2>4, <2>5, <2>6, Zenon DEF ReaperInv
  <2> QED
    BY <2>2, <2>7, Zenon DEF AuditInv
<1>3. CASE ReadReaper
  <2>0. apc = "volumes" /\ seen = {} /\ Reported = {}
    BY <1>1, <1>3 DEF ReadReaper, ReaperInv
  <2>1. CASE c.reaper = NoReaper
    <3>1. c' = c /\ v' = v /\ audited' = audited /\ out' = out /\ error' = error /\ apc' = "done"
      BY <1>3, <2>1 DEF ReadReaper
    <3>2. Reported' = {}
      BY <2>0, <3>1 DEF Reported
    <3> QED
      BY <1>2, <2>1, <3>1, <3>2, SMTT(30)
  <2>2. CASE c.reaper # NoReaper /\ ~Refuse("Io") /\ ~Refuse("ChecksumMismatch")
    <3> DEFINE first == {<<kind, x>> : x \in {c.reaper.oid} \ {0}}
    <3>1. /\ c' = c /\ v' = v /\ audited' = audited /\ seen' = seen /\ error' = error /\ apc' = "lists"
          /\ next_oid' = c.reaper.head
          /\ out' = IF c.reaper.oid # 0 THEN out \cup {<<kind, c.reaper.oid>>} ELSE out
      BY <1>3, <2>2 DEF ReadReaper
    <3>2. out' = out \cup first
      <4>1. CASE c.reaper.oid = 0
        <5>1. first = {}
          BY <4>1
        <5> QED
          BY <3>1, <4>1, <5>1
      <4>2. CASE c.reaper.oid # 0
        <5>1. first = {<<kind, c.reaper.oid>>}
          BY <4>2
        <5> QED
          BY <3>1, <4>2, <5>1
      <4> QED
        BY <4>1, <4>2
    <3>3. LeadsIn(first, kind) = {c.reaper.oid} \ {0}
      BY LeadsOf, Zenon
    <3> HIDE DEF first
    <3>4. Reported' = {c.reaper.oid} \ {0}
      <4>1. LeadsIn(out \cup first, kind) = LeadsIn(out, kind) \cup LeadsIn(first, kind)
        BY LeadsAdd, ZenonT(30)
      <4> QED
        BY <2>0, <3>2, <3>3, <4>1 DEF Reported
    <3>5. ChainInv({}, c.reaper.head, {c.reaper.oid} \ {0})
      BY <2>2, ChainStarts, Zenon
    <3>6. ChainInv(seen', next_oid', Reported')
      BY <2>0, <3>1, <3>4, <3>5
    <3> QED
      BY <1>2, <3>1, <3>2, <3>6, SMTT(30)
  <2> QED
    BY <1>0, <2>1, <2>2, ZenonT(30)
<1>4. CASE ReadList
  <2>0. apc = "lists" /\ next_oid # 0 /\ ChainInv(seen, next_oid, Reported)
    BY <1>1, <1>4 DEF ReadList, ReaperInv
  <2>1. CASE Guarded
    <3>1. Refuse("CycleGuard")
      BY <1>4, <2>1 DEF ReadList
    <3>2. Refused
      <4>1. CASE next_oid \in seen
        <5>1. \E o \in seen : \E p \in DOMAIN c.lists : PaddrOf(o, p) /\ c.lists[p].next = next_oid
          BY <2>0, <4>1 DEF ChainInv
        <5> QED
          BY <4>1, <5>1, ZenonT(30) DEF Refused
      <4>2. CASE Cardinality(seen) >= MaxReapLists
        BY <4>2 DEF Refused
      <4> QED
        BY <2>1, <4>1, <4>2 DEF Guarded
    <3> QED
      BY <1>0, <3>1, <3>2, Zenon
  <2>2. CASE ~Guarded /\ ~Refuse("OmapUnresolved") /\ ~Refuse("Io") /\ ~Refuse("ChecksumMismatch")
    <3>1. /\ c' = c /\ v' = v /\ audited' = audited /\ seen' = seen \cup {next_oid} /\ error' = error
          /\ apc' = apc
      BY <1>4, <2>2 DEF ReadList
    <3>2. \E p \in DOMAIN c.lists : /\ PaddrOf(next_oid, p) /\ out' = out \cup Pending(p)
                                    /\ next_oid' = c.lists[p].next
      BY <1>4, <2>2 DEF ReadList
    <3>3. PICK p \in DOMAIN c.lists : /\ PaddrOf(next_oid, p) /\ out' = out \cup Pending(p)
                                      /\ next_oid' = c.lists[p].next
      BY <3>2, Zenon
    <3>4. Pending(p) = {<<kind, x>> : x \in Listed(p) \ {0}}
      BY DEF Pending, EntriesOf, Listed
    <3>5. LeadsIn(Pending(p), kind) = Listed(p) \ {0}
      BY <3>4, LeadsOf, Zenon
    <3>6. Reported' = Reported \cup (Listed(p) \ {0})
      <4>1. LeadsIn(out \cup Pending(p), kind) = LeadsIn(out, kind) \cup LeadsIn(Pending(p), kind)
        BY LeadsAdd, Zenon
      <4> QED
        BY <3>3, <3>5, <4>1, SMTT(30) DEF Reported
    <3>7. ChainInv(seen \cup {next_oid}, c.lists[p].next, Reported \cup (Listed(p) \ {0}))
      BY <1>1, <2>0, <3>3, ChainGoesOn, Zenon
    <3>8. ChainInv(seen', next_oid', Reported')
      BY <3>1, <3>3, <3>6, <3>7
    <3> QED
      BY <1>2, <2>0, <3>1, <3>3, <3>8
  <2> QED
    BY <1>0, <2>1, <2>2
<1>5. CASE EndLists
  <2>0. apc = "lists" /\ next_oid = 0 /\ ChainInv(seen, next_oid, Reported)
    BY <1>1, <1>5 DEF EndLists, ReaperInv
  <2>1. /\ c' = c /\ v' = v /\ audited' = audited /\ seen' = seen /\ out' = out /\ error' = error
        /\ apc' = "done"
    BY <1>5 DEF EndLists
  <2>2. Reported' = Reported /\ c.reaper # NoReaper
    BY <2>0, <2>1 DEF Reported, ChainInv
  <2>3. ChainInv(seen', 0, Reported')
    BY <2>0, <2>1, <2>2
  <2> QED
    BY <1>2, <2>1, <2>2, <2>3
<1> QED
  BY <1>3, <1>4, <1>5

\* The audit keeps its invariant.
THEOREM AuditInvariance == AuditSpec => []AuditInv
<1>1. AuditInit => AuditInv
  <2> SUFFICES ASSUME AuditInit PROVE AuditInv
    OBVIOUS
  <2>1. c \in Containers /\ apc = "open" /\ v = 1 /\ seen = {} /\ out = {} /\ audited = {} /\ error = "None"
    BY DEF AuditInit
  <2>2. VolumesInv
    BY <2>1, AuditAssumption DEF VolumesInv
  <2>3. Reported = {}
    BY <2>1 DEF Reported, LeadsIn
  <2> QED
    BY <2>1, <2>2, <2>3 DEF AuditInv, ReaperInv
<1>2. AuditInv /\ [AuditNext]_auditvars => AuditInv'
  <2> SUFFICES ASSUME AuditInv, [AuditNext]_auditvars PROVE AuditInv'
    OBVIOUS
  <2>1. CASE AuditNext
    BY <2>1, VolumeSteps, ReaperSteps, Zenon DEF AuditNext
  <2>2. CASE UNCHANGED auditvars
    <3>1. c' = c /\ apc' = apc /\ v' = v /\ next_oid' = next_oid /\ seen' = seen /\ out' = out
          /\ audited' = audited /\ error' = error
      BY <2>2 DEF auditvars
    <3>2. VolumesInv'
      BY <3>1, SameContainer, Zenon DEF AuditInv, VolumesInv
    <3>3. Reported' = Reported
      BY <3>1 DEF Reported
    <3>4. (Refused' <=> Refused) /\ \A sn, nx, leads : (ChainInv(sn, nx, leads))' <=> ChainInv(sn, nx, leads)
      BY <3>1, SameContainer, Zenon DEF Refused
    <3>5. ReaperInv'
      BY <3>1, <3>3, <3>4, Zenon DEF AuditInv, ReaperInv
    <3> QED
      BY <3>2, <3>5, Zenon DEF AuditInv
  <2> QED
    BY <2>1, <2>2
<1> QED
  BY <1>1, <1>2, PTL DEF AuditSpec

\* Of snapshots that are out of order, however far apart, a lead names one of them or
\* one between them: of the pairs in the wrong order between them, one with the fewest
\* snapshots in between has none in between (snapshot_xid_disorder).
THEOREM DisorderNeverMissed == AuditSpec => []DisorderIsNoticed
<1>1. AuditInv => DisorderIsNoticed
  <2> SUFFICES ASSUME AuditInv, NEW w \in audited,
                      \A k \in DOMAIN c.volumes[w].snaps : c.volumes[w].snaps[k].create_time # 0,
                      NEW j \in DOMAIN c.volumes[w].snaps, NEW k \in DOMAIN c.volumes[w].snaps,
                      c.volumes[w].snaps[j].xid < c.volumes[w].snaps[k].xid,
                      c.volumes[w].snaps[k].create_time < c.volumes[w].snaps[j].create_time
               PROVE  \E n \in DOMAIN c.volumes[w].snaps :
                        /\ c.volumes[w].snaps[j].xid <= c.volumes[w].snaps[n].xid
                        /\ c.volumes[w].snaps[n].xid <= c.volumes[w].snaps[k].xid
                        /\ c.volumes[w].snaps[n].xid \in Anomalies("SnapshotXidDisorder")
    BY DEF DisorderIsNoticed
  <2> DEFINE q == c.volumes[w].snaps
  <2>1. IsContainer(c) /\ w \in 1 .. Len(c.volumes) /\ Disorders(q) \subseteq out
    BY ZenonT(30) DEF AuditInv, VolumesInv
  <2>2. IsSnaps(q)
    <3> DEFINE Vol == [parses : BOOLEAN, snaps : Seq(Snapshot), names : Seq(SnapName)]
    <3>1. c.volumes \in Seq(Vol)
      BY <2>1, Zenon DEF IsContainer
    <3> HIDE DEF Vol
    <3>2. c.volumes[w] \in Vol
      BY <2>1, <3>1
    <3> QED
      BY <3>2 DEF Vol, IsSnaps
  <2> HIDE DEF q
  <2>3. PICK n \in DOMAIN q : /\ q[j].xid <= q[n].xid /\ q[n].xid <= q[k].xid
                              /\ \E a \in DOMAIN q : OutOfOrder(q, a, n)
    BY <2>2, DisorderOfNeighbours, Zenon DEF q
  <2>4. <<"SnapshotXidDisorder", q[n].xid>> \in Disorders(q)
    BY <2>3, Zenon DEF Disorders
  <2>5. q[n].xid \in Anomalies("SnapshotXidDisorder")
    <3> DEFINE a == <<"SnapshotXidDisorder", q[n].xid>>
    <3>1. a \in out /\ a[1] = "SnapshotXidDisorder" /\ a[2] = q[n].xid
      BY <2>1, <2>4
    <3> HIDE DEF a
    <3> QED
      BY <3>1 DEF Anomalies
  <2> QED
    BY <2>3, <2>5, ZenonT(30) DEF q
<1> QED
  BY <1>1, AuditInvariance, PTL

\* The objects reported are those of the lists that can be reached, no more and no
\* fewer, and a chain of lists is refused as a cycle only if it is one or is too long
\* (pending_objects).
THEOREM QueueFullyReported == AuditSpec => []QueueIsReported
<1>1. AuditInv => QueueIsReported
  <2> SUFFICES ASSUME AuditInv PROVE QueueIsReported
    OBVIOUS
  <2>1. Anomalies("ReaperPendingObject") = Reported
    BY DEF Anomalies, Reported, LeadsIn
  <2>2. ASSUME apc = "done"
        PROVE  Reported = IF c.reaper = NoReaper THEN {} ELSE Queued \ {0}
    <3>1. IF c.reaper = NoReaper THEN Reported = {} ELSE ChainInv(seen, 0, Reported)
      BY <2>2, Zenon DEF AuditInv, ReaperInv
    <3>2. ChainInv(seen, 0, Reported) => Reported = Queued \ {0}
      BY ChainEnds, Zenon
    <3> QED
      BY <3>1, <3>2
  <2>3. error = "CycleGuard" => Refused
    BY DEF AuditInv, ReaperInv
  <2> QED
    BY <2>1, <2>2, <2>3, Zenon DEF QueueIsReported, Refused
<1> QED
  BY <1>1, AuditInvariance, PTL
=============================================================================
