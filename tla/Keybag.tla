------------------------------- MODULE Keybag -------------------------------
(***************************************************************************)
(* Keybags (core/src/encryption.rs): unlock_volume, which goes from a      *)
(* password to a volume's key through two keybags, and read_keybag with    *)
(* the encryption audit (forensic/src/crypto.rs), which only looks at one. *)
(*                                                                         *)
(* Keys are names.  A packed object that wraps a key is a record of the    *)
(* key that opens it (`by`) and the key inside (`holds`): AES-KW opens it  *)
(* with no other key.  A keybag decrypted under the wrong UUID is noise,   *)
(* in which nothing is found.                                              *)
(***************************************************************************)
EXTENDS Integers, Sequences, FiniteSets

CONSTANTS
  Images,     \* the images to consider
  Requests,   \* the volumes and passwords asked for
  MaxEntries, \* MAX_KEYBAG_ENTRIES
  None        \* an Option without a value

\* What an entry carries: a wrapped key, a block range, or what is neither: an
\* object whose fields have the wrong size, or bytes too short for anything.
Wrapped(by, holds) == [kind |-> "wrapped", by |-> by, holds |-> holds]
Prange(addr) == [kind |-> "prange", addr |-> addr]
Misfit == [kind |-> "misfit"]
Short == [kind |-> "short"]

Noise == [uuid |-> None, nkeys |-> 0, entries |-> << >>]

\* A decrypted keybag: the count its header gives, and the entries it has room for.
IsBag(b) ==
  /\ b.nkeys \in Nat
  /\ b.entries \in Seq({b.entries[n] : n \in DOMAIN b.entries})
  /\ \A n \in DOMAIN b.entries : b.entries[n].tag \in Nat /\ b.entries[n].data # None

ASSUME KeybagAssumption ==
  /\ MaxEntries \in Nat
  /\ \A im \in Images : None \notin DOMAIN im.bags /\ \A a \in DOMAIN im.bags : IsBag(im.bags[a])

VARIABLES
  image,   \* superblock fields and the keybags by block; no step changes it
  op,      \* "unlock_volume" or "read_keybag"
  want,    \* the request: [uuid, password]
  pc,      \* "start", "records", "kek", "unwrap", "observe", "done" or "failed"
  bag,     \* the decrypted keybag that is scanned
  i,       \* the entry the scan is at
  vek,     \* the wrapped volume key found
  extent,  \* the block of the volume keybag found
  kek,     \* the KEK object found
  key,     \* the volume key returned
  tags,    \* tags_present
  raws     \* the raw tags the audit reports

vars == <<image, op, want, pc, bag, i, vek, extent, kek, key, tags, raws>>

Init ==
  /\ image \in Images
  /\ op \in {"unlock_volume", "read_keybag"}
  /\ want \in Requests
  /\ pc = "start"
  /\ bag = Noise /\ i = 1
  /\ vek = None /\ extent = None /\ kek = None /\ key = None
  /\ tags = {} /\ raws = << >>

Fail == pc' = "failed" /\ UNCHANGED <<image, op, want, bag, i, vek, extent, kek, key, tags, raws>>

----------------------------------------------------------------------------
\* KeybagTag::from_u16.
from_u16(t) ==
  CASE t = 1 -> "WrappingKey"
    [] t = 2 -> "VolumeKey"
    [] t = 3 -> "VolumeUnlockRecords"
    [] t = 4 -> "VolumePassphraseHint"
    [] t = 248 -> "UserPayload"
    [] OTHER -> "Unknown"

Blocks == DOMAIN image.bags

\* decrypt_keybag_area.
Decrypted(addr, uuid) ==
  IF addr \in Blocks /\ image.bags[addr].uuid = uuid THEN image.bags[addr] ELSE Noise

\* Each scan stops at kl_nkeys, the cap, or the end of the blob.
InScan == i <= bag.nkeys /\ i <= MaxEntries /\ i <= Len(bag.entries)

\* The next entry, past the header and the data of this one.
Advance(e) == i + 1

\* decrypt_container_keybag, from the superblock at block 0.
DecryptContainerKeybag ==
  /\ pc = "start"
  /\ IF image.magic /\ image.block_size_ok /\ image.keylocker \in Blocks
     THEN /\ bag' = Decrypted(image.keylocker, image.uuid)
          /\ pc' = IF op = "unlock_volume" THEN "records" ELSE "observe"
          /\ UNCHANGED <<image, op, want, i, vek, extent, kek, key, tags, raws>>
     ELSE Fail

----------------------------------------------------------------------------
\* Entries carry the UUID of the volume they belong to.
IsOurs(e) == e.uuid = want.uuid

\* A nested object with a key of the right size.
IsKey(d) == d.kind = "wrapped"

\* One turn of the loop of volume_records; a later entry replaces an earlier one.
ScanRecord ==
  /\ pc = "records" /\ InScan
  /\ LET e == bag.entries[i]
         t == from_u16(e.tag)
     IN \/ /\ IsOurs(e) /\ t = "VolumeKey" /\ IsKey(e.data)
           /\ vek' = e.data /\ i' = Advance(e)
           /\ UNCHANGED <<image, op, want, pc, bag, extent, kek, key, tags, raws>>
        \/ IsOurs(e) /\ t = "VolumeKey" /\ ~IsKey(e.data) /\ Fail
        \/ IsOurs(e) /\ t = "VolumeUnlockRecords" /\ e.data.kind = "short" /\ Fail
        \/ /\ IsOurs(e) /\ t = "VolumeUnlockRecords" /\ e.data.kind # "short"
           /\ \E a \in IF e.data.kind = "prange" THEN {e.data.addr} ELSE Blocks \cup {0} :
                extent' = a
           /\ i' = Advance(e)
           /\ UNCHANGED <<image, op, want, pc, bag, vek, kek, key, tags, raws>>
        \/ /\ ~IsOurs(e) \/ t \notin {"VolumeKey", "VolumeUnlockRecords"}
           /\ i' = Advance(e)
           /\ UNCHANGED <<image, op, want, pc, bag, vek, extent, kek, key, tags, raws>>

\* Both records must be there; unlock_volume then reads and decrypts the volume's
\* own keybag.  A range at block 0 is read too, and is noise.
EndRecords ==
  /\ pc = "records" /\ ~InScan
  /\ IF vek # None /\ extent # None /\ extent \in Blocks \cup {0}
     THEN /\ bag' = Decrypted(extent, want.uuid)
          /\ i' = 1
          /\ pc' = "kek"
          /\ UNCHANGED <<image, op, want, vek, extent, kek, key, tags, raws>>
     ELSE Fail

----------------------------------------------------------------------------
\* Only the tag that means a KEK in a container keybag.
MayBeKek_Container(t) == t = "WrappingKey"

\* In a volume keybag tag 3 is a KEK, too.
MayBeKek(t) == t \in {"WrappingKey", "VolumeUnlockRecords"}

\* One turn of find_kek_object: the first object with a nested key is taken.
ScanKek ==
  /\ pc = "kek" /\ InScan
  /\ LET e == bag.entries[i] IN
     IF MayBeKek(from_u16(e.tag)) /\ e.data.kind \in {"wrapped", "misfit"}
     THEN /\ kek' = e.data
          /\ pc' = "unwrap"
          /\ UNCHANGED <<image, op, want, bag, i, vek, extent, key, tags, raws>>
     ELSE /\ i' = Advance(e)
          /\ UNCHANGED <<image, op, want, pc, bag, vek, extent, kek, key, tags, raws>>

NoKek == pc = "kek" /\ ~InScan /\ Fail

\* A chain whose second integrity check is not looked at.
Opens_First(k) == k.kind = "wrapped" /\ k.by = want.password

\* aes_key_unwrap, twice: the KEK with the password's key, the volume key with the
\* KEK.
Opens(k) == k.kind = "wrapped" /\ k.by = want.password /\ vek.by = k.holds

\* unlock_with_volume_keybag after the search.
Unwrap ==
  /\ pc = "unwrap"
  /\ IF Opens(kek)
     THEN /\ key' = vek.holds
          /\ pc' = "done"
          /\ UNCHANGED <<image, op, want, bag, i, vek, extent, kek, tags, raws>>
     ELSE Fail

----------------------------------------------------------------------------
\* A walk that leaves the loop at a tag it does not know.
Observe_UntilUnknown ==
  /\ pc = "observe" /\ InScan
  /\ LET e == bag.entries[i] IN
     /\ tags' = tags \cup {from_u16(e.tag)}
     /\ raws' = raws
     /\ i' = IF from_u16(e.tag) = "Unknown" THEN Len(bag.entries) + 1 ELSE Advance(e)
  /\ UNCHANGED <<image, op, want, pc, bag, vek, extent, kek, key>>

\* crypto_anomalies reports the low byte of an unknown tag.
raw_tag(t) == t % 256

\* One turn of read_keybag, and what is reported of it.
Observe ==
  /\ pc = "observe" /\ InScan
  /\ LET e == bag.entries[i] IN
     /\ tags' = tags \cup {from_u16(e.tag)}
     /\ raws' = IF from_u16(e.tag) = "Unknown" THEN Append(raws, raw_tag(e.tag)) ELSE raws
     /\ i' = Advance(e)
  /\ UNCHANGED <<image, op, want, pc, bag, vek, extent, kek, key>>

EndObserve ==
  /\ pc = "observe" /\ ~InScan
  /\ pc' = "done"
  /\ UNCHANGED <<image, op, want, bag, i, vek, extent, kek, key, tags, raws>>

encrypted == tags \cap {"WrappingKey", "VolumeKey", "VolumeUnlockRecords"} # {}

Next ==
  \/ DecryptContainerKeybag \/ ScanRecord \/ EndRecords
  \/ ScanKek \/ NoKek \/ Unwrap
  \/ Observe \/ EndObserve

Spec == Init /\ [][Next]_vars

----------------------------------------------------------------------------
\* The entries of the keybag at a block, and the keys a password opens in it.
EntriesAt(addr) == {image.bags[addr].entries[n] : n \in DOMAIN image.bags[addr].entries}
KeksOf(addr, password) ==
  {e.data.holds : e \in {x \in EntriesAt(addr) : x.tag \in {1, 3} /\ x.data.kind = "wrapped" /\ x.data.by = password}}

\* What a writer guarantees: one volume key and one keybag for each volume, the
\* volume's keybag under the volume's UUID with KEKs that open the volume key.
WellWritten(uuid) ==
  /\ image.magic /\ image.block_size_ok
  /\ image.keylocker \in Blocks /\ image.bags[image.keylocker].uuid = image.uuid
  /\ \A a \in Blocks : image.bags[a].nkeys = Len(image.bags[a].entries) /\ image.bags[a].nkeys <= MaxEntries
  /\ \E e, r \in EntriesAt(image.keylocker) :
       /\ {x \in EntriesAt(image.keylocker) : x.uuid = uuid /\ x.tag \in {2, 3}} = {e, r}
       /\ e.tag = 2 /\ e.data.kind = "wrapped"
       /\ r.tag = 3 /\ r.data.kind = "prange" /\ r.data.addr \in Blocks
       /\ image.bags[r.data.addr].uuid = uuid
       /\ \A x \in EntriesAt(r.data.addr) :
            x.tag \in {1, 3} => x.data.kind = "wrapped" /\ x.data.holds = e.data.by

\* The passwords of a volume.
PasswordsOf(uuid) ==
  {x.data.by : x \in UNION {{y \in EntriesAt(r.data.addr) : y.tag \in {1, 3} /\ y.data.kind = "wrapped"} :
                              r \in {z \in EntriesAt(image.keylocker) :
                                       z.uuid = uuid /\ z.tag = 3 /\ z.data.kind = "prange" /\ z.data.addr \in Blocks}}}

\* The password of the first KEK in the volume's keybag.
FirstPassword(uuid, password) ==
  \E r \in EntriesAt(image.keylocker) :
    /\ r.uuid = uuid /\ r.tag = 3 /\ r.data.kind = "prange" /\ r.data.addr \in Blocks
    /\ LET es == image.bags[r.data.addr].entries IN
       \E n \in DOMAIN es : /\ es[n].tag \in {1, 3} /\ es[n].data.by = password
                            /\ \A m \in 1 .. n - 1 : es[m].tag \notin {1, 3}

\* Type invariant.
TypeOK ==
  /\ pc \in {"start", "records", "kek", "unwrap", "observe", "done", "failed"}
  /\ i \in 1 .. Len(bag.entries) + 1
  /\ extent \in Blocks \cup {0, None, Cardinality(Blocks) + 1}
  /\ vek # None => vek.kind = "wrapped"
  /\ kek # None => kek.kind \in {"wrapped", "misfit"}
  /\ key # None => pc = "done" /\ op = "unlock_volume"

\* Whatever the keybags hold, a key that is returned was stored for this very
\* volume, and the password opens a KEK that opens it: no other volume's key and no
\* key behind another password is handed out (volume_records, aes_key_unwrap).
KeyIsTheVolumes ==
  key # None =>
    \E e \in EntriesAt(image.keylocker) :
      /\ e.uuid = want.uuid /\ e.tag = 2 /\ e.data.kind = "wrapped" /\ e.data.holds = key
      /\ \E a \in Blocks : image.bags[a].uuid = want.uuid /\ e.data.by \in KeksOf(a, want.password)

\* The password of the first KEK unlocks the volume, whatever entries lie before it
\* and whatever KEKs after it: on a well-written container unlock_volume fails only
\* for another password (find_kek_object).
PasswordUnlocks ==
  pc = "failed" /\ WellWritten(want.uuid) /\ FirstPassword(want.uuid, want.password)
  => op = "read_keybag"

\* encryption.rs:543-544 says that unlock_volume fails "if a keybag is malformed, or if
\* the password is wrong": in a well-written container, for none of the passwords that
\* the volume has.
EveryPasswordUnlocks ==
  pc = "failed" /\ WellWritten(want.uuid) /\ want.password \in PasswordsOf(want.uuid)
  => op = "read_keybag"

\* The audit sees all of a keybag: it reports key material exactly if some entry
\* has it, and as many anomalies as there are unknown tags (read_keybag).
StateIsObserved ==
  pc = "done" /\ op = "read_keybag" =>
    LET seen == {n \in DOMAIN bag.entries : n <= bag.nkeys /\ n <= MaxEntries} IN
    /\ encrypted <=> \E n \in seen : bag.entries[n].tag \in 1 .. 3
    /\ Len(raws) = Cardinality({n \in seen : bag.entries[n].tag \notin {1, 2, 3, 4, 248}})
=============================================================================
