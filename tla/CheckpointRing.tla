--------------------------- MODULE CheckpointRing ---------------------------
(***************************************************************************)
(* The reader of module Checkpoint against the writer that fills the ring. *)
(*                                                                         *)
(* The writer is the operating system that produced the image, external to *)
(* the repository and modelled from what checkpoint.rs expects of it:      *)
(* superblocks are written transactionally, each checkpoint being its map  *)
(* blocks followed by its superblock in consecutive slots of the ring.  A  *)
(* block write is two steps, so that a crash can leave the slot torn; the  *)
(* writer may crash anywhere and resume after the last committed           *)
(* checkpoint, over the remains of the one it had begun.  Its xids are     *)
(* never reused.                                                           *)
(*                                                                         *)
(* The image is taken at a crash or between transactions and no longer     *)
(* changes; or the source is attached, being the device itself, and the    *)
(* writer keeps running under the reader.                                  *)
(***************************************************************************)
EXTENDS Checkpoint

CONSTANTS
  MaxMaps,   \* map blocks of the largest checkpoint
  MaxXid     \* bound on the transactions the writer begins

VARIABLES
  attached,   \* whether the source is the device itself; no step changes it
  wpc,        \* "idle", "writing", "torn" or "gone"
  txn,        \* the transaction being written: xid, map blocks, blocks done
  head,       \* the slot the next block goes to
  last,       \* the largest xid used
  committed   \* the last checkpoint whose superblock was completed

writer == <<attached, wpc, txn, head, last, committed>>
ringvars == <<vars, writer>>

Spaceman == 1

Blank == [type |-> "other", magic |-> 0, cksum |-> TRUE, xid |-> 0, block_size |-> MinBlockSize,
          fusion |-> FALSE, tree |-> FALSE, map |-> << >>]

SuperblockOf(xid) == [Blank EXCEPT !.type = "nxsb", !.magic = NX_MAGIC, !.xid = xid]

\* Map block k of checkpoint xid; the spaceman is listed in the last of them.
PaddrAt(xid, k) == 10 * xid + k
MapOf(xid, k, maps) ==
  [Blank EXCEPT !.type = "map", !.xid = xid,
                !.map = << [oid |-> IF k = maps THEN Spaceman ELSE Spaceman + k,
                            paddr |-> PaddrAt(xid, k)] >>]

\* A block whose write was cut short: its checksum does not match.
Torn(b) == [b EXCEPT !.cksum = FALSE]

\* Everything the writer ever completes.
Written ==
  {Blank} \cup {SuperblockOf(x) : x \in 1 .. MaxXid}
    \cup {MapOf(x, k, m) : x \in 1 .. MaxXid, k \in 1 .. MaxMaps, m \in 1 .. MaxMaps}

\* The ring has room for two of the largest checkpoints, the block size is one the
\* reader accepts, and the reader takes at least one mapping of a map block.
ASSUME RingAssumption ==
  /\ MaxMaps \in Nat \ {0} /\ MaxXid \in Nat \ {0}
  /\ DescBlocks >= 2 * (MaxMaps + 1)
  /\ MinBlockSize <= MaxBlockSize
  /\ MaxCpmCount >= 1
  /\ \A b \in Written : b \in Blocks /\ Torn(b) \in Blocks
  /\ SuperblockOf(1) \in ZeroBlocks

NewBlock == IF txn.done < txn.maps THEN MapOf(txn.xid, txn.done + 1, txn.maps)
                                   ELSE SuperblockOf(txn.xid)

\* A formatted container: checkpoint 1 in the first slots.
RingInit ==
  /\ zero = SuperblockOf(1)
  /\ ring = [s \in Slots |-> IF s = 0 THEN MapOf(1, 1, 1) ELSE IF s = 1 THEN SuperblockOf(1) ELSE Blank]
  /\ ReaderInit
  /\ attached \in BOOLEAN
  /\ wpc = "idle"
  /\ txn = [xid |-> 1, maps |-> 1, done |-> 2]
  /\ head = 2 % DescBlocks
  /\ last = 1
  /\ committed = [xid |-> 1, maps |-> 1, next |-> 2 % DescBlocks]

Running == attached \/ pc = "start"

BeginTransaction(maps) ==
  /\ Running /\ wpc = "idle" /\ last < MaxXid
  /\ wpc' = "writing"
  /\ last' = last + 1
  /\ txn' = [xid |-> last + 1, maps |-> maps, done |-> 0]
  /\ UNCHANGED <<vars, attached, head, committed>>

BeginWrite ==
  /\ Running /\ wpc = "writing"
  /\ ring' = [ring EXCEPT ![head] = Torn(NewBlock)]
  /\ wpc' = "torn"
  /\ UNCHANGED <<zero, reader, attached, txn, head, last, committed>>

EndWrite ==
  /\ Running /\ wpc = "torn"
  /\ ring' = [ring EXCEPT ![head] = NewBlock]
  /\ head' = (head + 1) % DescBlocks
  /\ txn' = [txn EXCEPT !.done = @ + 1]
  /\ \/ /\ txn.done < txn.maps
        /\ wpc' = "writing"
        /\ UNCHANGED committed
     \/ /\ txn.done = txn.maps
        /\ wpc' = "idle"
        /\ committed' = [xid |-> txn.xid, maps |-> txn.maps, next |-> (head + 1) % DescBlocks]
  /\ UNCHANGED <<zero, reader, attached, last>>

\* A crash, and the mount that resumes after the last committed checkpoint.
CrashAndResume ==
  /\ Running /\ wpc \in {"writing", "torn"}
  /\ wpc' = "idle"
  /\ head' = committed.next
  /\ UNCHANGED <<vars, attached, txn, last, committed>>

\* The machine stops for good, at any point, and the image is taken.
PowerOff ==
  /\ Running /\ wpc # "gone"
  /\ wpc' = "gone"
  /\ UNCHANGED <<vars, attached, txn, head, last, committed>>

Writer ==
  \/ \E maps \in 1 .. MaxMaps : BeginTransaction(maps)
  \/ BeginWrite
  \/ EndWrite
  \/ CrashAndResume
  \/ PowerOff

Reader ==
  /\ attached \/ wpc = "gone"
  /\ Next
  /\ UNCHANGED writer

RingNext == Writer \/ Reader

RingSpec == RingInit /\ [][RingNext]_ringvars

----------------------------------------------------------------------------
\* Whatever the crash left in the ring, opening its image finds the last
\* committed checkpoint: no torn or abandoned one, and no earlier one; and
\* only a failing source makes open refuse it (resolve_live_checkpoint).
OpensLastCommitted ==
  ~attached =>
    /\ pc = "open" => superblock.xid = committed.xid
    /\ pc = "failed" => error.kind = "Io"

\* The spaceman is found where the last committed checkpoint put it, never
\* where a superseded or abandoned one still in the ring says
\* (the second scan, resolve_ephemeral, spaceman_paddr).
SpacemanOfCommitted ==
  ~attached /\ pc = "open" => resolve_ephemeral(Spaceman) = PaddrAt(committed.xid, committed.maps)

\* On an attached device the slot may be rewritten between the scan and the
\* re-read: what open keeps is nevertheless checksum-valid and no older than
\* what the scan chose (NxSuperblock::parse at the re-read).
RereadIsVerified ==
  pc = "open" =>
    /\ superblock.cksum /\ superblock.magic = NX_MAGIC
    /\ superblock.xid >= best.xid
=============================================================================
