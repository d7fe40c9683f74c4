-------------------------------- MODULE Audit -------------------------------
(***************************************************************************)
(* audit_container and audit_volume (forensic/src/lib.rs) with the audits  *)
(* they run: duplicate mappings (integrity.rs), snapshot names and order   *)
(* (snapshots.rs) and the reaper's queue (recovery.rs), which              *)
(* pending_objects walks (core/src/reaper.rs).  Opening the container is   *)
(* module Checkpoint, the volume addresses Omap, the snapshots SnapTree.   *)
(*                                                                         *)
(* The anomalies found are a set of kinds and names: which there are, not  *)
(* in which order or how often.                                            *)
(***************************************************************************)
EXTENDS Integers, Sequences, FiniteSets

CONSTANTS
  Containers,   \* the containers to consider
  MaxReapLists, \* MAX_REAP_LISTS
  NoReaper      \* a checkpoint that maps no reaper

Snapshot == [name : Nat, xid : Nat, create_time : Nat]
SnapName == [name : Nat, xid : Nat]
ReapList == [next : Nat, entries : Seq(Nat), count : Nat]

\* A container: the checkpoint's mappings, the volumes with their snapshots and name
\* records, the reaper, and the reap list in each block that holds one; any other
\* block fails its checksum.
IsContainer(x) ==
  /\ x.mappings \in Seq([oid : Nat, paddr : Nat])
  /\ x.volumes \in Seq([parses : BOOLEAN, snaps : Seq(Snapshot), names : Seq(SnapName)])
  /\ x.reaper # NoReaper => x.reaper \in [oid : Nat, head : Nat, cksum : BOOLEAN]
  /\ DOMAIN x.lists \subseteq Nat /\ x.lists \in [DOMAIN x.lists -> ReapList]

ASSUME AuditAssumption == MaxReapLists \in Nat /\ \A x \in Containers : IsContainer(x)

VARIABLES
  c,        \* the container; no step changes it
  apc,      \* "open", "volumes", "names", "lists", "done" or "failed"
  v,        \* the volume the loop is at
  s,        \* the snapshot of it the loop is at
  next_oid, \* the reap list to visit
  seen,     \* the reap lists visited
  out,      \* the anomalies found
  audited,  \* volumes that were audited (history)
  error

auditvars == <<c, apc, v, s, next_oid, seen, out, audited, error>>

AuditInit ==
  /\ c \in Containers
  /\ apc = "open"
  /\ v = 1 /\ s = 1
  /\ next_oid = 0 /\ seen = {}
  /\ out = {}
  /\ audited = {}
  /\ error = "None"

Refuse(kind) ==
  /\ apc' = "failed"
  /\ error' = kind
  /\ UNCHANGED <<c, v, s, next_oid, seen, out, audited>>

----------------------------------------------------------------------------
\* duplicate_oid_anomalies: the first sighting of an oid that has another block later.
Collides(n) ==
  \E k \in n + 1 .. Len(c.mappings) :
    c.mappings[k].oid = c.mappings[n].oid /\ c.mappings[k].paddr # c.mappings[n].paddr

First(n) == \A k \in 1 .. n - 1 : c.mappings[k].oid # c.mappings[n].oid

XidReuses ==
  {<<"XidReuse", c.mappings[n].oid>> : n \in {k \in DOMAIN c.mappings : First(k) /\ Collides(k)}}

\* Opening the container, the integrity audit, and the volumes' addresses.
Open ==
  /\ apc = "open"
  /\ \/ Refuse("Open")
     \/ /\ out' = XidReuses
        /\ apc' = "volumes"
        /\ UNCHANGED <<c, v, s, next_oid, seen, audited, error>>

Volume == c.volumes[v]

\* One turn of the loop over the volumes: the superblock is read; one that does not
\* parse is passed over.  audit_volume starts with list_snapshots.
ReadVolume ==
  /\ apc = "volumes" /\ v <= Len(c.volumes)
  /\ \/ Refuse("Io")
     \/ /\ ~Volume.parses
        /\ v' = v + 1
        /\ UNCHANGED <<c, apc, s, next_oid, seen, out, audited, error>>
     \/ Volume.parses /\ Refuse("Snapshots")
     \/ /\ Volume.parses
        /\ apc' = "names" /\ s' = 1
        /\ UNCHANGED <<c, v, next_oid, seen, out, audited, error>>

Snap == Volume.snaps[s]

\* resolve_snapshot_xid: the first name record with the name.
Resolves(name, xid) ==
  \E k \in DOMAIN Volume.names :
    /\ Volume.names[k].name = name /\ Volume.names[k].xid = xid
    /\ \A j \in 1 .. k - 1 : Volume.names[j].name # name

\* Does a name resolve back to its snapshot?
CheckName ==
  /\ apc = "names" /\ s <= Len(Volume.snaps)
  /\ \/ Refuse("Snapshots")
     \/ /\ out' = IF Resolves(Snap.name, Snap.xid) THEN out
                  ELSE out \cup {<<"SnapshotMissingMetadata", Snap.name>>}
        /\ s' = s + 1
        /\ UNCHANGED <<c, apc, v, next_oid, seen, audited, error>>

\* sort_by_key: by xid, and snapshots of one xid as they came.
Precedes(q, j, k) == q[j].xid < q[k].xid \/ (q[j].xid = q[k].xid /\ j < k)

Between(q, j, k) == {n \in DOMAIN q : Precedes(q, j, n) /\ Precedes(q, n, k)}

Neighbours(q, j, k) == Precedes(q, j, k) /\ Between(q, j, k) = {}

\* Pairs that do not overlap.
IsWindow_Chunks(q, j, k) == Neighbours(q, j, k) /\ Cardinality({n \in DOMAIN q : Precedes(q, n, k)}) % 2 = 1

\* windows(2): two neighbours.
IsWindow(q, j, k) == Neighbours(q, j, k)

\* snapshot_xid_disorder: of neighbours, both with a creation time, the later is older.
OutOfOrder(q, j, k) ==
  /\ IsWindow(q, j, k)
  /\ q[j].create_time # 0 /\ q[k].create_time # 0
  /\ q[k].create_time < q[j].create_time

Disorders(q) ==
  {<<"SnapshotXidDisorder", q[k].xid>> : k \in {n \in DOMAIN q : \E j \in DOMAIN q : OutOfOrder(q, j, n)}}

\* The end of audit_volume; clones::audit has nothing to report.
EndNames ==
  /\ apc = "names" /\ s > Len(Volume.snaps)
  /\ out' = out \cup Disorders(Volume.snaps)
  /\ audited' = audited \cup {v}
  /\ v' = v + 1
  /\ apc' = "volumes"
  /\ UNCHANGED <<c, s, next_oid, seen, error>>

----------------------------------------------------------------------------
\* pending_objects: the reaper itself, if the checkpoint maps it, and the object
\* that is being reaped.
ReadReaper ==
  /\ apc = "volumes" /\ v > Len(c.volumes)
  /\ \/ /\ c.reaper = NoReaper
        /\ apc' = "done"
        /\ UNCHANGED <<c, v, s, next_oid, seen, out, audited, error>>
     \/ c.reaper # NoReaper /\ Refuse("Io")
     \/ c.reaper # NoReaper /\ ~c.reaper.cksum /\ Refuse("ChecksumMismatch")
     \/ /\ c.reaper # NoReaper /\ c.reaper.cksum
        /\ out' = IF c.reaper.oid # 0 THEN out \cup {<<"ReaperPendingObject", c.reaper.oid>>} ELSE out
        /\ next_oid' = c.reaper.head
        /\ apc' = "lists"
        /\ UNCHANGED <<c, v, s, seen, audited, error>>

\* The block an ephemeral object is mapped to.
PaddrOf(oid, p) ==
  \E k \in DOMAIN c.mappings :
    /\ c.mappings[k].oid = oid /\ c.mappings[k].paddr = p
    /\ \A j \in 1 .. k - 1 : c.mappings[j].oid # oid

Unmapped(oid) == \A k \in DOMAIN c.mappings : c.mappings[k].oid # oid

\* Without the set of lists seen: nothing to look in, and nothing to count.
Guarded_NoSeen == FALSE

\* A list is visited once, and no more than MAX_REAP_LISTS are.
Guarded == next_oid \in seen \/ Cardinality(seen) >= MaxReapLists

\* A count taken for the index of the last entry.
EntriesOf_ButLast(p) ==
  LET r == c.lists[p]
  IN  {r.entries[k] : k \in {n \in DOMAIN r.entries : n < r.count}}

\* The entries of a list: as many as it counts, at most what the block holds.
EntriesOf(p) ==
  LET r == c.lists[p]
  IN  {r.entries[k] : k \in {n \in DOMAIN r.entries : n <= r.count}}

\* The objects of a list; object id 0 is an unused entry.
Pending(p) == {<<"ReaperPendingObject", o>> : o \in EntriesOf(p) \ {0}}

\* One turn of the loop over the reap lists.
ReadList ==
  /\ apc = "lists" /\ next_oid # 0
  /\ \/ Guarded /\ Refuse("CycleGuard")
     \/ ~Guarded /\ Unmapped(next_oid) /\ Refuse("OmapUnresolved")
     \/ ~Guarded /\ ~Unmapped(next_oid) /\ Refuse("Io")
     \/ /\ ~Guarded /\ ~Unmapped(next_oid)
        /\ \A p \in DOMAIN c.lists : ~PaddrOf(next_oid, p)
        /\ Refuse("ChecksumMismatch")
     \/ /\ ~Guarded
        /\ \E p \in DOMAIN c.lists :
             /\ PaddrOf(next_oid, p)
             /\ out' = out \cup Pending(p)
             /\ next_oid' = c.lists[p].next
        /\ seen' = seen \cup {next_oid}
        /\ UNCHANGED <<c, apc, v, s, audited, error>>

EndLists ==
  /\ apc = "lists" /\ next_oid = 0
  /\ apc' = "done"
  /\ UNCHANGED <<c, v, s, next_oid, seen, out, audited, error>>

AuditNext ==
  \/ Open \/ ReadVolume \/ CheckName \/ EndNames
  \/ ReadReaper \/ ReadList \/ EndLists

AuditSpec == AuditInit /\ [][AuditNext]_auditvars

\* The audit is one sequential call.
FairSpec == AuditSpec /\ WF_auditvars(AuditNext)

----------------------------------------------------------------------------
Anomalies(kind) == {a[2] : a \in {b \in out : b[1] = kind}}

\* The reap lists reachable from the reaper: what every set has that has the first one
\* and, with a list, the one it names next; 0 names none.
ListIds == {c.reaper.head} \cup {c.lists[p].next : p \in DOMAIN c.lists}

Closed(ids) ==
  /\ c.reaper.head \in ids
  /\ \A o \in ids \ {0} : \A p \in DOMAIN c.lists : PaddrOf(o, p) => c.lists[p].next \in ids

Chained == {o \in ListIds \ {0} : \A ids \in SUBSET ListIds : Closed(ids) => o \in ids}

\* The objects of the queue: the one in progress, and those the lists count.
Listed(p) == {c.lists[p].entries[k] : k \in {n \in DOMAIN c.lists[p].entries : n <= c.lists[p].count}}

Queued ==
  {c.reaper.oid} \cup UNION {Listed(p) : p \in {q \in DOMAIN c.lists : \E o \in Chained : PaddrOf(o, q)}}

\* Type invariant.
AuditTypeOK ==
  /\ apc \in {"open", "volumes", "names", "lists", "done", "failed"}
  /\ v \in 1 .. Len(c.volumes) + 1
  /\ s \in Nat /\ next_oid \in Nat
  /\ Cardinality(seen) <= MaxReapLists
  /\ audited \subseteq 1 .. Len(c.volumes)
  /\ error \in {"None", "Open", "Io", "ChecksumMismatch", "Snapshots", "CycleGuard", "OmapUnresolved"}

\* If any two snapshots of an audited volume, neighbours or not, are out of order, a
\* lead names one of them or one between them (snapshot_xid_disorder), provided all
\* have a creation time.
DisorderIsNoticed ==
  apc = "done" =>
    \A w \in audited :
      LET q == c.volumes[w].snaps IN
      (\A k \in DOMAIN q : q[k].create_time # 0) =>
        \A j, k \in DOMAIN q :
          q[j].xid < q[k].xid /\ q[k].create_time < q[j].create_time =>
            \E n \in DOMAIN q : /\ q[j].xid <= q[n].xid /\ q[n].xid <= q[k].xid
                                /\ q[n].xid \in Anomalies("SnapshotXidDisorder")

\* A finished audit reports every object of the reaper's queue and nothing else, and
\* refuses a chain of lists only if it loops, is broken or too long
\* (pending_objects).
QueueIsReported ==
  /\ apc = "done" =>
       Anomalies("ReaperPendingObject") = IF c.reaper = NoReaper THEN {} ELSE Queued \ {0}
  /\ error = "CycleGuard" =>
       Cardinality(seen) >= MaxReapLists
         \/ \E o \in seen : \E p \in DOMAIN c.lists : PaddrOf(o, p) /\ c.lists[p].next \in seen

\* lib.rs:39-40 and 288-289 say that a failure is "never swallowed".
EveryVolumeIsAudited == apc = "done" => audited = 1 .. Len(c.volumes)

\* The audit returns, also from reap lists that loop.
Terminates == <>(apc \in {"done", "failed"})
=============================================================================
