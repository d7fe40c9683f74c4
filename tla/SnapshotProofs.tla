--------------------------- MODULE SnapshotProofs ---------------------------
(***************************************************************************)
(* What SnapTree and SnapshotMount promise, for all trees and all          *)
(* histories of writes, snapshots and deletions.  The invariant has three  *)
(* parts, each kept by the steps of one actor.                             *)
(*                                                                         *)
(* WalkInv (SnapTreeProofs): what a walk has visited and passed on, and    *)
(* what is ahead of it.                                                    *)
(*                                                                         *)
(* ImageInv: the object map answers, for the last transaction and for that *)
(* of every snapshot, what the objects held then, from blocks that still   *)
(* hold it.                                                                *)
(*                                                                         *)
(* MountInv: how the volume that is open, the snapshot that was found and  *)
(* the volume that is mounted follow from the image.                       *)
(***************************************************************************)
EXTENDS SnapshotMount, SnapTreeProofs

----------------------------------------------------------------------------
\* The versions of object o that a resolution at x chooses from, the newest of them,
\* and the transactions a volume can be mounted at.
Versions(om, o, x) == {e \in om : e.oid = o /\ e.xid <= x}
IsNewest(om, o, x, e) == e \in Versions(om, o, x) /\ \A f \in Versions(om, o, x) : f.xid <= e.xid
Mountable(x, ss) == {x} \cup {s.xid : s \in ss}

\* The object map answers for transaction x what the objects held then.
AnswersAt(om, h, x) ==
  \A o \in Oids : /\ Versions(om, o, x) = {} => h[x][o] = None
                  /\ \A e \in om : IsNewest(om, o, x, e) => h[x][o] = e.xid

\* What lies in the blocks that are in use.
OnDisk(dk, om, ss, ab, x) ==
  /\ \A e \in om : dk[e.paddr] = Node(e.xid)
  /\ \A s \in ss : dk[s.sblock_oid] = Superblock(s.xid, 0)
  /\ x > 0 => ab \in Blocks /\ dk[ab] = Superblock(x, OmapBlock)
  /\ dk[OmapBlock].kind = "omap"

Entry(x) == [oid : Oids, xid : 1 .. x, paddr : Blocks]
Snapshot(x) == [xid : 1 .. x, sblock_oid : Blocks, name : Names]

ImageTyped(dk, om, ss, x, h) ==
  /\ x \in 0 .. MaxXid
  /\ dk = [b \in Blocks \cup {OmapBlock, Nxsb} |-> dk[b]]
  /\ om \subseteq Entry(x)
  /\ ss \subseteq Snapshot(x) /\ IsFiniteSet(ss)
  /\ h = [y \in 0 .. x |-> [o \in Oids |-> h[y][o]]]

\* The invariant of the writer.
ImageInv ==
  /\ ImageTyped(disk, omap, snaps, xid, history)
  /\ OnDisk(disk, omap, snaps, apsb, xid)
  /\ \A s, t \in snaps : s.xid = t.xid => s = t
  /\ \A x \in Mountable(xid, snaps) : AnswersAt(omap, history, x)

\* Where the caller is, and what it holds there.
Opened == {"live", "lookup", "list", "mount"}
IsVolume(v, x) == v \in {Volume(x, OmapBlock, key) : key \in BOOLEAN}

MountInv ==
  /\ pc \in {"writing", "found", "open", "absent", "mounted", "done", "failed"} \cup Opened
  /\ want \in Nat /\ name \in Names \cup {NoName}
  /\ pc \notin {"writing", "found"} => xid > 0 /\ (want # 0 \/ name # NoName)
  /\ want # 0 /\ name # NoName => \E s \in snaps : s.name = name /\ s.xid = want
  /\ pc = "writing" => want = 0 /\ name = NoName /\ bad = None
  /\ pc \in Opened => IsVolume(live, xid)
  /\ pc = "lookup" => tree = SnapMetaTree /\ asked = name /\ want = 0 /\ walk # "idle"
  /\ pc = "list" => tree = SnapMetaTree /\ asked = NoName /\ want # 0 /\ want # xid /\ walk # "idle"
  /\ pc = "mount" => want # 0 /\ \E s \in snaps : s.xid = want /\ s.sblock_oid = sblock_oid
  /\ pc \in {"mounted", "done"} => IsVolume(volume, want) /\ want \in Mountable(xid, snaps)
  /\ PointInTime
  /\ RefusesOnlyUnknown

----------------------------------------------------------------------------
\* The map on has at y the versions that om has at x, and the objects hold the same.
Alike(on, g, y, om, h, x) == \A o \in Oids : Versions(on, o, y) = Versions(om, o, x) /\ g[y][o] = h[x][o]

\* The history after a transaction that leaves contents behind.
Extended(h, n, contents) == [y \in 0 .. n + 1 |-> IF y <= n THEN h[y] ELSE contents]

\* Every transaction of the writer.
LEMMA WriterKeeps ==
  /\ ImageInv
  /\ \/ \E o \in Oids, p, sb \in Blocks : WriteObject(o, p, sb)
     \/ \E f, sb \in Blocks : TakeSnapshot(f, sb)
     \/ \E s \in snaps, sb \in Blocks : DeleteSnapshot(s, sb)
  => ImageInv'

\* The newest version of an object that has one.
<1>NewestExists.
  ASSUME NEW n \in Nat, NEW om \in SUBSET Entry(n), NEW o, NEW x, Versions(om, o, x) # {}
  PROVE  \E e \in om : IsNewest(om, o, x, e)
  <2> DEFINE T == {e.xid : e \in Versions(om, o, x)}
  <2>1. \A e \in om : e.xid \in Nat /\ e.xid <= n
    BY DEF Entry
  <2>2. T \in SUBSET Nat /\ T # {} /\ \A y \in T : y <= n
    BY <1>NewestExists, <2>1 DEF Versions
  <2>3. PICK y \in T : \A z \in T : z <= y
    <3> HIDE DEF T
    <3> QED
      BY <2>2, GreatestElement, Zenon
  <2>4. PICK e \in Versions(om, o, x) : e.xid = y
    OBVIOUS
  <2>5. \A f \in Versions(om, o, x) : f.xid \in T
    OBVIOUS
  <2>6. e \in om
    BY DEF Versions
  <2> QED
    BY <2>3, <2>4, <2>5, <2>6 DEF IsNewest

\* The versions that are kept include the newest at every transaction of a snapshot,
\* and at every later one than all of them.
<1>NewestNeeded.
  ASSUME NEW n \in Nat, NEW om \in SUBSET Entry(n), NEW ss, NEW o, NEW x \in Nat, NEW e, IsNewest(om, o, x, e),
         (\E s \in ss : s.xid = x) \/ (\A f \in om : f.xid <= x)
  PROVE  e \in Needed(om, ss)
  <2> DEFINE later == {f \in om : f.oid = e.oid /\ f.xid > e.xid}
  <2>1. e \in om /\ e.oid = o /\ e.xid <= x /\ \A f \in om : f.oid = o /\ f.xid <= x => f.xid <= e.xid
    BY <1>NewestNeeded DEF IsNewest, Versions
  <2>2. \A f \in om : f.xid \in Nat
    BY DEF Entry
  <2>3. \A f \in later : f.xid > x
    BY <2>1, <2>2
  <2>4. CASE \A f \in om : f.xid <= x
    <3>1. later = {}
      BY <2>2, <2>3, <2>4
    <3> QED
      BY <2>1, <3>1 DEF Needed
  <2>5. CASE \E s \in ss : s.xid = x
    <3>1. \E s \in ss : e.xid <= s.xid /\ \A f \in later : f.xid > s.xid
      BY <2>1, <2>3, <2>5
    <3> QED
      BY <2>1, <3>1, Zenon DEF Needed
  <2> QED
    BY <1>NewestNeeded, <2>4, <2>5

\* So nothing that can be read is lost with the versions that are not kept.
<1>NeededAnswers.
  ASSUME NEW n \in Nat, NEW om \in SUBSET Entry(n), NEW ss, NEW h, NEW x \in Nat, AnswersAt(om, h, x),
         (\E s \in ss : s.xid = x) \/ (\A f \in om : f.xid <= x)
  PROVE  AnswersAt(Needed(om, ss), h, x)
  <2> DEFINE kept == Needed(om, ss)
  <2>1. \A f \in om : f.xid \in Nat
    BY DEF Entry
  <2>2. kept \subseteq om
    BY DEF Needed
  <2>3. ASSUME NEW o \in Oids, NEW g, IsNewest(om, o, x, g)
        PROVE  g \in Versions(kept, o, x)
    <3>1. g \in kept
      BY <1>NeededAnswers, <2>3, <1>NewestNeeded
    <3>2. g.oid = o /\ g.xid <= x
      BY <2>3 DEF IsNewest, Versions
    <3> QED
      BY <3>1, <3>2 DEF Versions
  <2> HIDE DEF kept
  <2>4. ASSUME NEW o \in Oids, Versions(kept, o, x) = {}
        PROVE  h[x][o] = None
    <3>1. Versions(om, o, x) = {}
      BY <2>3, <2>4, <1>NewestExists, Zenon
    <3> QED
      BY <1>NeededAnswers, <3>1, Zenon DEF AnswersAt
  <2>5. ASSUME NEW o \in Oids, NEW e \in kept, IsNewest(kept, o, x, e)
        PROVE  h[x][o] = e.xid
    <3>1. e \in Versions(om, o, x)
      BY <2>2, <2>5 DEF IsNewest, Versions
    <3>2. PICK g \in om : IsNewest(om, o, x, g)
      <4>1. Versions(om, o, x) # {}
        BY <3>1
      <4> QED
        BY <4>1, <1>NewestExists, Zenon
    <3>3. g \in Versions(kept, o, x)
      BY <2>3, <3>2, Zenon
    <3>4. g.xid <= e.xid
      BY <2>5, <3>3, Zenon DEF IsNewest
    <3>5. \A f \in Versions(om, o, x) : f.xid <= g.xid /\ f.xid \in Nat
      BY <2>1, <3>2 DEF IsNewest, Versions
    <3>6. \A f \in Versions(om, o, x) : f.xid <= e.xid
      BY <2>1, <2>2, <3>4, <3>5
    <3>7. IsNewest(om, o, x, e)
      BY <3>1, <3>6, Zenon DEF IsNewest
    <3> QED
      BY <1>NeededAnswers, <2>2, <3>7, Zenon DEF AnswersAt
  <2> QED
    BY <2>4, <2>5, Zenon DEF AnswersAt, kept

\* The same versions give the same answers.
<1>SameAnswers.
  ASSUME NEW om, NEW on, NEW h, NEW g, NEW x, NEW y, AnswersAt(om, h, x),
         Alike(on, g, y, om, h, x)
  PROVE  AnswersAt(on, g, y)
  <2>1. \A o \in Oids : \A e \in on : IsNewest(on, o, y, e) => e \in om /\ IsNewest(om, o, x, e)
    BY <1>SameAnswers DEF IsNewest, Versions, Alike
  <2> QED
    BY <1>SameAnswers, <2>1, Zenon DEF AnswersAt, Alike

\* A transaction does not change what is answered for an earlier one, nor, if it
\* writes no object, what is answered for the newest.
<1>LaterAnswers.
  ASSUME NEW n \in Nat, NEW om \in SUBSET Entry(n), NEW h, NEW contents, NEW x \in 0 .. n, AnswersAt(om, h, x)
  PROVE  /\ AnswersAt(om, Extended(h, n, contents), x)
         /\ x = n /\ contents = h[n] => AnswersAt(om, Extended(h, n, contents), n + 1)
  <2> DEFINE g == Extended(h, n, contents)
  <2>1. g[x] = h[x] /\ (contents = h[n] => g[n + 1] = h[n])
    BY DEF Extended
  <2>2. \A o \in Oids : Versions(om, o, n + 1) = Versions(om, o, n)
    BY DEF Versions, Entry
  <2> HIDE DEF g
  <2>3. AnswersAt(om, g, x)
    <3>1. Alike(om, g, x, om, h, x)
      BY <2>1 DEF Alike
    <3> QED
      BY <1>LaterAnswers, <3>1, <1>SameAnswers, Zenon
  <2>4. ASSUME x = n, contents = h[n]
        PROVE  AnswersAt(om, g, n + 1)
    <3>1. Alike(om, g, n + 1, om, h, n)
      BY <2>1, <2>2, <2>4 DEF Alike
    <3>2. AnswersAt(om, h, n)
      BY <1>LaterAnswers, <2>4
    <3> QED
      BY <3>1, <3>2, <1>SameAnswers, Zenon
  <2> QED
    BY <2>3, <2>4, Zenon DEF g

\* Nor does a new version of an object, which is the one to be found from then on.
<1>WrittenAnswers.
  ASSUME NEW n \in Nat, NEW om \in SUBSET Entry(n), NEW h, NEW o \in Oids, NEW b,
         h[n] = [q \in Oids |-> h[n][q]], AnswersAt(om, h, n)
  PROVE  LET on == om \cup {[oid |-> o, xid |-> n + 1, paddr |-> b]}
             g == Extended(h, n, [h[n] EXCEPT ![o] = n + 1])
         IN  /\ \A x \in 0 .. n : AnswersAt(om, h, x) => AnswersAt(on, g, x)
             /\ AnswersAt(on, g, n + 1)
  <2> DEFINE new == [oid |-> o, xid |-> n + 1, paddr |-> b]
             on == om \cup {new}
             g == Extended(h, n, [h[n] EXCEPT ![o] = n + 1])
  <2>1. /\ \A x \in 0 .. n : g[x] = h[x]
        /\ g[n + 1][o] = n + 1 /\ \A q \in Oids : q # o => g[n + 1][q] = h[n][q]
    BY <1>WrittenAnswers DEF Extended
  <2>2. \A e \in om : e.xid \in Nat /\ e.xid <= n
    BY DEF Entry
  <2>3. new.oid = o /\ new.xid = n + 1 /\ new \in on /\ \A e \in on : e \in om \/ e = new
    OBVIOUS
  <2>4. \A x \in 0 .. n : \A q \in Oids : Versions(on, q, x) = Versions(om, q, x)
    BY <2>3 DEF Versions
  <2>5. \A q \in Oids : q # o => Versions(on, q, n + 1) = Versions(om, q, n)
    <3> HIDE DEF new
    <3> QED
      BY <2>2, <2>3 DEF Versions
  <2> HIDE DEF g, on, new
  <2>6. ASSUME NEW x \in 0 .. n, AnswersAt(om, h, x)
        PROVE  AnswersAt(on, g, x)
    <3>1. Alike(on, g, x, om, h, x)
      BY <2>1, <2>4 DEF Alike
    <3> QED
      BY <2>6, <3>1, <1>SameAnswers, Zenon
  <2>7. ASSUME NEW q \in Oids, q # o
        PROVE  /\ Versions(on, q, n + 1) = {} => g[n + 1][q] = None
               /\ \A e \in on : IsNewest(on, q, n + 1, e) => g[n + 1][q] = e.xid
    <3>1. Versions(on, q, n + 1) = Versions(om, q, n) /\ g[n + 1][q] = h[n][q]
      BY <2>1, <2>5, <2>7
    <3>2. \A e \in on : IsNewest(on, q, n + 1, e) => e \in om /\ IsNewest(om, q, n, e)
      BY <3>1 DEF IsNewest, Versions
    <3> QED
      BY <1>WrittenAnswers, <3>1, <3>2, Zenon DEF AnswersAt
  <2>8. /\ Versions(on, o, n + 1) # {}
        /\ \A e \in on : IsNewest(on, o, n + 1, e) => g[n + 1][o] = e.xid
    <3>1. new \in Versions(on, o, n + 1)
      BY <2>3 DEF Versions
    <3>2. ASSUME NEW e \in on, IsNewest(on, o, n + 1, e)
          PROVE  g[n + 1][o] = e.xid
      <4>1. e.xid >= n + 1
        BY <2>2, <2>3, <3>1, <3>2 DEF IsNewest
      <4>2. e.xid <= n + 1 /\ e.xid \in Nat
        BY <2>2, <2>3
      <4> QED
        BY <2>1, <4>1, <4>2
    <3> QED
      BY <3>1, <3>2
  <2>9. AnswersAt(on, g, n + 1)
    BY <2>7, <2>8, Zenon DEF AnswersAt
  <2> QED
    BY <2>6, <2>9, Zenon DEF g, on, new

\* What is typed stays so.
<1>TypesGrow.
  ASSUME NEW n \in Nat
  PROVE  Entry(n) \subseteq Entry(n + 1) /\ Snapshot(n) \subseteq Snapshot(n + 1)
  BY DEF Entry, Snapshot

\* Writing free blocks leaves everything in use where it was.
<1>BlocksKept.
  ASSUME ImageInv, NEW new \in SUBSET Free, NEW dn,
         \A b \in (Blocks \cup {OmapBlock}) \ new : dn[b] = disk[b]
  PROVE  /\ \A e \in omap : dn[e.paddr] = Node(e.xid)
         /\ \A s \in snaps : dn[s.sblock_oid] = Superblock(s.xid, 0)
         /\ dn[OmapBlock].kind = "omap"
  <2>1. /\ \A e \in omap : e.paddr \in Blocks /\ e.paddr \notin new
        /\ \A s \in snaps : s.sblock_oid \in Blocks /\ s.sblock_oid \notin new
        /\ OmapBlock \notin new
    BY <1>BlocksKept DEF ImageInv, ImageTyped, Entry, Snapshot, Free, InUse
  <2>2. /\ \A e \in omap : disk[e.paddr] = Node(e.xid)
        /\ \A s \in snaps : disk[s.sblock_oid] = Superblock(s.xid, 0)
        /\ disk[OmapBlock].kind = "omap"
    BY <1>BlocksKept DEF ImageInv, OnDisk
  <2> QED
    BY <1>BlocksKept, <2>1, <2>2

\* The types after a transaction.
<1>CommitTyped.
  ASSUME ImageInv, NEW contents, contents = [o \in Oids |-> contents[o]], xid < MaxXid,
         NEW dn, dn = [b \in Blocks \cup {OmapBlock, Nxsb} |-> dn[b]],
         NEW on, on \subseteq Entry(xid + 1), NEW sn, sn \subseteq Snapshot(xid + 1), IsFiniteSet(sn)
  PROVE  ImageTyped(dn, on, sn, xid + 1, Extended(history, xid, contents))
  <2> DEFINE g == Extended(history, xid, contents)
  <2>1. xid \in 0 .. MaxXid /\ history = [y \in 0 .. xid |-> [o \in Oids |-> history[y][o]]] /\ MaxXid \in Nat
    BY <1>CommitTyped, SnapshotMountAssumption DEF ImageInv, ImageTyped
  <2>2. xid + 1 \in 0 .. MaxXid
    BY <1>CommitTyped, <2>1
  <2>3. ASSUME NEW y \in 0 .. xid + 1
        PROVE  g[y] = [o \in Oids |-> g[y][o]]
    <3>1. CASE y <= xid
      <4>1. g[y] = history[y] /\ y \in 0 .. xid
        BY <2>1, <3>1 DEF Extended
      <4>2. history[y] = [o \in Oids |-> history[y][o]]
        BY <2>1, <4>1
      <4> QED
        BY <4>1, <4>2
    <3>2. CASE ~(y <= xid)
      <4>1. g[y] = contents
        BY <3>2 DEF Extended
      <4> QED
        BY <1>CommitTyped, <4>1
    <3> QED
      BY <3>1, <3>2
  <2>4. DOMAIN g = 0 .. xid + 1 /\ g = [y \in 0 .. xid + 1 |-> g[y]]
    BY DEF Extended
  <2> HIDE DEF g
  <2>5. g = [y \in 0 .. xid + 1 |-> [o \in Oids |-> g[y][o]]]
    BY <2>3, <2>4
  <2> QED
    BY <1>CommitTyped, <2>2, <2>5, Zenon DEF ImageTyped, g

\* The transactions a volume can be mounted at lie in the past.
<1>MountableBounds.
  ASSUME ImageInv
  PROVE  /\ xid \in Nat /\ xid \in 0 .. xid /\ \A s \in snaps : s.xid \in 1 .. xid /\ s.xid \in 0 .. xid
         /\ AnswersAt(omap, history, xid) /\ \A s \in snaps : AnswersAt(omap, history, s.xid)
         /\ omap \in SUBSET Entry(xid) /\ omap \subseteq Entry(xid + 1) /\ snaps \subseteq Snapshot(xid + 1)
         /\ history[xid] = [o \in Oids |-> history[xid][o]]
         /\ IsFiniteSet(snaps)
  <2>1. /\ xid \in Nat /\ omap \subseteq Entry(xid) /\ snaps \subseteq Snapshot(xid) /\ IsFiniteSet(snaps)
        /\ history = [y \in 0 .. xid |-> [o \in Oids |-> history[y][o]]]
    BY <1>MountableBounds, SnapshotMountAssumption DEF ImageInv, ImageTyped
  <2>2. xid \in 0 .. xid /\ \A s \in snaps : s.xid \in 1 .. xid /\ s.xid \in 0 .. xid
    BY <2>1 DEF Snapshot
  <2>3. history[xid] = [o \in Oids |-> history[xid][o]]
    BY <2>1, <2>2
  <2>4. xid \in Mountable(xid, snaps) /\ \A s \in snaps : s.xid \in Mountable(xid, snaps)
    BY DEF Mountable
  <2>5. \A x \in Mountable(xid, snaps) : AnswersAt(omap, history, x)
    BY <1>MountableBounds DEF ImageInv
  <2>6. Entry(xid) \subseteq Entry(xid + 1) /\ Snapshot(xid) \subseteq Snapshot(xid + 1)
    BY <2>1, <1>TypesGrow
  <2> QED
    BY <2>1, <2>2, <2>3, <2>4, <2>5, <2>6

\* Two blocks are written, the others keep their contents.
<1>TwoBlocks.
  ASSUME NEW D, NEW dk, dk = [b \in D |-> dk[b]], NEW p \in D, NEW q \in D, p # q, NEW u, NEW w,
         NEW dn, dn = [dk EXCEPT ![p] = u, ![q] = w]
  PROVE  /\ dn = [b \in D |-> dn[b]]
         /\ dn[p] = u /\ dn[q] = w
         /\ \A b \in D : b # p /\ b # q => dn[b] = dk[b]
  <2>1. DOMAIN dk = D
    BY <1>TwoBlocks
  <2>2. dn = [b \in D |-> IF b = q THEN w ELSE IF b = p THEN u ELSE dk[b]]
    BY <1>TwoBlocks, <2>1, Zenon
  <2>3. \A b \in D : dn[b] = IF b = q THEN w ELSE IF b = p THEN u ELSE dk[b]
    BY <2>2
  <2>4. dn = [b \in D |-> dn[b]]
    BY <2>2, Zenon
  <2> HIDE <2>2
  <2> QED
    BY <1>TwoBlocks, <2>3, <2>4, Zenon

\* A transaction writes an object.
<1>WriteOK.
  ASSUME ImageInv, NEW o \in Oids, NEW p \in Blocks, NEW sb \in Blocks, WriteObject(o, p, sb)
  PROVE  ImageInv'
  <2> DEFINE new == [oid |-> o, xid |-> xid + 1, paddr |-> p]
             om == omap \cup {new}
             contents == [history[xid] EXCEPT ![o] = xid + 1]
  <2>1. p \in Free /\ sb \in Free /\ p # sb
    <3>1. IsFree(p, 0) /\ IsFree(sb, 1)
      BY <1>WriteOK DEF WriteObject
    <3>2. p \in Free /\ sb \in Free /\ Cardinality({c \in Free : c < p}) # Cardinality({c \in Free : c < sb})
      BY <3>1 DEF IsFree
    <3> QED
      BY <3>2, Zenon
  <2>2. /\ disk' = [disk EXCEPT ![p] = Node(xid + 1), ![sb] = Superblock(xid + 1, OmapBlock)]
        /\ omap' = Needed(om, snaps) /\ snaps' = snaps /\ xid' = xid + 1 /\ apsb' = sb /\ xid < MaxXid
        /\ history' = Extended(history, xid, contents)
    BY <1>WriteOK DEF WriteObject, Commit, Extended
  <2>3. /\ xid \in Nat /\ xid \in 0 .. xid /\ \A s \in snaps : s.xid \in 1 .. xid /\ s.xid \in 0 .. xid
        /\ AnswersAt(omap, history, xid) /\ \A s \in snaps : AnswersAt(omap, history, s.xid)
        /\ omap \in SUBSET Entry(xid) /\ omap \subseteq Entry(xid + 1) /\ snaps \subseteq Snapshot(xid + 1)
        /\ history[xid] = [q \in Oids |-> history[xid][q]]
        /\ IsFiniteSet(snaps)
    BY <1>WriteOK, <1>MountableBounds, Zenon
  <2>4. /\ disk' = [b \in Blocks \cup {OmapBlock, Nxsb} |-> disk'[b]]
        /\ disk'[p] = Node(xid + 1) /\ disk'[sb] = Superblock(xid + 1, OmapBlock)
        /\ \A b \in (Blocks \cup {OmapBlock}) \ {p, sb} : disk'[b] = disk[b]
    <3> DEFINE D == Blocks \cup {OmapBlock, Nxsb}
    <3>1. disk = [b \in D |-> disk[b]] /\ p \in D /\ sb \in D
      BY <1>WriteOK DEF ImageInv, ImageTyped
    <3>2. \A b \in (Blocks \cup {OmapBlock}) \ {p, sb} : b \in D /\ b # p /\ b # sb
      OBVIOUS
    <3> HIDE DEF D
    <3>3. /\ disk' = [b \in D |-> disk'[b]]
          /\ disk'[p] = Node(xid + 1) /\ disk'[sb] = Superblock(xid + 1, OmapBlock)
          /\ \A b \in D : b # p /\ b # sb => disk'[b] = disk[b]
      BY <2>1, <2>2, <3>1, <1>TwoBlocks, Zenon
    <3> QED
      BY <3>2, <3>3, Zenon DEF D
  <2>5. new \in Entry(xid + 1) /\ om \in SUBSET Entry(xid + 1) /\ omap' \subseteq om
    <3>1. new \in Entry(xid + 1)
      <4>1. xid + 1 \in 1 .. xid + 1
        BY ONLY <2>3
      <4> QED
        BY ONLY <4>1, o \in Oids, p \in Blocks DEF Entry
    <3> HIDE DEF new
    <3>2. om \in SUBSET Entry(xid + 1)
      BY ONLY <2>3, <3>1
    <3>3. omap' \subseteq om
      BY ONLY <2>2 DEF Needed
    <3> QED
      BY ONLY <3>1, <3>2, <3>3
  <2>6. ImageTyped(disk', omap', snaps', xid', history')
    <3>1. contents = [q \in Oids |-> contents[q]]
      BY <2>3
    <3>2. omap' \subseteq Entry(xid + 1) /\ snaps' \subseteq Snapshot(xid + 1) /\ IsFiniteSet(snaps')
      <4>1. omap' \subseteq Entry(xid + 1)
        BY <2>5
      <4> QED
        BY <2>2, <2>3, <4>1, Zenon
    <3> HIDE DEF contents
    <3>3. ImageTyped(disk', omap', snaps', xid + 1, Extended(history, xid, contents))
      BY <1>WriteOK, <2>2, <2>4, <3>1, <3>2, <1>CommitTyped, Zenon
    <3> QED
      BY <2>2, <3>3, Zenon
  <2>7. OnDisk(disk', omap', snaps', apsb', xid')
    <3>1. {p, sb} \in SUBSET Free
      BY <2>1
    <3>2. /\ \A e \in omap : disk'[e.paddr] = Node(e.xid)
          /\ \A s \in snaps : disk'[s.sblock_oid] = Superblock(s.xid, 0)
          /\ disk'[OmapBlock].kind = "omap"
      BY <1>WriteOK, <2>4, <3>1, <1>BlocksKept, Zenon
    <3>3. disk'[new.paddr] = Node(new.xid)
      BY <2>4
    <3>4. \A e \in omap' : disk'[e.paddr] = Node(e.xid)
      <4> HIDE DEF new
      <4> QED
        BY <2>5, <3>2, <3>3
    <3> QED
      BY <2>2, <2>4, <3>2, <3>4, Zenon DEF OnDisk
  <2>8. \A s, t \in snaps' : s.xid = t.xid => s = t
    BY <1>WriteOK, <2>2, Zenon DEF ImageInv
  <2>9. ASSUME NEW x \in Mountable(xid', snaps')
        PROVE  AnswersAt(omap', history', x)
    <3>1. x \in Nat /\ ((\E s \in snaps : s.xid = x) \/ (\A f \in om : f.xid <= x))
      <4>1. \A f \in om : f.xid <= xid + 1
        <5> HIDE DEF om, new
        <5> QED
          BY ONLY <2>3, <2>5 DEF Entry
      <4>2. xid' = xid + 1 /\ snaps' = snaps /\ x \in {xid'} \cup {s.xid : s \in snaps'}
        BY ONLY <2>2, <2>9 DEF Mountable
      <4> HIDE DEF om
      <4> QED
        BY ONLY <2>3, <4>1, <4>2
    <3>2. /\ \A y \in 0 .. xid : AnswersAt(omap, history, y) => AnswersAt(om, history', y)
          /\ AnswersAt(om, history', xid + 1)
      BY <2>2, <2>3, <1>WrittenAnswers, Zenon
    <3>3. AnswersAt(om, history', x)
      <4> HIDE DEF om
      <4> QED
        BY <2>2, <2>3, <2>9, <3>2 DEF Mountable
    <3>4. xid + 1 \in Nat
      BY <1>WriteOK, <2>3
    <3>5. AnswersAt(Needed(om, snaps), history', x)
      <4> HIDE DEF om
      <4> QED
        BY <2>5, <3>1, <3>3, <3>4, <1>NeededAnswers, Zenon
    <3> QED
      BY <2>2, <3>5, Zenon
  <2> QED
    BY <2>6, <2>7, <2>8, <2>9, Zenon DEF ImageInv

\* A transaction takes a snapshot.
<1>TakeOK.
  ASSUME ImageInv, NEW fb \in Blocks, NEW sb \in Blocks, TakeSnapshot(fb, sb)
  PROVE  ImageInv'
  <2> DEFINE nm == CHOOSE n \in Unused : TRUE
             new == [xid |-> xid + 1, sblock_oid |-> fb, name |-> nm]
  <2>1. fb \in Free /\ sb \in Free /\ fb # sb
    <3>1. IsFree(fb, 0) /\ IsFree(sb, 1)
      BY <1>TakeOK DEF TakeSnapshot
    <3>2. fb \in Free /\ sb \in Free /\ Cardinality({c \in Free : c < fb}) # Cardinality({c \in Free : c < sb})
      BY <3>1 DEF IsFree
    <3> QED
      BY <3>2, Zenon
  <2>2. /\ disk' = [disk EXCEPT ![fb] = Superblock(xid + 1, 0), ![sb] = Superblock(xid + 1, OmapBlock)]
        /\ omap' = omap /\ snaps' = snaps \cup {new} /\ xid' = xid + 1 /\ apsb' = sb /\ xid < MaxXid
        /\ history' = Extended(history, xid, history[xid])
    BY <1>TakeOK DEF TakeSnapshot, Commit, Extended
  <2>3. /\ xid \in Nat /\ xid \in 0 .. xid /\ \A s \in snaps : s.xid \in 1 .. xid /\ s.xid \in 0 .. xid
        /\ AnswersAt(omap, history, xid) /\ \A s \in snaps : AnswersAt(omap, history, s.xid)
        /\ omap \in SUBSET Entry(xid) /\ omap \subseteq Entry(xid + 1) /\ snaps \subseteq Snapshot(xid + 1)
        /\ history[xid] = [q \in Oids |-> history[xid][q]]
        /\ IsFiniteSet(snaps)
    BY <1>TakeOK, <1>MountableBounds, Zenon
  <2>4. /\ disk' = [b \in Blocks \cup {OmapBlock, Nxsb} |-> disk'[b]]
        /\ disk'[fb] = Superblock(xid + 1, 0) /\ disk'[sb] = Superblock(xid + 1, OmapBlock)
        /\ \A b \in (Blocks \cup {OmapBlock}) \ {fb, sb} : disk'[b] = disk[b]
    <3> DEFINE D == Blocks \cup {OmapBlock, Nxsb}
    <3>1. disk = [b \in D |-> disk[b]] /\ fb \in D /\ sb \in D
      BY <1>TakeOK DEF ImageInv, ImageTyped
    <3>2. \A b \in (Blocks \cup {OmapBlock}) \ {fb, sb} : b \in D /\ b # fb /\ b # sb
      OBVIOUS
    <3> HIDE DEF D
    <3>3. /\ disk' = [b \in D |-> disk'[b]]
          /\ disk'[fb] = Superblock(xid + 1, 0) /\ disk'[sb] = Superblock(xid + 1, OmapBlock)
          /\ \A b \in D : b # fb /\ b # sb => disk'[b] = disk[b]
      BY <2>1, <2>2, <3>1, <1>TwoBlocks, Zenon
    <3> QED
      BY <3>2, <3>3, Zenon DEF D
  <2>5. nm \in Names
    <3>1. Unused # {}
      BY <1>TakeOK DEF TakeSnapshot
    <3>2. nm \in Unused
      BY <3>1
    <3> QED
      BY <3>2 DEF Unused
  <2> HIDE DEF nm
  <2>6. new \in Snapshot(xid + 1) /\ new.xid = xid + 1 /\ new.sblock_oid = fb
    BY <2>3, <2>5 DEF Snapshot
  <2> HIDE DEF new
  <2>7. ImageTyped(disk', omap', snaps', xid', history')
    <3>1. omap' \subseteq Entry(xid + 1) /\ snaps' \subseteq Snapshot(xid + 1)
      BY <2>2, <2>3, <2>6
    <3>2. IsFiniteSet(snaps')
      BY <2>2, <2>3, FS_AddElement
    <3>3. ImageTyped(disk', omap', snaps', xid + 1, Extended(history, xid, history[xid]))
      BY <1>TakeOK, <2>2, <2>3, <2>4, <3>1, <3>2, <1>CommitTyped, Zenon
    <3> QED
      BY <2>2, <3>3, Zenon
  <2>8. OnDisk(disk', omap', snaps', apsb', xid')
    <3>1. {fb, sb} \in SUBSET Free
      BY <2>1
    <3>2. /\ \A e \in omap : disk'[e.paddr] = Node(e.xid)
          /\ \A s \in snaps : disk'[s.sblock_oid] = Superblock(s.xid, 0)
          /\ disk'[OmapBlock].kind = "omap"
      BY <1>TakeOK, <2>4, <3>1, <1>BlocksKept, Zenon
    <3>3. \A s \in snaps' : disk'[s.sblock_oid] = Superblock(s.xid, 0)
      <4>1. disk'[new.sblock_oid] = Superblock(new.xid, 0)
        BY <2>4, <2>6, Zenon
      <4>2. \A s \in snaps' : s \in snaps \/ s = new
        BY <2>2
      <4> QED
        BY <3>2, <4>1, <4>2, Zenon
    <3> QED
      BY <2>2, <2>4, <3>2, <3>3, Zenon DEF OnDisk
  <2>9. \A s, t \in snaps' : s.xid = t.xid => s = t
    <3>1. \A s \in snaps : s.xid # new.xid
      BY <2>3, <2>6
    <3>2. \A s, t \in snaps : s.xid = t.xid => s = t
      BY <1>TakeOK DEF ImageInv
    <3> QED
      BY <2>2, <3>1, <3>2
  <2>10. ASSUME NEW x \in Mountable(xid', snaps')
         PROVE  AnswersAt(omap', history', x)
    <3>1. x = xid + 1 \/ \E s \in snaps : x = s.xid
      BY <2>2, <2>6, <2>10 DEF Mountable
    <3>2. CASE x = xid + 1
      BY <2>2, <2>3, <3>2, <1>LaterAnswers
    <3>3. CASE \E s \in snaps : x = s.xid
      <4>1. x \in 0 .. xid /\ AnswersAt(omap, history, x)
        BY <2>3, <3>3
      <4>2. AnswersAt(omap, Extended(history, xid, history[xid]), x)
        BY <2>3, <4>1, <1>LaterAnswers
      <4> QED
        BY <2>2, <4>2
    <3> QED
      BY <3>1, <3>2, <3>3
  <2> QED
    BY <2>7, <2>8, <2>9, <2>10, Zenon DEF ImageInv

\* A transaction deletes a snapshot.
<1>DeleteOK.
  ASSUME ImageInv, NEW d \in snaps, NEW sb \in Blocks, DeleteSnapshot(d, sb)
  PROVE  ImageInv'
  <2>1. sb \in Free
    BY <1>DeleteOK DEF DeleteSnapshot, IsFree
  <2>2. /\ disk' = [disk EXCEPT ![sb] = Superblock(xid + 1, OmapBlock)]
        /\ omap' = Needed(omap, snaps') /\ snaps' = snaps \ {d} /\ xid' = xid + 1 /\ apsb' = sb /\ xid < MaxXid
        /\ history' = Extended(history, xid, history[xid])
    BY <1>DeleteOK DEF DeleteSnapshot, Commit, Extended
  <2>3. /\ xid \in Nat /\ xid \in 0 .. xid /\ \A s \in snaps : s.xid \in 1 .. xid /\ s.xid \in 0 .. xid
        /\ AnswersAt(omap, history, xid) /\ \A s \in snaps : AnswersAt(omap, history, s.xid)
        /\ omap \in SUBSET Entry(xid) /\ omap \subseteq Entry(xid + 1) /\ snaps \subseteq Snapshot(xid + 1)
        /\ history[xid] = [q \in Oids |-> history[xid][q]]
        /\ IsFiniteSet(snaps)
    BY <1>DeleteOK, <1>MountableBounds, Zenon
  <2>4. /\ disk' = [b \in Blocks \cup {OmapBlock, Nxsb} |-> disk'[b]]
        /\ disk'[sb] = Superblock(xid + 1, OmapBlock)
        /\ \A b \in (Blocks \cup {OmapBlock}) \ {sb} : disk'[b] = disk[b]
    <3>1. disk = [b \in Blocks \cup {OmapBlock, Nxsb} |-> disk[b]]
      BY <1>DeleteOK DEF ImageInv, ImageTyped
    <3> QED
      BY <2>1, <2>2, <3>1
  <2>5. omap' \subseteq omap /\ snaps' \subseteq snaps
    BY <2>2 DEF Needed
  <2>6. ImageTyped(disk', omap', snaps', xid', history')
    <3>1. omap' \subseteq Entry(xid + 1) /\ snaps' \subseteq Snapshot(xid + 1)
      BY <2>3, <2>5
    <3>2. IsFiniteSet(snaps')
      BY <2>3, <2>5, FS_Subset
    <3>3. ImageTyped(disk', omap', snaps', xid + 1, Extended(history, xid, history[xid]))
      BY <1>DeleteOK, <2>2, <2>3, <2>4, <3>1, <3>2, <1>CommitTyped, Zenon
    <3> QED
      BY <2>2, <3>3, Zenon
  <2>7. OnDisk(disk', omap', snaps', apsb', xid')
    <3>1. {sb} \in SUBSET Free
      BY <2>1
    <3>2. /\ \A e \in omap : disk'[e.paddr] = Node(e.xid)
          /\ \A s \in snaps : disk'[s.sblock_oid] = Superblock(s.xid, 0)
          /\ disk'[OmapBlock].kind = "omap"
      BY <1>DeleteOK, <2>4, <3>1, <1>BlocksKept, Zenon
    <3>3. /\ \A e \in omap' : disk'[e.paddr] = Node(e.xid)
          /\ \A s \in snaps' : disk'[s.sblock_oid] = Superblock(s.xid, 0)
      BY <2>5, <3>2, Zenon
    <3> QED
      BY <2>2, <2>4, <3>2, <3>3, Zenon DEF OnDisk
  <2>8. \A s, t \in snaps' : s.xid = t.xid => s = t
    BY <1>DeleteOK, <2>5, Zenon DEF ImageInv
  <2>9. ASSUME NEW x \in Mountable(xid', snaps')
        PROVE  AnswersAt(omap', history', x)
    <3>1. x \in Nat /\ ((\E s \in snaps' : s.xid = x) \/ (\A f \in omap : f.xid <= x))
      <4>1. \A f \in omap : f.xid <= xid + 1
        BY <2>3 DEF Entry
      <4>2. x = xid + 1 \/ \E s \in snaps' : s.xid = x
        BY <2>2, <2>9 DEF Mountable
      <4>3. \A s \in snaps' : s.xid \in Nat
        BY <1>DeleteOK, <2>3, <2>5
      <4> QED
        BY <1>DeleteOK, <2>3, <4>1, <4>2, <4>3
    <3>2. AnswersAt(omap, history', x)
      <4>1. x = xid + 1 \/ \E s \in snaps : x = s.xid
        BY <2>2, <2>9 DEF Mountable
      <4>2. CASE x = xid + 1
        BY <2>2, <2>3, <4>2, <1>LaterAnswers
      <4>3. CASE \E s \in snaps : x = s.xid
        <5>1. x \in 0 .. xid /\ AnswersAt(omap, history, x)
          BY <2>3, <4>3
        <5>2. AnswersAt(omap, Extended(history, xid, history[xid]), x)
          BY <2>3, <5>1, <1>LaterAnswers
        <5> QED
          BY <2>2, <5>2
      <4> QED
        BY <4>1, <4>2, <4>3
    <3>3. AnswersAt(Needed(omap, snaps'), history', x)
      BY <2>3, <3>1, <3>2, <1>NeededAnswers, Zenon
    <3> QED
      BY <2>2, <3>3, Zenon
  <2> QED
    BY <2>6, <2>7, <2>8, <2>9, Zenon DEF ImageInv

<1> QED
  BY <1>WriteOK, <1>TakeOK, <1>DeleteOK, Zenon

\* A step that leaves the image alone.
LEMMA ImageKept ==
  ASSUME ImageInv, UNCHANGED image
  PROVE  ImageInv'
BY DEF ImageInv, image

\* The empty image.
LEMMA ImageInit ==
  ASSUME Init
  PROVE  ImageInv
<1>1. /\ disk = [b \in Blocks \cup {OmapBlock, Nxsb} |-> IF b = OmapBlock THEN [kind |-> "omap"] ELSE [kind |-> "nxsb"]]
      /\ omap = {} /\ apsb = Nxsb /\ xid = 0 /\ snaps = {}
      /\ history = [x \in {0} |-> [o \in Oids |-> None]]
  BY DEF Init
<1>2. ImageTyped(disk, omap, snaps, xid, history)
  <2>1. 0 .. 0 = {0} /\ 0 \in 0 .. MaxXid
    BY SnapshotMountAssumption
  <2>2. history = [y \in {0} |-> [o \in Oids |-> history[y][o]]]
    BY <1>1
  <2>3. disk = [b \in Blocks \cup {OmapBlock, Nxsb} |-> disk[b]]
    BY <1>1
  <2>4. IsFiniteSet(snaps)
    BY <1>1, FS_EmptySet
  <2> QED
    BY <1>1, <2>1, <2>2, <2>3, <2>4 DEF ImageTyped
<1>3. OnDisk(disk, omap, snaps, apsb, xid)
  BY <1>1 DEF OnDisk
<1>4. \A x \in Mountable(xid, snaps) : AnswersAt(omap, history, x)
  BY <1>1 DEF Mountable, AnswersAt, IsNewest, Versions
<1> QED
  BY <1>1, <1>2, <1>3, <1>4 DEF ImageInv

----------------------------------------------------------------------------
\* What the entries of a leaf are: the records of S, each once; and no two of the
\* records are metadata of the same xid.
LeafOfRecords(lf, S) ==
  /\ lf \in TreeNode /\ lf.level = 0 /\ lf.leaf
  /\ {lf.entries[k] : k \in DOMAIN lf.entries} = S
  /\ \A k \in DOMAIN lf.entries : lf.entries[k] \in S
  /\ \A j, k \in DOMAIN lf.entries : lf.entries[j] = lf.entries[k] => j = k
XidKeyed(S) == \A r, t \in S : IsMetadata(r) /\ IsMetadata(t) /\ r.xid = t.xid => r = t

\* A tree of one leaf.
IsOneLeaf(v, S) ==
  /\ v.omap_header = "ok" /\ v.oids = {} /\ v.paddrs = {TreeRoot}
  /\ v.omap \in [{} -> Mapping] /\ v.blocks \in [{TreeRoot} -> TreeNode]
  /\ v.snap_meta_tree_oid = TreeRoot /\ v.stored = S

\* A tree of a root and two leaves.
IsTwoLeaves(v, S) ==
  /\ v.omap_header = "ok" /\ v.oids = {1, 2} /\ v.paddrs = {TreeRoot, TreeRoot + 1, TreeRoot + 2}
  /\ v.omap \in [{1, 2} -> Mapping] /\ v.omap[1].paddr = TreeRoot + 1 /\ v.omap[2].paddr = TreeRoot + 2
  /\ v.blocks \in [{TreeRoot, TreeRoot + 1, TreeRoot + 2} -> TreeNode] /\ v.blocks[TreeRoot] = RootNode
  /\ v.snap_meta_tree_oid = TreeRoot /\ v.stored = S

\* The tree of the image: well formed, sound if it is undamaged, and with all the
\* snapshots in it.
LEMMA ImageTree ==
  ImageInv =>
    /\ IsTree(SnapMetaTree) /\ WellFormed(SnapMetaTree)
    /\ SnapMetaTree.stored = MetadataOf(snaps) \cup NamesOf(snaps)
    /\ SnapMetaTree.snap_meta_tree_oid \notin SnapMetaTree.oids
    /\ bad = None => Sound(SnapMetaTree)

\* A finite set is enumerated by InSomeOrder, each element once.
<1>Enumerated.
  ASSUME NEW S, IsFiniteSet(S)
  PROVE  /\ InSomeOrder(S) \in Seq(S)
         /\ {InSomeOrder(S)[k] : k \in DOMAIN InSomeOrder(S)} = S
         /\ \A j, k \in DOMAIN InSomeOrder(S) : InSomeOrder(S)[j] = InSomeOrder(S)[k] => j = k
  <2> DEFINE n == Cardinality(S)
             f == InSomeOrder(S)
  <2>1. n \in Nat /\ ExistsBijection(1 .. n, S)
    BY <1>Enumerated, FS_CardinalityType
  <2>2. PICK g : g \in Bijection(1 .. n, S)
    BY <2>1 DEF ExistsBijection
  <2>3. g \in Injection(1 .. n, S)
    BY <2>2 DEF Bijection
  <2>5. f \in Injection(1 .. n, S)
    BY <2>3, Zenon DEF InSomeOrder
  <2> HIDE DEF f
  <2>4. f \in [1 .. n -> S] /\ \A j, k \in 1 .. n : f[j] = f[k] => j = k
    BY <2>5 DEF Injection, IsInjective
  <2>6. Cardinality(1 .. n) = n
    BY <2>1, FS_Interval
  <2>7. f \in Surjection(1 .. n, S)
    BY <1>Enumerated, <2>5, <2>6, FS_Injection
  <2>8. f \in Seq(S)
    BY <2>1, <2>4
  <2>9. {f[k] : k \in DOMAIN f} = S
    BY <2>4, <2>7 DEF Surjection
  <2> QED
    BY <2>4, <2>8, <2>9 DEF f

\* The records of the snapshots.
<1>SnapshotRecords.
  ASSUME ImageInv
  PROVE  /\ MetadataOf(snaps) \in SUBSET Rec /\ IsFiniteSet(MetadataOf(snaps))
         /\ NamesOf(snaps) \in SUBSET Rec /\ IsFiniteSet(NamesOf(snaps))
         /\ MetadataOf(snaps) \cup NamesOf(snaps) \in SUBSET Rec /\ IsFiniteSet(MetadataOf(snaps) \cup NamesOf(snaps))
  <2>1. snaps \subseteq Snapshot(xid) /\ IsFiniteSet(snaps)
    BY <1>SnapshotRecords DEF ImageInv, ImageTyped
  <2>2. \A b \in Blocks : b \in Nat
    BY SnapshotMountAssumption
  <2>3. \A s \in snaps : Metadata(s) \in Rec /\ NameRecord(s) \in Rec
    <3>1. \A s \in snaps : s.xid \in Nat /\ s.sblock_oid \in Nat /\ s.name \in Names
      BY <2>1, <2>2 DEF Snapshot
    <3> QED
      BY <3>1 DEF Rec, Metadata, NameRecord
  <2>4. MetadataOf(snaps) \in SUBSET Rec /\ NamesOf(snaps) \in SUBSET Rec
    BY <2>3 DEF MetadataOf, NamesOf
  <2>5. IsFiniteSet(MetadataOf(snaps))
    <3> DEFINE T == MetadataOf(snaps)
               g == [s \in snaps |-> Metadata(s)]
    <3>1. g \in Surjection(snaps, T)
      BY DEF Surjection, MetadataOf
    <3> HIDE DEF g, T
    <3>2. IsFiniteSet(T)
      BY <2>1, <3>1, FS_Surjection, Zenon
    <3> QED
      BY <3>2 DEF T
  <2>6. IsFiniteSet(NamesOf(snaps))
    <3> DEFINE T == NamesOf(snaps)
               g == [s \in snaps |-> NameRecord(s)]
    <3>1. g \in Surjection(snaps, T)
      BY DEF Surjection, NamesOf
    <3> HIDE DEF g, T
    <3>2. IsFiniteSet(T)
      BY <2>1, <3>1, FS_Surjection, Zenon
    <3> QED
      BY <3>2 DEF T
  <2>7. IsFiniteSet(MetadataOf(snaps) \cup NamesOf(snaps))
    BY <2>5, <2>6, FS_Union, Zenon
  <2> QED
    BY <2>4, <2>5, <2>6, <2>7

\* A snapshot's metadata is keyed by its xid.
<1>KeyedByXid.
  ASSUME ImageInv, NEW r \in MetadataOf(snaps) \cup NamesOf(snaps), NEW t \in MetadataOf(snaps) \cup NamesOf(snaps),
         IsMetadata(r), IsMetadata(t), r.xid = t.xid
  PROVE  r = t
  <2>1. \A q \in NamesOf(snaps) : ~IsMetadata(q)
    BY DEF NamesOf, NameRecord, IsMetadata
  <2>2. PICK s \in snaps : r = Metadata(s)
    BY <1>KeyedByXid, <2>1 DEF MetadataOf
  <2>3. PICK u \in snaps : t = Metadata(u)
    BY <1>KeyedByXid, <2>1 DEF MetadataOf
  <2>4. s.xid = u.xid
    BY <1>KeyedByXid, <2>2, <2>3 DEF Metadata
  <2>5. s = u
    BY <1>KeyedByXid, <2>4, Zenon DEF ImageInv
  <2> QED
    BY <2>2, <2>3, <2>5

\* A leaf the writer puts into a block.
<1>LeafIs.
  ASSUME NEW b, NEW S \in SUBSET Rec, IsFiniteSet(S)
  PROVE  LeafOfRecords(LeafAt(b, S), S) /\ LeafAt(b, S) \in TreeNode /\ LeafAt(b, S).cksum = (b # bad)
  <2> DEFINE e == InSomeOrder(S)
             lf == LeafAt(b, S)
  <2>1. /\ e \in Seq(S) /\ {e[k] : k \in DOMAIN e} = S
        /\ \A j, k \in DOMAIN e : e[j] = e[k] => j = k
    BY <1>LeafIs, <1>Enumerated, Zenon
  <2> HIDE DEF e
  <2>2. e \in Seq(Rec) /\ \A k \in DOMAIN e : e[k] \in S
    BY <2>1
  <2> DEFINE c == b # bad
  <2>3. lf = [cksum |-> c, level |-> 0, leaf |-> TRUE, entries |-> e] /\ c \in BOOLEAN
    BY Zenon DEF LeafAt, e
  <2>4. lf.level = 0 /\ lf.leaf /\ lf.cksum = (b # bad) /\ lf.entries = e
    <3> HIDE DEF c, lf
    <3>1. lf.level = 0 /\ lf.leaf = TRUE /\ lf.cksum = c /\ lf.entries = e
      BY <2>3
    <3> QED
      BY <3>1, Zenon DEF c
  <2>6. lf \in TreeNode
    <3> HIDE DEF c, lf
    <3> QED
      BY <2>2, <2>3 DEF TreeNode
  <2> HIDE DEF lf
  <2>7. /\ {lf.entries[k] : k \in DOMAIN lf.entries} = S
        /\ \A k \in DOMAIN lf.entries : lf.entries[k] \in S
        /\ \A j, k \in DOMAIN lf.entries : lf.entries[j] = lf.entries[k] => j = k
    BY <2>1, <2>2, <2>4
  <2>8. LeafOfRecords(lf, S) /\ lf \in TreeNode /\ lf.cksum = (b # bad)
    BY <2>4, <2>6, <2>7, Zenon DEF LeafOfRecords
  <2> QED
    BY <2>8, Zenon DEF lf

\* A tree of one leaf is well formed.
<1>OneLeaf.
  ASSUME NEW v, NEW S \in SUBSET Rec, XidKeyed(S), LeafOfRecords(v.blocks[TreeRoot], S), IsOneLeaf(v, S)
  PROVE  IsTree(v) /\ WellFormed(v)
  <2> DEFINE lf == v.blocks[TreeRoot]
  <2>1. /\ lf \in TreeNode /\ lf.level = 0 /\ lf.leaf
        /\ {lf.entries[k] : k \in DOMAIN lf.entries} = S
        /\ \A k \in DOMAIN lf.entries : lf.entries[k] \in S
        /\ \A j, k \in DOMAIN lf.entries : lf.entries[j] = lf.entries[k] => j = k
    BY <1>OneLeaf, Zenon DEF LeafOfRecords
  <2>2. IsTree(v)
    <3>1. TreeRoot \in Nat
      BY SnapshotMountAssumption
    <3> QED
      BY <1>OneLeaf, <3>1 DEF IsTree, IsOneLeaf
  <2>3. TreeRoot \in v.paddrs /\ \A p \in v.paddrs : p = TreeRoot /\ v.blocks[p] = lf
    BY <1>OneLeaf DEF IsOneLeaf
  <2>4. {b \in v.paddrs : v.blocks[b].level = 0} = {TreeRoot} /\ {b \in v.paddrs : v.blocks[b].level > 0} = {}
    BY <2>1, <2>3
  <2>5. v.stored = UNION {{v.blocks[p].entries[k] : k \in DOMAIN v.blocks[p].entries} :
                           p \in {b \in v.paddrs : v.blocks[b].level = 0}}
    <3> HIDE DEF lf
    <3>1. UNION {{v.blocks[p].entries[k] : k \in DOMAIN v.blocks[p].entries} : p \in {TreeRoot}}
            = {lf.entries[k] : k \in DOMAIN lf.entries}
      BY DEF lf
    <3>2. v.stored = UNION {{v.blocks[p].entries[k] : k \in DOMAIN v.blocks[p].entries} : p \in {TreeRoot}}
      BY <1>OneLeaf, <2>1, <3>1, Zenon DEF IsOneLeaf
    <3> QED
      BY <2>4, <3>2, Zenon
  <2>6. ASSUME NEW p \in v.paddrs, NEW q \in v.paddrs, NEW j \in DOMAIN v.blocks[p].entries, NEW k \in DOMAIN v.blocks[q].entries,
               IsMetadata(v.blocks[p].entries[j]), IsMetadata(v.blocks[q].entries[k]),
               v.blocks[p].entries[j].xid = v.blocks[q].entries[k].xid
        PROVE  p = q /\ j = k
    <3>1. p = q /\ j \in DOMAIN lf.entries /\ k \in DOMAIN lf.entries
      BY <2>3, Zenon
    <3>2. IsMetadata(lf.entries[j]) /\ IsMetadata(lf.entries[k]) /\ lf.entries[j].xid = lf.entries[k].xid
      BY <2>3, <2>6, Zenon
    <3>3. lf.entries[j] = lf.entries[k]
      BY <1>OneLeaf, <2>1, <3>1, <3>2, Zenon DEF XidKeyed
    <3> QED
      BY <2>1, <3>1, <3>3, Zenon
  <2>7. \A p \in v.paddrs : LET n == v.blocks[p] IN
         /\ n.leaf = (n.level = 0)
         /\ n.level < MaxSnapTreeDepth
         /\ ~(n.level > 0)
    <3>1. lf.leaf = TRUE
      <4>1. lf.leaf \in BOOLEAN
        BY <2>1 DEF TreeNode
      <4> QED
        BY <2>1, <4>1
    <3>2. (lf.level = 0) = TRUE
      BY <2>1
    <3>3. 0 < MaxSnapTreeDepth /\ ~(0 > 0)
      BY SnapTreeAssumption
    <3>4. lf.leaf = (lf.level = 0) /\ lf.level < MaxSnapTreeDepth /\ ~(lf.level > 0)
      BY <2>1, <3>1, <3>2, <3>3, Zenon
    <3> QED
      BY <2>3, <3>4, Zenon
  <2>8. WellFormed(v)
    <3> HIDE DEF lf
    <3>1. /\ v.snap_meta_tree_oid \in v.paddrs
          /\ \A p \in v.paddrs : p = v.snap_meta_tree_oid
      BY <1>OneLeaf, <2>3 DEF IsOneLeaf
    <3>2. \A o : o \notin v.oids
      BY <1>OneLeaf DEF IsOneLeaf
    <3>3. \A p \in v.paddrs : LET n == v.blocks[p] IN
            /\ n.leaf = (n.level = 0)
            /\ n.level < MaxSnapTreeDepth
            /\ n.level > 0 =>
                 /\ Children(v, p) \subseteq v.oids
                 /\ \A j, k \in DOMAIN n.entries : n.entries[j].ref = n.entries[k].ref => j = k
                 /\ \A o \in Children(v, p) : v.blocks[v.omap[o].paddr].level = n.level - 1
      BY <2>7, Zenon
    <3>4. \A p, q \in {b \in v.paddrs : v.blocks[b].level > 0} : p # q => Children(v, p) \cap Children(v, q) = {}
      BY <2>4
    <3>5. \A p, q \in {b \in v.paddrs : v.blocks[b].level = 0} :
            \A j \in DOMAIN v.blocks[p].entries, k \in DOMAIN v.blocks[q].entries :
              LET r == v.blocks[p].entries[j]
                  t == v.blocks[q].entries[k]
              IN  IsMetadata(r) /\ IsMetadata(t) /\ r.xid = t.xid => p = q /\ j = k
      <4> SUFFICES ASSUME NEW p \in {b \in v.paddrs : v.blocks[b].level = 0}, NEW q \in {b \in v.paddrs : v.blocks[b].level = 0},
                          NEW j \in DOMAIN v.blocks[p].entries, NEW k \in DOMAIN v.blocks[q].entries,
                          IsMetadata(v.blocks[p].entries[j]), IsMetadata(v.blocks[q].entries[k]),
                          v.blocks[p].entries[j].xid = v.blocks[q].entries[k].xid
                   PROVE  p = q /\ j = k
        BY Zenon
      <4>1. p \in v.paddrs /\ q \in v.paddrs
        OBVIOUS
      <4> QED
        BY <2>6, <4>1, Zenon
    <3> QED
      BY <2>5, <3>1, <3>2, <3>3, <3>4, <3>5, Zenon DEF WellFormed
  <2> QED
    BY <2>2, <2>8

\* The root above two leaves.
<1>RootIs.
  /\ RootNode \in TreeNode /\ RootNode.level = 1 /\ RootNode.leaf = FALSE /\ RootNode.cksum
  /\ DOMAIN RootNode.entries = {1, 2}
  /\ \A k \in {1, 2} : RootNode.entries[k].ref = k
  <2>1. ChildEntry(1) \in Rec /\ ChildEntry(2) \in Rec /\ ChildEntry(1).ref = 1 /\ ChildEntry(2).ref = 2
    BY DEF ChildEntry, Rec
  <2> DEFINE e == <<ChildEntry(1), ChildEntry(2)>>
  <2>2. e \in Seq(Rec) /\ DOMAIN e = {1, 2} /\ e[1] = ChildEntry(1) /\ e[2] = ChildEntry(2)
    BY <2>1
  <2>3. e[1].ref = 1 /\ e[2].ref = 2
    BY <2>1, <2>2
  <2> HIDE DEF e
  <2>4. RootNode = [cksum |-> TRUE, level |-> 1, leaf |-> FALSE, entries |-> e]
    BY DEF RootNode, e
  <2> QED
    BY <2>2, <2>3, <2>4 DEF TreeNode

\* Such a tree is well formed, too.
<1>TwoLeaves.
  ASSUME NEW v, NEW M \in SUBSET Rec, NEW N \in SUBSET Rec, XidKeyed(M), \A r \in N : ~IsMetadata(r),
         LeafOfRecords(v.blocks[TreeRoot + 1], M), LeafOfRecords(v.blocks[TreeRoot + 2], N), IsTwoLeaves(v, M \cup N)
  PROVE  IsTree(v) /\ WellFormed(v)
  <2> DEFINE a == TreeRoot + 1
             b == TreeRoot + 2
             ma == v.blocks[a]
             mb == v.blocks[b]
             Leaves == {c \in v.paddrs : v.blocks[c].level = 0}
             Inners == {c \in v.paddrs : v.blocks[c].level > 0}
  <2>1. TreeRoot \in Nat /\ a \in Nat /\ b \in Nat /\ a # TreeRoot /\ b # TreeRoot /\ a # b
    BY SnapshotMountAssumption
  <2>2. /\ v.paddrs = {TreeRoot, a, b} /\ v.oids = {1, 2} /\ v.omap[1].paddr = a /\ v.omap[2].paddr = b
        /\ v.blocks[TreeRoot] = RootNode /\ v.snap_meta_tree_oid = TreeRoot /\ v.stored = M \cup N
    BY <1>TwoLeaves DEF IsTwoLeaves
  <2>3. IsTree(v)
    BY <1>TwoLeaves, <2>1 DEF IsTree, IsTwoLeaves
  <2>4. /\ ma \in TreeNode /\ ma.level = 0 /\ ma.leaf
        /\ {ma.entries[k] : k \in DOMAIN ma.entries} = M
        /\ \A k \in DOMAIN ma.entries : ma.entries[k] \in M
        /\ \A j, k \in DOMAIN ma.entries : ma.entries[j] = ma.entries[k] => j = k
    BY <1>TwoLeaves, Zenon DEF LeafOfRecords
  <2>5. /\ mb \in TreeNode /\ mb.level = 0 /\ mb.leaf
        /\ {mb.entries[k] : k \in DOMAIN mb.entries} = N
        /\ \A k \in DOMAIN mb.entries : mb.entries[k] \in N
    BY <1>TwoLeaves, Zenon DEF LeafOfRecords
  <2>6. ma.leaf = TRUE /\ mb.leaf = TRUE
    BY <2>4, <2>5 DEF TreeNode
  <2> HIDE DEF a, b
  <2>7. /\ Leaves = {a, b} /\ Inners = {TreeRoot}
    <3>1. v.blocks[a].level = 0 /\ v.blocks[b].level = 0 /\ v.blocks[TreeRoot].level = 1
      BY <2>2, <2>4, <2>5, <1>RootIs, Zenon
    <3> QED
      BY <2>2, <3>1
  <2>8. Children(v, TreeRoot) = {1, 2}
    <3>1. /\ DOMAIN v.blocks[TreeRoot].entries = {1, 2}
          /\ v.blocks[TreeRoot].entries[1].ref = 1 /\ v.blocks[TreeRoot].entries[2].ref = 2
      BY <2>2, <1>RootIs
    <3> QED
      BY <3>1 DEF Children
  <2>9. v.stored = UNION {{v.blocks[p].entries[k] : k \in DOMAIN v.blocks[p].entries} : p \in Leaves}
    <3> DEFINE E(p) == {v.blocks[p].entries[k] : k \in DOMAIN v.blocks[p].entries}
    <3>1. E(a) = M /\ E(b) = N
      BY <2>4, <2>5, Zenon
    <3> HIDE DEF E
    <3>2. UNION {E(p) : p \in {a, b}} = E(a) \cup E(b)
      OBVIOUS
    <3>3. v.stored = UNION {E(p) : p \in {a, b}}
      BY <2>2, <3>1, <3>2, Zenon
    <3> QED
      BY <2>7, <3>3, Zenon DEF E
  <2>10. ASSUME NEW p \in Leaves, NEW q \in Leaves, NEW j \in DOMAIN v.blocks[p].entries, NEW k \in DOMAIN v.blocks[q].entries,
                IsMetadata(v.blocks[p].entries[j]), IsMetadata(v.blocks[q].entries[k]),
                v.blocks[p].entries[j].xid = v.blocks[q].entries[k].xid
         PROVE  p = q /\ j = k
    <3> HIDE DEF Leaves
    <3>1. \A i \in DOMAIN mb.entries : ~IsMetadata(mb.entries[i])
      BY <1>TwoLeaves, <2>5, Zenon
    <3>2. p = a /\ q = a
      BY <2>7, <2>10, <3>1
    <3>3. j \in DOMAIN ma.entries /\ k \in DOMAIN ma.entries
      BY <3>2
    <3>4. IsMetadata(ma.entries[j]) /\ IsMetadata(ma.entries[k]) /\ ma.entries[j].xid = ma.entries[k].xid
      BY <2>10, <3>2
    <3>5. ma.entries[j] = ma.entries[k]
      BY <1>TwoLeaves, <2>4, <3>3, <3>4, Zenon DEF XidKeyed
    <3> QED
      BY <2>4, <3>2, <3>3, <3>5, Zenon
  <2>11. ASSUME NEW p \in v.paddrs
         PROVE  LET n == v.blocks[p] IN
                /\ n.leaf = (n.level = 0)
                /\ n.level < MaxSnapTreeDepth
                /\ n.level > 0 =>
                     /\ Children(v, p) \subseteq v.oids
                     /\ \A j, k \in DOMAIN n.entries : n.entries[j].ref = n.entries[k].ref => j = k
                     /\ \A o \in Children(v, p) : v.blocks[v.omap[o].paddr].level = n.level - 1
    <3>1. 0 < MaxSnapTreeDepth /\ 1 < MaxSnapTreeDepth /\ ~(0 > 0) /\ 1 - 1 = 0
      BY SnapTreeAssumption, SnapshotMountAssumption
    <3>2. CASE p = TreeRoot
      <4>1. v.blocks[p] = RootNode /\ Children(v, p) = v.oids
        BY <2>2, <2>8, <3>2, Zenon
      <4>2. \A o \in v.oids : v.blocks[v.omap[o].paddr].level = 0
        <5>1. v.blocks[v.omap[1].paddr].level = 0 /\ v.blocks[v.omap[2].paddr].level = 0
          BY <2>2, <2>4, <2>5, Zenon
        <5>2. \A o \in v.oids : o = 1 \/ o = 2
          BY <2>2
        <5> QED
          BY <5>1, <5>2, Zenon
      <4>3. \A j, k \in DOMAIN RootNode.entries : RootNode.entries[j].ref = RootNode.entries[k].ref => j = k
        BY <1>RootIs, Zenon
      <4>4. RootNode.leaf = (RootNode.level = 0) /\ RootNode.level = 1
        <5>1. RootNode.leaf = FALSE /\ RootNode.level = 1
          BY <1>RootIs, Zenon
        <5>2. (1 = 0) = FALSE
          OBVIOUS
        <5> QED
          BY <5>1, <5>2, Zenon
      <4> QED
        BY <3>1, <4>1, <4>2, <4>3, <4>4, Zenon
    <3>3. CASE p = a \/ p = b
      <4>1. v.blocks[p].leaf = TRUE /\ v.blocks[p].level = 0
        <5>1. ma.leaf = TRUE /\ ma.level = 0 /\ mb.leaf = TRUE /\ mb.level = 0
          BY <2>4, <2>5, <2>6, Zenon
        <5> HIDE <2>4, <2>5
        <5> QED
          BY <3>3, <5>1, Zenon
      <4> QED
        BY <3>1, <4>1, Zenon
    <3> QED
      BY <2>2, <3>2, <3>3, Zenon
  <2>12. WellFormed(v)
    <3>1. /\ v.snap_meta_tree_oid \in v.paddrs
          /\ \A p \in v.paddrs : p = v.snap_meta_tree_oid \/ \E o \in v.oids : v.omap[o].paddr = p
          /\ \A o \in v.oids : v.omap[o].paddr \in v.paddrs \ {v.snap_meta_tree_oid}
          /\ \A o, q \in v.oids : v.omap[o].paddr = v.omap[q].paddr => o = q
      BY <2>1, <2>2
    <3>2. \A p, q \in Inners : p # q => Children(v, p) \cap Children(v, q) = {}
      BY <2>7
    <3>3. \A o \in v.oids : \E p \in v.paddrs : v.blocks[p].level > 0 /\ o \in Children(v, p)
      <4>1. TreeRoot \in v.paddrs /\ v.blocks[TreeRoot].level > 0
        BY <2>2, <1>RootIs
      <4> QED
        BY <2>2, <2>8, <4>1, Zenon
    <3>4. \A p, q \in Leaves :
            \A j \in DOMAIN v.blocks[p].entries, k \in DOMAIN v.blocks[q].entries :
              LET r == v.blocks[p].entries[j]
                  t == v.blocks[q].entries[k]
              IN  IsMetadata(r) /\ IsMetadata(t) /\ r.xid = t.xid => p = q /\ j = k
      <4> HIDE DEF Leaves
      <4> QED
        BY <2>10, Zenon
    <3> QED
      BY <2>9, <2>11, <3>1, <3>2, <3>3, <3>4, Zenon DEF WellFormed
  <2> QED
    BY <2>3, <2>12

<1> SUFFICES ASSUME ImageInv
             PROVE  /\ IsTree(SnapMetaTree) /\ WellFormed(SnapMetaTree)
                    /\ SnapMetaTree.stored = MetadataOf(snaps) \cup NamesOf(snaps)
                    /\ SnapMetaTree.snap_meta_tree_oid \notin SnapMetaTree.oids
                    /\ bad = None => Sound(SnapMetaTree)
  OBVIOUS
<1> DEFINE M == MetadataOf(snaps)
           N == NamesOf(snaps)
           v == SnapMetaTree
<1>1. /\ M \in SUBSET Rec /\ IsFiniteSet(M) /\ N \in SUBSET Rec /\ IsFiniteSet(N)
      /\ M \cup N \in SUBSET Rec /\ IsFiniteSet(M \cup N)
  BY <1>SnapshotRecords, Zenon
<1>2. XidKeyed(M \cup N) /\ XidKeyed(M)
  BY <1>KeyedByXid DEF XidKeyed
<1>3. \A r \in N : ~IsMetadata(r)
  BY DEF NamesOf, NameRecord, IsMetadata
<1>4. TreeRoot \in Nat /\ TreeRoot # None /\ TreeRoot + 1 # None /\ TreeRoot + 2 # None /\ TreeRoot > 2
  BY SnapshotMountAssumption
<1>5. CASE Cardinality(snaps) < 2
  <2> DEFINE bl == [b \in {TreeRoot} |-> LeafAt(b, M \cup N)]
  <2>1. v = Tree(<< >>, bl)
    BY <1>5, Zenon DEF SnapMetaTree
  <2>2. DOMAIN << >> = {} /\ DOMAIN bl = {TreeRoot}
    OBVIOUS
  <2>3. /\ LeafOfRecords(LeafAt(TreeRoot, M \cup N), M \cup N)
        /\ LeafAt(TreeRoot, M \cup N) \in TreeNode
        /\ LeafAt(TreeRoot, M \cup N).cksum = (TreeRoot # bad)
    BY <1>1, <1>LeafIs, Zenon
  <2>4. bl[TreeRoot] = LeafAt(TreeRoot, M \cup N) /\ bl \in [{TreeRoot} -> TreeNode]
    BY <2>3
  <2> HIDE DEF bl, M, N
  <2>5. /\ v.omap_header = "ok" /\ v.oids = {} /\ v.paddrs = {TreeRoot}
        /\ v.omap = [o \in {} |-> [error |-> "None", paddr |-> << >>[o]]] /\ v.blocks = bl
        /\ v.snap_meta_tree_oid = TreeRoot /\ v.stored = M \cup N
    BY <2>1, <2>2, Zenon DEF Tree, M, N
  <2> HIDE DEF v
  <2>6. v.omap \in [{} -> Mapping]
    BY <2>5
  <2>7. IsOneLeaf(v, M \cup N) /\ LeafOfRecords(v.blocks[TreeRoot], M \cup N)
    BY <2>3, <2>4, <2>5, <2>6, Zenon DEF IsOneLeaf
  <2>8. IsTree(v) /\ WellFormed(v)
    BY <1>1, <1>2, <2>7, <1>OneLeaf, Zenon
  <2>9. v.snap_meta_tree_oid \notin v.oids
    BY <2>5
  <2>10. ASSUME bad = None
         PROVE  Sound(v)
    <3>1. v.blocks[TreeRoot].cksum
      BY <1>4, <2>3, <2>4, <2>5, <2>10, Zenon
    <3> QED
      BY <2>5, <3>1 DEF Sound
  <2> QED
    BY <2>5, <2>8, <2>9, <2>10, Zenon DEF v, M, N
<1>6. CASE ~(Cardinality(snaps) < 2)
  <2> DEFINE a == TreeRoot + 1
             b == TreeRoot + 2
             maps == <<a, b>>
             bl == [c \in TreeRoot .. TreeRoot + 2 |-> IF c = TreeRoot THEN RootNode ELSE LeafAt(c, IF c = a THEN M ELSE N)]
  <2>1. v = Tree(maps, bl)
    BY <1>6, Zenon DEF SnapMetaTree
  <2>2. TreeRoot .. TreeRoot + 2 = {TreeRoot, a, b} /\ a # TreeRoot /\ b # TreeRoot /\ a # b
    BY <1>4
  <2>3. DOMAIN maps = {1, 2} /\ maps[1] = a /\ maps[2] = b /\ a \in Nat /\ b \in Nat
    BY <1>4
  <2>4. /\ LeafOfRecords(LeafAt(a, M), M) /\ LeafAt(a, M) \in TreeNode /\ LeafAt(a, M).cksum = (a # bad)
        /\ LeafOfRecords(LeafAt(b, N), N) /\ LeafAt(b, N) \in TreeNode /\ LeafAt(b, N).cksum = (b # bad)
    BY <1>1, <1>LeafIs, Zenon
  <2> HIDE DEF a, b, M, N, maps
  <2>5. /\ DOMAIN bl = {TreeRoot, a, b} /\ bl[TreeRoot] = RootNode /\ bl[a] = LeafAt(a, M) /\ bl[b] = LeafAt(b, N)
        /\ bl = [c \in {TreeRoot, a, b} |-> bl[c]]
    BY <2>2
  <2>6. bl \in [{TreeRoot, a, b} -> TreeNode]
    BY <2>4, <2>5, <1>RootIs, Zenon
  <2> HIDE DEF bl
  <2>7. /\ v.omap_header = "ok" /\ v.oids = {1, 2} /\ v.paddrs = {TreeRoot, a, b}
        /\ v.omap = [o \in {1, 2} |-> [error |-> "None", paddr |-> maps[o]]] /\ v.blocks = bl
        /\ v.snap_meta_tree_oid = TreeRoot /\ v.stored = M \cup N
    BY <2>1, <2>3, <2>5 DEF Tree, M, N
  <2> HIDE DEF v
  <2>8. /\ v.omap \in [{1, 2} -> Mapping] /\ v.omap[1].paddr = a /\ v.omap[2].paddr = b
        /\ v.omap[1].error = "None" /\ v.omap[2].error = "None"
    <3>1. /\ [error |-> "None", paddr |-> a] \in Mapping /\ [error |-> "None", paddr |-> b] \in Mapping
          /\ v.omap[1] = [error |-> "None", paddr |-> a] /\ v.omap[2] = [error |-> "None", paddr |-> b]
      BY <2>3, <2>7 DEF Mapping
    <3> QED
      BY <1>6, <2>3, <2>7, <3>1
  <2>9. /\ IsTwoLeaves(v, M \cup N)
        /\ LeafOfRecords(v.blocks[TreeRoot + 1], M) /\ LeafOfRecords(v.blocks[TreeRoot + 2], N)
    BY <2>4, <2>5, <2>6, <2>7, <2>8, Zenon DEF IsTwoLeaves, a, b
  <2>10. IsTree(v) /\ WellFormed(v)
    BY <1>1, <1>2, <1>3, <2>9, <1>TwoLeaves, Zenon
  <2>11. v.snap_meta_tree_oid \notin v.oids
    BY <1>4, <2>7
  <2>12. ASSUME bad = None
         PROVE  Sound(v)
    <3>1. v.blocks[TreeRoot].cksum /\ v.blocks[a].cksum /\ v.blocks[b].cksum
      BY <1>4, <2>4, <2>5, <2>7, <2>12, <1>RootIs, Zenon DEF a, b
    <3>2. \A p \in v.paddrs : v.blocks[p].cksum
      BY <2>7, <3>1
    <3>3. \A o \in v.oids : v.omap[o].error = "None"
      BY <2>7, <2>8
    <3> QED
      BY <2>7, <3>2, <3>3, Zenon DEF Sound
  <2> QED
    BY <2>7, <2>10, <2>11, <2>12, Zenon DEF v, M, N
<1> QED
  BY <1>5, <1>6, Zenon

----------------------------------------------------------------------------
\* What the walk of the image's tree answers for a name.
LEMMA NameAnswer ==
  ASSUME ImageInv, WalkInv, tree = SnapMetaTree, walk = "done", asked # NoName
  PROVE  /\ result = << >> => \A s \in snaps : s.name # asked
         /\ result # << >> => \E s \in snaps : s.name = asked /\ s.xid = result[1].xid
<1> DEFINE named == {r \in tree.stored : r.type = "SnapName" /\ r.name = asked}
<1>1. WellFormed(tree) /\ tree.stored = MetadataOf(snaps) \cup NamesOf(snaps)
  BY ImageTree, Zenon
<1>2. (result = << >> <=> named = {}) /\ (result # << >> => result[1] \in named)
  BY <1>1, Zenon DEF WalkInv, NameResolves
<1>3. ASSUME NEW s \in snaps, s.name = asked
      PROVE  NameRecord(s) \in named
  <2>1. NameRecord(s) \in tree.stored
    BY <1>1 DEF NamesOf
  <2> QED
    BY <1>3, <2>1 DEF NameRecord
<1>4. ASSUME NEW r \in named
      PROVE  \E s \in snaps : s.name = asked /\ s.xid = r.xid
  <2>1. \A t \in MetadataOf(snaps) : t.type = "SnapMetadata"
    BY DEF MetadataOf, Metadata
  <2>2. r \in NamesOf(snaps)
    BY <1>1, <2>1
  <2>3. PICK s \in snaps : r = NameRecord(s)
    BY <2>2 DEF NamesOf
  <2> QED
    BY <2>3 DEF NameRecord
<1> HIDE DEF named
<1>5. result = << >> => \A s \in snaps : s.name # asked
  BY <1>2, <1>3
<1>6. result # << >> => \E s \in snaps : s.name = asked /\ s.xid = result[1].xid
  BY <1>2, <1>4, Zenon
<1> QED
  BY <1>5, <1>6

\* What it lists.
LEMMA ListAnswer ==
  ASSUME ImageInv, WalkInv, tree = SnapMetaTree, walk = "done", asked = NoName
  PROVE  /\ \A k \in DOMAIN result : k \in Nat /\ \E s \in snaps : result[k] = Metadata(s)
         /\ \A s \in snaps : \E k \in DOMAIN result : result[k] = Metadata(s)
<1>1. WellFormed(tree) /\ tree.stored = MetadataOf(snaps) \cup NamesOf(snaps)
  BY ImageTree, Zenon
<1>2. {result[k] : k \in DOMAIN result} = {r \in tree.stored : r.type = "SnapMetadata"}
  BY <1>1, Zenon DEF WalkInv, ListsEverySnapshot
<1>3. \A k \in DOMAIN result : k \in Nat
  <2>1. result \in Seq(Rec)
    BY Zenon DEF WalkInv, WalkTyped
  <2> QED
    BY <2>1
<1>4. \A r \in NamesOf(snaps) : r.type # "SnapMetadata"
  BY DEF NamesOf, NameRecord
<1>5. \A s \in snaps : Metadata(s) \in MetadataOf(snaps) /\ Metadata(s).type = "SnapMetadata"
  BY DEF MetadataOf, Metadata
<1>6. {r \in tree.stored : r.type = "SnapMetadata"} = MetadataOf(snaps)
  <2>1. \A r \in MetadataOf(snaps) : r.type = "SnapMetadata"
    BY DEF MetadataOf, Metadata
  <2> QED
    BY <1>1, <1>4, <2>1
<1>7. {result[k] : k \in DOMAIN result} = MetadataOf(snaps)
  BY <1>2, <1>6
<1>8. \A r \in MetadataOf(snaps) : \E s \in snaps : r = Metadata(s)
  BY DEF MetadataOf
<1> HIDE <1>2, <1>6
<1>9. \A k \in DOMAIN result : \E s \in snaps : result[k] = Metadata(s)
  <2>1. \A k \in DOMAIN result : result[k] \in MetadataOf(snaps)
    BY <1>7
  <2> QED
    BY <1>8, <2>1, Zenon
<1>10. \A s \in snaps : \E k \in DOMAIN result : result[k] = Metadata(s)
  BY <1>5, <1>7
<1> QED
  BY <1>3, <1>9, <1>10, Zenon

\* When it fails on an undamaged image, a read has failed.
LEMMA WalkFailure ==
  ASSUME ImageInv, WalkInv, tree = SnapMetaTree, walk = "failed", bad = None
  PROVE  walk_error = "Io"
<1>1. WellFormed(tree) /\ Sound(tree) /\ tree.snap_meta_tree_oid \notin tree.oids
  BY ImageTree, Zenon
<1> QED
  BY <1>1, Zenon DEF WalkInv, SoundTreeIsRead

\* A block is some block.
LEMMA SomeBlock ==
  ASSUME NEW b \in Blocks
  PROVE  b # None
BY SnapshotMountAssumption

\* A superblock in use parses unless it is the damaged block.
LEMMA SuperblockParses ==
  ASSUME NEW b \in Blocks, NEW x, NEW om, disk[b] = Superblock(x, om)
  PROVE  /\ bad = None => ParseError(b) = "None"
         /\ parse(b) = Volume(x, om, FALSE)
<1>1. disk[b].kind = "apsb" /\ disk[b].xid = x /\ disk[b].omap_oid = om
  BY DEF Superblock
<1>2. b # None
  BY SomeBlock, Zenon
<1> QED
  BY <1>1, <1>2 DEF ParseError, parse

----------------------------------------------------------------------------
\* Nothing is mounted while the writer is at work.
LEMMA WritingOK ==
  ASSUME MountInv, pc = "writing", UNCHANGED <<bad, mount>>
  PROVE  MountInv'
<1>1. /\ pc' = "writing" /\ want' = 0 /\ name' = NoName /\ bad' = None
      /\ want' \in Nat /\ name' \in Names \cup {NoName}
  BY DEF MountInv, mount
<1>2. PointInTime' /\ RefusesOnlyUnknown'
  BY <1>1 DEF PointInTime, RefusesOnlyUnknown
<1> QED
  BY <1>1, <1>2 DEF MountInv, Opened

\* What stays as it is when the image does.
LEMMA ImageStays ==
  ASSUME UNCHANGED <<image, bad>>
  PROVE  /\ disk' = disk /\ omap' = omap /\ apsb' = apsb /\ xid' = xid /\ snaps' = snaps /\ history' = history
         /\ encrypted' = encrypted /\ bad' = bad /\ SnapMetaTree' = SnapMetaTree
         /\ Mountable(xid', snaps') = Mountable(xid, snaps)
<1>1. disk' = disk /\ omap' = omap /\ apsb' = apsb /\ xid' = xid /\ snaps' = snaps /\ history' = history
      /\ encrypted' = encrypted /\ bad' = bad
  BY DEF image
<1>2. SnapMetaTree' = SnapMetaTree
  BY <1>1, Zenon DEF SnapMetaTree, Tree, LeafAt, RootNode, ChildEntry, MetadataOf, NamesOf, Metadata, NameRecord
<1> QED
  BY <1>1, <1>2

\* The image is taken.
LEMMA AcquireOK ==
  ASSUME MountInv, Acquire
  PROVE  MountInv'
<1>1. pc' = "open" /\ xid > 0 /\ xid' = xid
  BY DEF Acquire, image
<1>2. /\ want' \in Nat /\ name' \in Names \cup {NoName} /\ (want' # 0 \/ name' # NoName)
      /\ want' = 0 \/ name' = NoName
  <2>1. CASE want' \in 1 .. xid + 1 /\ name' = NoName
    BY <2>1
  <2>2. CASE want' = 0 /\ name' \in Names
    BY <2>2, SnapTreeAssumption
  <2> QED
    BY <2>1, <2>2 DEF Acquire
<1>3. PointInTime' /\ RefusesOnlyUnknown'
  BY <1>1 DEF PointInTime, RefusesOnlyUnknown
<1> QED
  BY <1>1, <1>2, <1>3 DEF MountInv, Opened

\* A failure keeps the invariant if an undamaged volume gives no other reason for it.
LEMMA FailureOK ==
  ASSUME MountInv, pc \notin {"writing", "found"}, NEW kind, Failed(kind),
         bad = None /\ (encrypted /\ volume # None => volume.vek) =>
           kind = "Io" \/ (kind = "SnapshotNotFound" /\ want # xid /\ \A s \in snaps : s.xid # want)
  PROVE  MountInv'
<1>1. /\ pc' = "failed" /\ error' = kind /\ UNCHANGED <<image, bad>>
      /\ want' = want /\ name' = name /\ volume' = volume
  BY DEF Failed
<1>2. /\ disk' = disk /\ omap' = omap /\ apsb' = apsb /\ xid' = xid /\ snaps' = snaps /\ history' = history
      /\ encrypted' = encrypted /\ bad' = bad /\ SnapMetaTree' = SnapMetaTree
      /\ Mountable(xid', snaps') = Mountable(xid, snaps)
  BY <1>1, ImageStays, Zenon
<1>3. PointInTime' /\ RefusesOnlyUnknown'
  BY <1>1, <1>2, Zenon DEF PointInTime, RefusesOnlyUnknown
<1>4. /\ want' \in Nat /\ name' \in Names \cup {NoName}
      /\ xid' > 0 /\ (want' # 0 \/ name' # NoName)
      /\ want' # 0 /\ name' # NoName => \E s \in snaps' : s.name = name' /\ s.xid = want'
  BY <1>1, <1>2 DEF MountInv
<1> QED
  BY <1>1, <1>3, <1>4 DEF MountInv, Opened

\* The live superblock, while a caller is at work.
LEMMA LiveSuperblock ==
  ASSUME ImageInv, MountInv, pc \notin {"writing", "found"}
  PROVE  /\ apsb \in Blocks /\ disk[apsb] = Superblock(xid, OmapBlock) /\ parse(apsb) = Volume(xid, OmapBlock, FALSE)
         /\ bad = None => ParseError(apsb) = "None"
<1>1. xid > 0
  BY DEF MountInv
<1>2. apsb \in Blocks /\ disk[apsb] = Superblock(xid, OmapBlock)
  BY <1>1, Zenon DEF ImageInv, OnDisk
<1> QED
  BY <1>2, SuperblockParses, Zenon

\* What the caller has asked for stays with it.
Asked ==
  /\ want \in Nat /\ name \in Names \cup {NoName}
  /\ xid > 0 /\ (want # 0 \/ name # NoName)
  /\ want # 0 /\ name # NoName => \E s \in snaps : s.name = name /\ s.xid = want

\* open_first_volume.
LEMMA OpenOK ==
  ASSUME ImageInv, MountInv, OpenFirstVolume
  PROVE  MountInv'
<1>1. pc = "open" /\ pc \notin {"writing", "found"}
  BY DEF OpenFirstVolume
<1>2. /\ parse(apsb) = Volume(xid, OmapBlock, FALSE)
      /\ bad = None => ParseError(apsb) = "None"
  BY <1>1, LiveSuperblock, Zenon
<1>3. CASE Fail("Io")
  BY <1>1, <1>3, FailureOK, Zenon DEF Fail
<1>4. CASE ParseError(apsb) # "None" /\ Fail(ParseError(apsb))
  <2>1. bad # None
    BY <1>2, <1>4
  <2> QED
    BY <1>1, <1>4, <2>1, FailureOK, Zenon DEF Fail
<1>5. CASE /\ live' = parse(apsb)
           /\ pc' = "live"
           /\ UNCHANGED <<image, bad, want, name, sblock_oid, volume, oid, value, error, walkvars>>
  <2>1. xid' = xid /\ snaps' = snaps /\ want' = want /\ name' = name
    BY <1>5 DEF image
  <2>2. Asked'
    BY <1>1, <2>1 DEF MountInv, Asked
  <2>3. IsVolume(live', xid')
    BY <1>2, <1>5, <2>1, Zenon DEF IsVolume
  <2>4. PointInTime' /\ RefusesOnlyUnknown'
    BY <1>5 DEF PointInTime, RefusesOnlyUnknown
  <2> QED
    BY <1>5, <2>2, <2>3, <2>4 DEF MountInv, Opened, Asked
<1> QED
  BY <1>3, <1>4, <1>5, Zenon DEF OpenFirstVolume

WithKey(v, k) == [v EXCEPT !.vek = k]

\* A volume gets a key.
LEMMA KeyGiven ==
  ASSUME NEW x, NEW om, NEW key, NEW k
  PROVE  WithKey(Volume(x, om, key), k) = Volume(x, om, k)
BY DEF Volume, WithKey

\* It is the same volume then.
LEMMA KeyedVolume ==
  ASSUME NEW v, NEW x, NEW k \in BOOLEAN, IsVolume(v, x)
  PROVE  IsVolume(WithKey(v, k), x)
<1>1. PICK key \in BOOLEAN : v = Volume(x, OmapBlock, key)
  BY Zenon DEF IsVolume
<1>2. WithKey(v, k) = Volume(x, OmapBlock, k)
  BY <1>1, KeyGiven
<1> QED
  BY <1>2, Zenon DEF IsVolume

\* A volume gets another object map.
LEMMA OmapGiven ==
  ASSUME NEW x, NEW om, NEW key, NEW o
  PROVE  with_omap_oid(Volume(x, om, key), o) = Volume(x, o, key)
BY DEF Volume, with_omap_oid

\* set_vek.
LEMMA VekOK ==
  ASSUME MountInv, set_vek
  PROVE  MountInv'
<1>1. /\ UNCHANGED <<image, bad>> /\ pc' = pc /\ want' = want /\ name' = name /\ walk' = walk
      /\ (pc = "live" \/ pc = "mounted")
  BY DEF set_vek, walkvars
<1>2. xid' = xid /\ snaps' = snaps /\ Mountable(xid', snaps') = Mountable(xid, snaps)
  BY <1>1, ImageStays, Zenon
<1>3. PointInTime' /\ RefusesOnlyUnknown'
  BY <1>1 DEF PointInTime, RefusesOnlyUnknown
<1>4. Asked'
  BY <1>1, <1>2 DEF MountInv, Asked
<1>6. CASE pc = "live"
  <2>1. live' = WithKey(live, TRUE) /\ IsVolume(live, xid)
    BY <1>6 DEF set_vek, MountInv, Opened, WithKey
  <2>2. IsVolume(live', xid')
    BY <1>2, <2>1, KeyedVolume, Zenon
  <2> QED
    BY <1>1, <1>3, <1>4, <1>6, <2>2 DEF MountInv, Opened, Asked
<1>7. CASE pc = "mounted"
  <2>1. volume' = WithKey(volume, TRUE) /\ IsVolume(volume, want) /\ want \in Mountable(xid, snaps)
    BY <1>7 DEF set_vek, MountInv, WithKey
  <2>2. IsVolume(volume', want') /\ want' \in Mountable(xid', snaps')
    BY <1>1, <1>2, <2>1, KeyedVolume, Zenon
  <2> QED
    BY <1>1, <1>3, <1>4, <1>7, <2>2 DEF MountInv, Opened, Asked
<1> QED
  BY <1>1, <1>6, <1>7

\* A name is looked up.
LEMMA LookupOK ==
  ASSUME ImageInv, MountInv, Lookup
  PROVE  MountInv' /\ WalkInv'
<1>1. /\ pc = "live" /\ want = 0 /\ Call(SnapMetaTree, name) /\ pc' = "lookup" /\ UNCHANGED <<image, bad>>
      /\ want' = want /\ name' = name /\ live' = live
  BY DEF Lookup
<1>2. tree' = SnapMetaTree /\ asked' = name /\ walk' = "start"
  BY <1>1, Zenon DEF Call
<1>3. xid' = xid /\ snaps' = snaps /\ SnapMetaTree' = SnapMetaTree
  BY <1>1, ImageStays, Zenon
<1>4. IsTree(SnapMetaTree)
  BY ImageTree, Zenon
<1>5. Asked' /\ name \in Names \cup {NoName} /\ IsVolume(live', xid')
  BY <1>1, <1>3 DEF MountInv, Asked, Opened
<1>6. WalkInv'
  BY <1>1, <1>4, <1>5, CallOK, Zenon
<1>7. PointInTime' /\ RefusesOnlyUnknown'
  BY <1>1 DEF PointInTime, RefusesOnlyUnknown
<1>8. MountInv'
  BY <1>1, <1>2, <1>3, <1>5, <1>7 DEF MountInv, Opened, Asked
<1> QED
  BY <1>6, <1>8

\* The name has been looked up.
LEMMA LookedUpOK ==
  ASSUME ImageInv, WalkInv, MountInv, LookedUp
  PROVE  MountInv' /\ WalkInv'
<1>1. pc = "lookup" /\ Taken /\ pc \notin {"writing", "found"}
  BY DEF LookedUp
<1>2. tree = SnapMetaTree /\ asked = name /\ want = 0
  BY <1>1 DEF MountInv
<1>3. WalkInv'
  BY <1>1, TakenOK, Zenon
<1>4. Asked /\ name # NoName
  BY <1>1, <1>2 DEF MountInv, Asked
<1>5. CASE walk = "failed" /\ Failed(walk_error)
  <2>1. bad = None => walk_error = "Io"
    BY <1>2, <1>5, WalkFailure, Zenon
  <2> QED
    BY <1>1, <1>3, <1>5, <2>1, FailureOK, Zenon
<1>6. CASE /\ walk = "done" /\ result = << >>
           /\ pc' = "absent"
           /\ UNCHANGED <<image, bad, want, name, live, sblock_oid, volume, oid, value, error>>
  <2>1. \A s \in snaps : s.name # name
    BY <1>2, <1>4, <1>6, NameAnswer, Zenon
  <2>2. xid' = xid /\ snaps' = snaps /\ want' = want /\ name' = name
    BY <1>6 DEF image
  <2>3. PointInTime' /\ RefusesOnlyUnknown'
    BY <1>6, <2>1, <2>2 DEF PointInTime, RefusesOnlyUnknown
  <2>4. Asked'
    BY <1>4, <2>2 DEF Asked
  <2>5. MountInv'
    BY <1>6, <2>3, <2>4, Zenon DEF MountInv, Opened, Asked
  <2> QED
    BY <1>3, <2>5
<1>7. CASE /\ walk = "done" /\ result # << >>
           /\ want' = result[1].xid
           /\ live' = None
           /\ pc' = "open"
           /\ UNCHANGED <<image, bad, name, sblock_oid, volume, oid, value, error>>
  <2>1. PICK s \in snaps : s.name = name /\ s.xid = result[1].xid
    BY <1>2, <1>4, <1>7, NameAnswer, Zenon
  <2>2. s.xid \in Nat /\ s.xid # 0
    <3>1. s \in Snapshot(xid)
      BY DEF ImageInv, ImageTyped
    <3> QED
      BY <3>1 DEF Snapshot
  <2>3. xid' = xid /\ snaps' = snaps /\ name' = name /\ want' = s.xid
    BY <1>7, <2>1 DEF image
  <2>4. Asked'
    BY <1>4, <2>1, <2>2, <2>3 DEF Asked
  <2>5. PointInTime' /\ RefusesOnlyUnknown'
    BY <1>7, Zenon DEF PointInTime, RefusesOnlyUnknown
  <2>6. MountInv'
    BY <1>7, <2>4, <2>5, Zenon DEF MountInv, Opened, Asked
  <2> QED
    BY <1>3, <2>6
<1> QED
  BY <1>5, <1>6, <1>7, Zenon DEF LookedUp

\* open_snapshot.
LEMMA OpenSnapshotOK ==
  ASSUME ImageInv, WalkInv, MountInv, OpenSnapshot
  PROVE  MountInv' /\ WalkInv'
<1>1. pc = "live" /\ want # 0 /\ UNCHANGED <<image, bad>> /\ want' = want /\ name' = name /\ live' = live
  BY DEF OpenSnapshot
<1>2. IsVolume(live, xid) /\ Asked
  BY <1>1 DEF MountInv, Opened, Asked
<1>3. live.xid = xid
  <2>1. PICK key \in BOOLEAN : live = Volume(xid, OmapBlock, key)
    BY <1>2, Zenon DEF IsVolume
  <2> QED
    BY <2>1 DEF Volume
<1>4. xid' = xid /\ snaps' = snaps /\ SnapMetaTree' = SnapMetaTree /\ Mountable(xid', snaps') = Mountable(xid, snaps)
  BY <1>1, ImageStays, Zenon
<1>5. Asked'
  BY <1>1, <1>2, <1>4 DEF Asked
<1>6. CASE /\ IsLive
           /\ volume' = live
           /\ pc' = "mounted"
           /\ UNCHANGED <<image, bad, want, name, live, sblock_oid, oid, value, error, walkvars>>
  <2>1. want = xid
    BY <1>3, <1>6 DEF IsLive
  <2>2. want \in Mountable(xid, snaps)
    BY <2>1 DEF Mountable
  <2>3. IsVolume(volume', want')
    BY <1>1, <1>2, <1>6, <2>1
  <2>4. PointInTime' /\ RefusesOnlyUnknown'
    BY <1>6 DEF PointInTime, RefusesOnlyUnknown
  <2>5. MountInv'
    BY <1>1, <1>4, <1>5, <1>6, <2>2, <2>3, <2>4, Zenon DEF MountInv, Opened, Asked
  <2>6. WalkInv'
    BY <1>6, WalkKept, Zenon
  <2> QED
    BY <2>5, <2>6
<1>7. CASE /\ ~IsLive
           /\ Call(SnapMetaTree, NoName)
           /\ pc' = "list"
           /\ UNCHANGED <<image, bad, want, name, live, sblock_oid, volume, oid, value, error>>
  <2>1. want # xid
    BY <1>3, <1>7 DEF IsLive
  <2>2. tree' = SnapMetaTree /\ asked' = NoName /\ walk' = "start"
    BY <1>7, Zenon DEF Call
  <2>3. IsTree(SnapMetaTree)
    BY ImageTree, Zenon
  <2>4. WalkInv'
    BY <1>7, <2>3, CallOK
  <2>5. PointInTime' /\ RefusesOnlyUnknown'
    BY <1>7, Zenon DEF PointInTime, RefusesOnlyUnknown
  <2>6. IsVolume(live', xid')
    BY <1>1, <1>2, <1>4
  <2>7. MountInv'
    BY <1>1, <1>4, <1>5, <1>7, <2>1, <2>2, <2>5, <2>6, Zenon DEF MountInv, Opened, Asked
  <2> QED
    BY <2>4, <2>7
<1> QED
  BY <1>6, <1>7, Zenon DEF OpenSnapshot

\* The snapshot is looked for among those that are listed.
LEMMA FindOK ==
  ASSUME ImageInv, WalkInv, MountInv, FindSnapshot
  PROVE  MountInv' /\ WalkInv'
<1>1. pc = "list" /\ Taken /\ pc \notin {"writing", "found"}
  BY DEF FindSnapshot
<1>2. tree = SnapMetaTree /\ asked = NoName /\ want # 0 /\ want # xid /\ Asked /\ IsVolume(live, xid)
  BY <1>1 DEF MountInv, Asked, Opened
<1>3. WalkInv'
  BY <1>1, TakenOK, Zenon
<1>4. CASE walk = "failed" /\ Failed(walk_error)
  <2>1. bad = None => walk_error = "Io"
    BY <1>2, <1>4, WalkFailure, Zenon
  <2> QED
    BY <1>1, <1>3, <1>4, <2>1, FailureOK, Zenon
<1>5. ASSUME walk = "done"
      PROVE  /\ \A k \in DOMAIN result : k \in Nat /\ \E s \in snaps : result[k] = Metadata(s)
             /\ \A s \in snaps : \E k \in DOMAIN result : result[k] = Metadata(s)
  BY <1>2, <1>5, ListAnswer, Zenon
<1>6. \A s \in snaps : Metadata(s).xid = s.xid /\ Metadata(s).ref = s.sblock_oid
  BY DEF Metadata
<1>7. CASE walk = "done" /\ Named = {} /\ Failed("SnapshotNotFound")
  <2>1. ASSUME NEW s \in snaps
        PROVE  s.xid # want
    <3>1. PICK k \in DOMAIN result : result[k] = Metadata(s)
      BY <1>5, <1>7, Zenon
    <3>2. result[k].xid = s.xid
      BY <1>6, <3>1, Zenon
    <3> QED
      BY <1>7, <3>2 DEF Named
  <2> QED
    BY <1>1, <1>2, <1>3, <1>7, <2>1, FailureOK, Zenon
<1>8. CASE /\ walk = "done" /\ Named # {}
           /\ sblock_oid' = result[CHOOSE k \in Named : \A j \in Named : k <= j].ref
           /\ pc' = "mount"
           /\ UNCHANGED <<image, bad, want, name, live, volume, oid, value, error>>
  <2> DEFINE first == CHOOSE k \in Named : \A j \in Named : k <= j
  <2>1. Named \in SUBSET Nat /\ Named # {}
    BY <1>5, <1>8 DEF Named
  <2>2. \E k \in Named : \A j \in Named : k <= j
    BY <2>1, LeastElement, Zenon
  <2>3. first \in Named
    BY <2>2, Zenon
  <2> HIDE DEF first
  <2>4. first \in DOMAIN result /\ result[first].xid = want
    BY <2>3 DEF Named
  <2>5. PICK s \in snaps : result[first] = Metadata(s)
    BY <1>5, <1>8, <2>4, Zenon
  <2>6. s.xid = want /\ s.sblock_oid = sblock_oid'
    <3>1. sblock_oid' = result[first].ref
      BY <1>8 DEF first
    <3> QED
      BY <1>6, <2>4, <2>5, <3>1, Zenon
  <2>7. xid' = xid /\ snaps' = snaps /\ want' = want /\ name' = name /\ live' = live
    BY <1>8 DEF image
  <2>8. \E t \in snaps' : t.xid = want' /\ t.sblock_oid = sblock_oid'
    BY <2>6, <2>7
  <2>9. PointInTime' /\ RefusesOnlyUnknown'
    BY <1>8 DEF PointInTime, RefusesOnlyUnknown
  <2>10. Asked' /\ IsVolume(live', xid')
    BY <1>2, <2>7 DEF Asked
  <2>11. MountInv'
    BY <1>2, <1>8, <2>7, <2>8, <2>9, <2>10, Zenon DEF MountInv, Opened, Asked
  <2> QED
    BY <1>3, <2>11
<1> QED
  BY <1>4, <1>7, <1>8, Zenon DEF FindSnapshot

\* mount_snapshot.
LEMMA MountOK ==
  ASSUME ImageInv, MountInv, MountSnapshot
  PROVE  MountInv'
<1>1. pc = "mount" /\ pc \notin {"writing", "found"}
  BY DEF MountSnapshot
<1>2. IsVolume(live, xid) /\ Asked /\ want # 0
  BY <1>1 DEF MountInv, Opened, Asked
<1>3. PICK s \in snaps : s.xid = want /\ s.sblock_oid = sblock_oid
  BY <1>1, Zenon DEF MountInv
<1>4. sblock_oid \in Blocks /\ disk[sblock_oid] = Superblock(want, 0)
  <2>1. s \in Snapshot(xid) /\ disk[s.sblock_oid] = Superblock(s.xid, 0)
    <3>1. snaps \subseteq Snapshot(xid)
      BY DEF ImageInv, ImageTyped
    <3>2. \A t \in snaps : disk[t.sblock_oid] = Superblock(t.xid, 0)
      BY Zenon DEF ImageInv, OnDisk
    <3> QED
      BY <3>1, <3>2, Zenon
  <2>2. s.sblock_oid \in Blocks
    BY <2>1 DEF Snapshot
  <2> QED
    BY <1>3, <2>1, <2>2, Zenon
<1>5. (bad = None => ParseError(sblock_oid) = "None") /\ parse(sblock_oid) = Volume(want, 0, FALSE)
  BY <1>4, SuperblockParses, Zenon
<1>6. CASE Fail("Io")
  BY <1>1, <1>6, FailureOK, Zenon DEF Fail
<1>7. CASE ParseError(sblock_oid) # "None" /\ Fail(ParseError(sblock_oid))
  <2>1. bad # None
    BY <1>5, <1>7, Zenon
  <2> QED
    BY <1>1, <1>7, <2>1, FailureOK, Zenon DEF Fail
<1>8. CASE /\ volume' = with_omap_oid(parse(sblock_oid), live.omap_oid)
           /\ pc' = "mounted"
           /\ UNCHANGED <<image, bad, want, name, live, sblock_oid, oid, value, error, walkvars>>
  <2>1. live.omap_oid = OmapBlock
    <3>1. PICK key \in BOOLEAN : live = Volume(xid, OmapBlock, key)
      BY <1>2, Zenon DEF IsVolume
    <3> QED
      BY <3>1 DEF Volume
  <2>2. xid' = xid /\ snaps' = snaps /\ want' = want /\ name' = name
    BY <1>8 DEF image
  <2>3. volume' = Volume(want, OmapBlock, FALSE)
    <3>1. with_omap_oid(Volume(want, 0, FALSE), OmapBlock) = Volume(want, OmapBlock, FALSE)
      BY OmapGiven, Zenon
    <3>2. volume' = with_omap_oid(Volume(want, 0, FALSE), OmapBlock)
      BY <1>5, <1>8, <2>1, Zenon
    <3> QED
      BY <3>1, <3>2, Zenon
  <2>4. IsVolume(volume', want')
    BY <2>2, <2>3, Zenon DEF IsVolume
  <2>5. want' \in Mountable(xid', snaps')
    BY <1>3, <2>2 DEF Mountable
  <2>6. PointInTime' /\ RefusesOnlyUnknown'
    BY <1>8, Zenon DEF PointInTime, RefusesOnlyUnknown
  <2>7. Asked'
    BY <1>2, <2>2 DEF Asked
  <2> QED
    BY <1>8, <2>4, <2>5, <2>6, <2>7 DEF MountInv, Opened, Asked
<1> QED
  BY <1>6, <1>7, <1>8, Zenon DEF MountSnapshot

\* An object is read through the volume that is mounted.
LEMMA ReadOK ==
  ASSUME ImageInv, MountInv, NEW o \in Oids, ReadObject(o)
  PROVE  MountInv'
<1>1. pc = "mounted" /\ pc \notin {"writing", "found"}
  BY Zenon DEF ReadObject
<1>2. IsVolume(volume, want) /\ want \in Mountable(xid, snaps) /\ Asked
  BY <1>1 DEF MountInv, Asked
<1>3. PICK key \in BOOLEAN : volume = Volume(want, OmapBlock, key)
  BY <1>2, Zenon DEF IsVolume
<1>4. volume.xid = want /\ volume.omap_oid = OmapBlock /\ volume.vek = key
  BY <1>3 DEF Volume
<1>5. Candidates(o) = Versions(omap, o, want)
  BY <1>4 DEF Candidates, Versions
<1>6. /\ Versions(omap, o, want) = {} => history[want][o] = None
      /\ \A e \in omap : IsNewest(omap, o, want, e) => history[want][o] = e.xid
  BY <1>2, Zenon DEF ImageInv, AnswersAt
<1>7. volume # None
  <2>1. want \in 0 .. MaxXid
    <3>1. snaps \subseteq Snapshot(xid) /\ xid \in 0 .. MaxXid /\ MaxXid \in Nat
      BY SnapshotMountAssumption DEF ImageInv, ImageTyped
    <3>2. \A s \in snaps : s.xid \in 1 .. xid
      BY <3>1 DEF Snapshot
    <3> QED
      BY <1>2, <3>1, <3>2 DEF Mountable
  <2> QED
    BY <1>3, <2>1, NoVolumeAssumption, Zenon
<1>8. CASE Fail("Io")
  BY <1>1, <1>8, FailureOK, Zenon DEF Fail
<1>9. disk[volume.omap_oid].kind = "omap"
  BY <1>4, Zenon DEF ImageInv, OnDisk
<1>10. CASE /\ Candidates(o) = {}
            /\ pc' = "failed" /\ error' = "OmapUnresolved" /\ oid' = o
            /\ UNCHANGED <<image, bad, want, name, live, sblock_oid, volume, value, walkvars>>
  <2>1. xid' = xid /\ snaps' = snaps /\ want' = want /\ name' = name /\ history' = history
    BY <1>10 DEF image
  <2>2. history'[want'][oid'] = None
    BY <1>5, <1>6, <1>10, <2>1, Zenon
  <2>3. PointInTime' /\ RefusesOnlyUnknown'
    BY <1>10, <2>2, Zenon DEF PointInTime, RefusesOnlyUnknown
  <2>4. Asked'
    BY <1>2, <2>1 DEF Asked
  <2> QED
    BY <1>10, <2>3, <2>4, Zenon DEF MountInv, Opened, Asked
<1>11. ASSUME NEW e \in Candidates(o), \A f \in Candidates(o) : f.xid <= e.xid, ~Verifies(e.paddr), Fail("ChecksumMismatch")
       PROVE  MountInv'
  <2>1. e.paddr # None
    <3>1. e \in Entry(xid)
      BY DEF Candidates, ImageInv, ImageTyped
    <3>2. e.paddr \in Blocks
      BY <3>1 DEF Entry
    <3> QED
      BY <3>2, SomeBlock, Zenon
  <2>2. ~(bad = None /\ (encrypted /\ volume # None => volume.vek))
    BY <1>7, <1>11, <2>1, Zenon DEF Verifies
  <2> QED
    BY <1>1, <1>11, <2>2, FailureOK, Zenon DEF Fail
<1>12. ASSUME NEW e \in Candidates(o), \A f \in Candidates(o) : f.xid <= e.xid,
              value' = disk[e.paddr], oid' = o, pc' = "done",
              UNCHANGED <<image, bad, want, name, live, sblock_oid, volume, error, walkvars>>
       PROVE  MountInv'
  <2>1. xid' = xid /\ snaps' = snaps /\ want' = want /\ name' = name /\ history' = history /\ volume' = volume
    BY <1>12, Zenon DEF image
  <2>2. e \in omap /\ disk[e.paddr] = Node(e.xid)
    BY Zenon DEF Candidates, ImageInv, OnDisk
  <2>3. IsNewest(omap, o, want, e)
    BY <1>5, <1>12, Zenon DEF IsNewest
  <2>4. history[want][o] = e.xid
    BY <1>6, <2>2, <2>3, Zenon
  <2>5. value' = Node(history'[want'][oid'])
    BY <1>12, <2>1, <2>2, <2>4, Zenon
  <2>6. Asked'
    BY <1>2, <2>1 DEF Asked
  <2>7. name' # NoName => \E s \in snaps' : s.name = name' /\ s.xid = want'
    <3>1. xid > 0 /\ \A s \in snaps : s.xid # 0
      <4>1. snaps \subseteq Snapshot(xid)
        BY DEF ImageInv, ImageTyped
      <4> QED
        BY <1>2, <4>1 DEF Asked, Snapshot
    <3>2. want' # 0
      BY <1>2, <2>1, <3>1 DEF Mountable
    <3> QED
      BY <2>6, <3>2 DEF Asked
  <2>8. PointInTime' /\ RefusesOnlyUnknown'
    BY <1>12, <2>5, <2>7, Zenon DEF PointInTime, RefusesOnlyUnknown
  <2>9. IsVolume(volume', want') /\ want' \in Mountable(xid', snaps')
    BY <1>2, <2>1
  <2> QED
    BY <1>12, <2>6, <2>8, <2>9, Zenon DEF MountInv, Opened, Asked
<1> QED
  BY <1>8, <1>9, <1>10, <1>11, <1>12, Zenon DEF ReadObject

\* A walk stays on its tree and with its question.
LEMMA WalkStays ==
  ASSUME WalkNext
  PROVE  tree' = tree /\ asked' = asked /\ walk' # "idle"
<1>1. ASSUME NEW kind, WalkFails(kind)
      PROVE  tree' = tree /\ asked' = asked /\ walk' # "idle"
  BY <1>1 DEF WalkFails
<1>2. ASSUME NEW records, Return(records)
      PROVE  tree' = tree /\ asked' = asked /\ walk' # "idle"
  BY <1>2 DEF Return
<1>3. CASE BeginWalk
  BY <1>1, <1>3 DEF BeginWalk
<1>4. CASE Refuse
  BY <1>1, <1>4, Zenon DEF Refuse
<1>5. CASE VisitLeaf \/ EnterIndex
  BY <1>5 DEF VisitLeaf, EnterIndex
<1>6. CASE Turn
  BY <1>6 DEF Turn
<1>7. CASE ListSnapshots
  BY <1>2, <1>7, Zenon DEF ListSnapshots
<1>8. CASE ResolveName
  BY <1>2, <1>8, Zenon DEF ResolveName
<1> QED
  BY <1>3, <1>4, <1>5, <1>6, <1>7, <1>8, Zenon DEF WalkNext

\* A step of the walk changes nothing else.
LEMMA WalkOK ==
  ASSUME MountInv, Walk
  PROVE  MountInv'
<1>1. /\ pc \in {"lookup", "list", "found"} /\ WalkNext /\ UNCHANGED <<image, bad>>
      /\ pc' = pc /\ want' = want /\ name' = name /\ live' = live
  BY DEF Walk, mount
<1>2. tree' = tree /\ asked' = asked /\ walk' # "idle"
  BY <1>1, WalkStays, Zenon
<1>3. xid' = xid /\ snaps' = snaps /\ SnapMetaTree' = SnapMetaTree
  BY <1>1, ImageStays, Zenon
<1>4. PointInTime' /\ RefusesOnlyUnknown'
  BY <1>1 DEF PointInTime, RefusesOnlyUnknown
<1> QED
  BY <1>1, <1>2, <1>3, <1>4 DEF MountInv, Opened

\* A step that changes nothing.
LEMMA Stutter ==
  ASSUME MountInv, UNCHANGED vars
  PROVE  MountInv'
<1>1. UNCHANGED <<image, bad, mount, walkvars>>
  BY DEF vars
<1>2. /\ xid' = xid /\ snaps' = snaps /\ history' = history /\ encrypted' = encrypted /\ bad' = bad
      /\ SnapMetaTree' = SnapMetaTree /\ Mountable(xid', snaps') = Mountable(xid, snaps)
  BY <1>1, ImageStays, Zenon
<1>3. /\ pc' = pc /\ want' = want /\ name' = name /\ live' = live /\ sblock_oid' = sblock_oid /\ volume' = volume
      /\ oid' = oid /\ value' = value /\ error' = error /\ tree' = tree /\ asked' = asked /\ walk' = walk
  BY <1>1 DEF mount, walkvars
<1>4. PointInTime' /\ RefusesOnlyUnknown'
  BY <1>2, <1>3 DEF MountInv, PointInTime, RefusesOnlyUnknown
<1> QED
  BY <1>2, <1>3, <1>4 DEF MountInv

\* The invariant of the whole: the image, the walk and the caller.
SnapshotInv == ImageInv /\ WalkInv /\ MountInv

\* It holds at the beginning.
LEMMA SnapshotInit ==
  ASSUME Init
  PROVE  SnapshotInv
<1>1. ImageInv
  BY ImageInit
<1>2. WalkInv
  BY WalkInit, Zenon DEF Init
<1>3. (pc = "writing" \/ pc = "found") /\ want = 0 /\ name = NoName /\ bad = None
  BY DEF Init
<1>4. PointInTime /\ RefusesOnlyUnknown
  BY <1>3, Zenon DEF PointInTime, RefusesOnlyUnknown
<1>5. MountInv
  BY <1>3, <1>4 DEF MountInv, Opened
<1> QED
  BY <1>1, <1>2, <1>5, Zenon DEF SnapshotInv

\* A transaction of the writer.
LEMMA WriterStep ==
  ASSUME SnapshotInv, \/ \E o \in Oids, p, sb \in Blocks : WriteObject(o, p, sb)
                      \/ \E f, sb \in Blocks : TakeSnapshot(f, sb)
                      \/ \E s \in snaps, sb \in Blocks : DeleteSnapshot(s, sb)
  PROVE  SnapshotInv'
<1>1. ImageInv'
  BY WriterKeeps, Zenon DEF SnapshotInv
<1>2. pc = "writing" /\ UNCHANGED <<bad, mount, walkvars>>
  BY Zenon DEF WriteObject, TakeSnapshot, DeleteSnapshot, Commit
<1>3. MountInv'
  BY <1>2, WritingOK, Zenon DEF SnapshotInv
<1>4. WalkInv'
  BY <1>2, WalkKept, Zenon DEF SnapshotInv
<1> QED
  BY <1>1, <1>3, <1>4, Zenon DEF SnapshotInv

\* The other steps leave the image alone.
LEMMA ImageFrozen ==
  ASSUME \/ Acquire \/ OpenFirstVolume \/ set_vek \/ Lookup \/ LookedUp
         \/ OpenSnapshot \/ FindSnapshot \/ MountSnapshot \/ Walk
         \/ \E o \in Oids : ReadObject(o)
  PROVE  UNCHANGED image
<1>1. ASSUME NEW kind, Failed(kind)
      PROVE  UNCHANGED image
  BY <1>1, Zenon DEF Failed
<1>2. CASE Acquire \/ set_vek \/ Lookup \/ OpenSnapshot \/ Walk
  BY <1>2, Zenon DEF Acquire, set_vek, Lookup, OpenSnapshot, Walk
<1>3. CASE OpenFirstVolume \/ MountSnapshot
  BY <1>1, <1>3, Zenon DEF OpenFirstVolume, MountSnapshot, Fail
<1>4. CASE LookedUp \/ FindSnapshot
  BY <1>1, <1>4, Zenon DEF LookedUp, FindSnapshot
<1>5. CASE \E o \in Oids : ReadObject(o)
  BY <1>1, <1>5, Zenon DEF ReadObject, Fail
<1> QED
  BY <1>2, <1>3, <1>4, <1>5, Zenon

\* The steps that leave the walk alone.
LEMMA WalkFrozen ==
  ASSUME Acquire \/ OpenFirstVolume \/ set_vek \/ MountSnapshot \/ \E o \in Oids : ReadObject(o)
  PROVE  UNCHANGED walkvars
<1>1. CASE Acquire \/ set_vek
  BY <1>1, Zenon DEF Acquire, set_vek
<1>2. CASE OpenFirstVolume \/ MountSnapshot
  BY <1>2, Zenon DEF OpenFirstVolume, MountSnapshot, Fail
<1>3. CASE \E o \in Oids : ReadObject(o)
  BY <1>3, Zenon DEF ReadObject, Fail
<1> QED
  BY <1>1, <1>2, <1>3, Zenon

\* Every step keeps the invariant.
LEMMA SnapshotStep ==
  ASSUME SnapshotInv, [Next]_vars
  PROVE  SnapshotInv'
<1>1. ImageInv /\ WalkInv /\ MountInv
  BY DEF SnapshotInv
<1>2. CASE \/ \E o \in Oids, p, sb \in Blocks : WriteObject(o, p, sb)
           \/ \E f, sb \in Blocks : TakeSnapshot(f, sb)
           \/ \E s \in snaps, sb \in Blocks : DeleteSnapshot(s, sb)
  BY <1>2, WriterStep, Zenon
<1>3. CASE Acquire \/ OpenFirstVolume \/ set_vek \/ MountSnapshot \/ \E o \in Oids : ReadObject(o)
  <2>1. ImageInv'
    BY <1>1, <1>3, ImageFrozen, ImageKept, Zenon
  <2>2. WalkInv'
    BY <1>1, <1>3, WalkFrozen, WalkKept, Zenon
  <2>3. MountInv'
    BY <1>1, <1>3, AcquireOK, OpenOK, VekOK, MountOK, ReadOK, Zenon
  <2> QED
    BY <2>1, <2>2, <2>3, Zenon DEF SnapshotInv
<1>4. CASE Lookup \/ LookedUp \/ OpenSnapshot \/ FindSnapshot
  <2>1. ImageInv'
    BY <1>1, <1>4, ImageFrozen, ImageKept, Zenon
  <2>2. MountInv' /\ WalkInv'
    BY <1>1, <1>4, LookupOK, LookedUpOK, OpenSnapshotOK, FindOK, Zenon
  <2> QED
    BY <2>1, <2>2, Zenon DEF SnapshotInv
<1>5. CASE Walk
  <2>1. ImageInv'
    BY <1>1, <1>5, ImageFrozen, ImageKept, Zenon
  <2>2. WalkNext
    BY <1>5 DEF Walk
  <2>3. WalkInv'
    BY <1>1, <2>2, WalkStep, Zenon
  <2>4. MountInv'
    BY <1>1, <1>5, WalkOK, Zenon
  <2> QED
    BY <2>1, <2>3, <2>4, Zenon DEF SnapshotInv
<1>6. CASE UNCHANGED vars
  <2>1. UNCHANGED image /\ UNCHANGED walkvars
    BY <1>6 DEF vars
  <2> QED
    BY <1>1, <1>6, <2>1, ImageKept, WalkKept, Stutter, Zenon DEF SnapshotInv
<1> QED
  BY <1>2, <1>3, <1>4, <1>5, <1>6, Zenon DEF Next

\* So it always holds.
THEOREM SnapshotInvariance == Spec => []SnapshotInv
<1>1. Init => SnapshotInv
  BY SnapshotInit
<1>2. SnapshotInv /\ [Next]_vars => SnapshotInv'
  BY SnapshotStep
<1> QED
  BY <1>1, <1>2, PTL DEF Spec

\* A listing of a well-formed tree is complete and in xid order, whatever of the tree
\* is damaged (list_snapshots).
THEOREM ListingIsComplete == Spec => []ListsEverySnapshot
<1>1. SnapshotInv => ListsEverySnapshot
  BY DEF SnapshotInv, WalkInv
<1> QED
  BY <1>1, SnapshotInvariance, PTL

\* A name resolves to a stored name record, and to nothing only if there is none
\* (resolve_snapshot_xid).
THEOREM NamesResolve == Spec => []NameResolves
<1>1. SnapshotInv => NameResolves
  BY DEF SnapshotInv, WalkInv
<1> QED
  BY <1>1, SnapshotInvariance, PTL

\* Neither the depth bound nor the visited set refuses a sound tree (descend_snap).
THEOREM SoundTreesAreRead == Spec => []SoundTreeIsRead
<1>1. SnapshotInv => SoundTreeIsRead
  BY DEF SnapshotInv, WalkInv
<1> QED
  BY <1>1, SnapshotInvariance, PTL

\* No record comes from a block that does not verify (descend_snap).
THEOREM OnlyVerifiedRecords == Spec => []NothingUnverified
<1>1. ASSUME SnapshotInv
      PROVE  NothingUnverified
  <2>1. FromLeaves(tree, visited, seen)
    BY <1>1, Zenon DEF SnapshotInv, WalkInv
  <2>2. ASSUME NEW k \in DOMAIN seen
        PROVE  \E p \in tree.paddrs : /\ tree.blocks[p].cksum
                                      /\ seen[k] \in {tree.blocks[p].entries[j] : j \in DOMAIN tree.blocks[p].entries}
    <3>1. PICK p \in tree.paddrs : /\ tree.blocks[p].cksum
                                   /\ \E j \in DOMAIN tree.blocks[p].entries : seen[k] = tree.blocks[p].entries[j]
      BY <2>1, Zenon DEF FromLeaves, Entries
    <3>2. seen[k] \in {tree.blocks[p].entries[j] : j \in DOMAIN tree.blocks[p].entries}
      BY <3>1
    <3> QED
      BY <3>1, <3>2, Zenon
  <2> QED
    BY <2>2, Zenon DEF NothingUnverified
<1> QED
  BY <1>1, SnapshotInvariance, PTL

\* What a mounted volume yields is what the object held at the transaction asked for,
\* that of the snapshot of the name asked for (mount_snapshot, open_snapshot).
THEOREM ReadsThePast == Spec => []PointInTime
<1>1. SnapshotInv => PointInTime
  BY DEF SnapshotInv, MountInv
<1> QED
  BY <1>1, SnapshotInvariance, PTL

\* An undamaged volume, with its key, refuses only what is unknown to it, and no
\* volume denies a name that a snapshot has (open_snapshot, resolve_snapshot_xid).
THEOREM KnownIsNotRefused == Spec => []RefusesOnlyUnknown
<1>1. SnapshotInv => RefusesOnlyUnknown
  BY DEF SnapshotInv, MountInv
<1> QED
  BY <1>1, SnapshotInvariance, PTL
=============================================================================
