---------------------------- MODULE ReaderProofs ----------------------------
(***************************************************************************)
(* The reader of a volume, for every image, request and number of workers. *)
(*                                                                         *)
(* Workers that share a reader hold its lock across a whole call, so each  *)
(* reads what it asked for.                                                *)
(*                                                                         *)
(* In the object map, resolve returns the newest state of an oid in any    *)
(* ordered map, refuses only an absent oid in a well-formed one, and       *)
(* invents nothing whatever the blocks hold.  The argument follows the     *)
(* descent.  At each node the entries of the tree that lie outside the     *)
(* node's subtree and are not above the target are all below every entry   *)
(* of the subtree, so the floor of the target is in the subtree as soon as *)
(* the subtree holds anything not above the target.                        *)
(***************************************************************************)
EXTENDS OmapRefinement, Vfs, SequenceTheorems, FiniteSetTheorems, TLAPS

----------------------------------------------------------------------------
\* The shared reader.

\* The state has its shape; each worker's call belongs to its plan.
CallInv(w) ==
  /\ wpc[w] \in {"idle", "locking", "seek", "read", "returned"}
  /\ got[w] \in Seq(Place \cup {None}) /\ plan[w] \in Seq(Place)
  /\ wpc[w] = "idle" => got[w] = << >> /\ plan[w] = << >>
  /\ wpc[w] # "idle" => call[w] \in Call
  /\ wpc[w] \in {"locking", "seek", "read"} => plan[w] \in Plans(call[w])
  /\ wpc[w] = "locking" => got[w] = << >>

\* How far a call has come: what it has read is the beginning of its plan, and
\* between its seek and its read the cursor stands where it left it.
ProgressInv(w) ==
  /\ Len(got[w]) <= Len(plan[w])
  /\ \A k \in 1 .. Len(got[w]) : got[w][k] = plan[w][k]
  /\ wpc[w] = "read" => /\ Len(got[w]) < Len(plan[w])
                       /\ cursor[M(w)] = plan[w][Len(got[w]) + 1]
  /\ wpc[w] = "returned" /\ answer[w] = "ok" => got[w] \in Plans(call[w])

\* A worker is inside exactly the mount whose lock it holds.
Inside(w, m) == wpc[w] \in {"seek", "read"} /\ call[w].mount = m

\* What a step of another worker leaves alone.
Untouched(v) ==
  /\ wpc'[v] = wpc[v] /\ call'[v] = call[v] /\ plan'[v] = plan[v]
  /\ got'[v] = got[v] /\ answer'[v] = answer[v]

Shape ==
  /\ lock \in [Mounts -> Workers \cup {None}]
  /\ DOMAIN poison = Mounts /\ DOMAIN cursor = Mounts
  /\ DOMAIN wpc = Workers /\ DOMAIN call = Workers /\ DOMAIN plan = Workers
  /\ DOMAIN got = Workers /\ DOMAIN answer = Workers

VfsInv ==
  /\ Shape
  /\ \A w \in Workers : CallInv(w) /\ ProgressInv(w)
  /\ \A m \in Mounts, w \in Workers : lock[m] = w <=> Inside(w, m)
  /\ \A m \in Mounts : cursor[m] \in Place \cup {None}

\* Every plan is a sequence of places.
LEMMA PlansArePlaces ==
  ASSUME NEW c \in Call
  PROVE  Plans(c) \subseteq Seq(Place)
<1> DEFINE at(part) == [oid |-> c.id.oid, xid |-> XidOf[c.mount], part |-> part]
<1> DEFINE room == [oid |-> None, xid |-> XidOf[c.mount], part |-> "free"]
<1>1. c.id.oid \in Oids /\ XidOf[c.mount] \in Nat
  BY VfsAssumption DEF Call, FileId
<1>2. \A part \in {"dir", "inode", "extents", "xattrs", "data"} : at(part) \in Place
  BY <1>1 DEF Place
<1>3. room \in Place
  BY <1>1 DEF Place
<1>4. \A p, q, r \in Place : <<p>> \in Seq(Place) /\ <<p, q>> \in Seq(Place) /\ <<p, q, r>> \in Seq(Place)
  OBVIOUS
<1>5. Plans(c) \subseteq {<<at("dir")>>, <<at("inode")>>, <<at("inode"), at("extents")>>,
                       <<at("inode"), at("xattrs")>>, <<at("inode"), at("xattrs"), at("data")>>,
                       <<at("xattrs")>>, <<at("xattrs"), at("data")>>, <<room>>}
  <2> HIDE DEF at, room
  <2> QED BY Zenon DEF Plans, at, room
<1> HIDE DEF at, room
<1>6. /\ <<at("dir")>> \in Seq(Place) /\ <<at("inode")>> \in Seq(Place)
      /\ <<at("inode"), at("extents")>> \in Seq(Place) /\ <<at("inode"), at("xattrs")>> \in Seq(Place)
      /\ <<at("inode"), at("xattrs"), at("data")>> \in Seq(Place)
      /\ <<at("xattrs")>> \in Seq(Place) /\ <<at("xattrs"), at("data")>> \in Seq(Place)
      /\ <<room>> \in Seq(Place)
  BY <1>2, <1>3, <1>4
<1> QED
  BY <1>5, <1>6, Zenon

\* The inductive invariant holds before any worker has called a method.
LEMMA InitHolds == VfsInit => VfsInv
<1> SUFFICES ASSUME VfsInit PROVE VfsInv
  OBVIOUS
<1>1. \A w \in Workers : w # None
  BY VfsAssumption
<1> QED
  BY <1>1 DEF VfsInit, VfsInv, Shape, CallInv, ProgressInv, Inside

\* Every step of a worker, on every way out of a method, keeps the inductive
\* invariant.
LEMMA StepHolds == VfsInv /\ [VfsNext]_vfsvars => VfsInv'
<1> SUFFICES ASSUME VfsInv, [VfsNext]_vfsvars PROVE VfsInv'
  OBVIOUS
<1> USE DEF M, Inside, Untouched
<1>0. \A w \in Workers : w # None
  BY VfsAssumption
<1>a. \A v \in Workers : wpc[v] # "idle" => call[v].mount \in Mounts
  BY DEF VfsInv, CallInv, Call
<1>1. ASSUME NEW w \in Workers, Begin(w) PROVE VfsInv'
  <2>1. Shape'
    BY <1>1 DEF VfsInv, Shape, Begin, Unlocked
  <2>2. \A v \in Workers \ {w} : Untouched(v)
    BY <1>1 DEF VfsInv, Shape, Begin, Unlocked
  <2>3. PICK c \in Call :
          /\ call'[w] = c /\ got'[w] = << >>
          /\ \/ wpc'[w] = "returned" /\ answer'[w] = Early(c) /\ plan'[w] = << >> /\ Early(c) # None
             \/ wpc'[w] = "locking" /\ plan'[w] \in Plans(c)
    BY <1>1 DEF VfsInv, Shape, Begin, CallInv
  <2>4. Early(c) # None => Early(c) \in {"refused", "absent"}
    BY Zenon DEF Early
  <2>5. CallInv(w)' /\ ProgressInv(w)'
    <3>1. plan'[w] \in Seq(Place)
      <4>1. plan'[w] = << >> \/ plan'[w] \in Plans(c)
        BY <2>3
      <4>2. Plans(c) \subseteq Seq(Place)
        BY PlansArePlaces
      <4>3. << >> \in Seq(Place)
        OBVIOUS
      <4> QED BY <4>1, <4>2, <4>3, Zenon
    <3> QED BY <2>3, <2>4, <3>1 DEF CallInv, ProgressInv
  <2>6. \A v \in Workers \ {w} : CallInv(v)' /\ ProgressInv(v)'
    <3>1. cursor' = cursor
      BY <1>1 DEF Begin
    <3> QED BY <2>2, <3>1, SMTT(60) DEF VfsInv, CallInv, ProgressInv
  <2>7. \A m \in Mounts, v \in Workers : (lock[m] = v <=> Inside(v, m))'
    BY <2>2, <1>0, <1>a, <1>1, <2>3 DEF VfsInv, Shape, Begin
  <2>8. \A m \in Mounts : cursor'[m] \in Place \cup {None}
    BY <1>a, <1>1 DEF VfsInv, Shape, CallInv, Begin
  <2> QED BY <2>1, <2>5, <2>6, <2>7, <2>8 DEF VfsInv
<1>2. ASSUME NEW w \in Workers, Lock(w) PROVE VfsInv'
  <2>1. Shape'
    BY <1>2 DEF VfsInv, Shape, Lock, Unlocked
  <2>2. \A v \in Workers \ {w} : Untouched(v)
    BY <1>2 DEF VfsInv, Shape, Lock, Unlocked
  <2>5. CallInv(w)' /\ ProgressInv(w)'
    BY <1>2 DEF VfsInv, Shape, Lock, Unlocked, CallInv, ProgressInv
  <2>6. \A v \in Workers \ {w} : CallInv(v)' /\ ProgressInv(v)'
    <3>1. cursor' = cursor
      BY <1>2 DEF Lock
    <3> QED BY <2>2, <3>1, SMTT(60) DEF VfsInv, CallInv, ProgressInv
  <2>7. \A m \in Mounts, v \in Workers : (lock[m] = v <=> Inside(v, m))'
    BY <2>2, <1>0, <1>a, <1>2 DEF VfsInv, Shape, Lock, Unlocked, CallInv
  <2>8. \A m \in Mounts : cursor'[m] \in Place \cup {None}
    BY <1>a, <1>2 DEF VfsInv, Shape, CallInv, Lock, Unlocked
  <2> QED BY <2>1, <2>5, <2>6, <2>7, <2>8 DEF VfsInv
<1>3. ASSUME NEW w \in Workers, Seek(w) PROVE VfsInv'
  <2>1. Shape'
    BY <1>3 DEF VfsInv, Shape, Seek, Unlocked
  <2>2. \A v \in Workers \ {w} : Untouched(v)
    BY <1>3 DEF VfsInv, Shape, Seek, Unlocked
  <2>5. CallInv(w)' /\ ProgressInv(w)'
    BY <1>3, <1>a DEF VfsInv, Shape, Seek, CallInv, ProgressInv
  <2>6. \A v \in Workers \ {w} : CallInv(v)' /\ ProgressInv(v)'
    BY <2>2, <1>3, <1>0, <1>a DEF VfsInv, CallInv, ProgressInv, Seek, Unlocked, Shape
  <2>7. \A m \in Mounts, v \in Workers : (lock[m] = v <=> Inside(v, m))'
    BY <2>2, <1>0, <1>a, <1>3 DEF VfsInv, Shape, Seek, Unlocked, CallInv
  <2>8. \A m \in Mounts : cursor'[m] \in Place \cup {None}
    BY <1>a, <1>3 DEF VfsInv, Shape, CallInv, Seek, Unlocked
  <2> QED BY <2>1, <2>5, <2>6, <2>7, <2>8 DEF VfsInv
<1>4. ASSUME NEW w \in Workers, ReadOk(w) PROVE VfsInv'
  <2>1. Shape'
    BY <1>4 DEF VfsInv, Shape, ReadOk, Unlocked
  <2>2. \A v \in Workers \ {w} : Untouched(v)
    BY <1>4 DEF VfsInv, Shape, ReadOk, Unlocked
  <2>5. CallInv(w)' /\ ProgressInv(w)'
    BY <1>4 DEF VfsInv, Shape, ReadOk, Unlocked, CallInv, ProgressInv
  <2>6. \A v \in Workers \ {w} : CallInv(v)' /\ ProgressInv(v)'
    BY <2>2, <1>4, <1>0, <1>a DEF VfsInv, CallInv, ProgressInv, ReadOk, Unlocked, Shape
  <2>7. \A m \in Mounts, v \in Workers : (lock[m] = v <=> Inside(v, m))'
    BY <2>2, <1>0, <1>a, <1>4 DEF VfsInv, Shape, ReadOk, Unlocked, CallInv
  <2>8. \A m \in Mounts : cursor'[m] \in Place \cup {None}
    BY <1>a, <1>4 DEF VfsInv, Shape, CallInv, ReadOk, Unlocked
  <2> QED BY <2>1, <2>5, <2>6, <2>7, <2>8 DEF VfsInv
<1>5. ASSUME NEW w \in Workers, ReaderFails(w) PROVE VfsInv'
  <2>1. Shape'
    BY <1>5, Zenon DEF VfsInv, Shape, ReaderFails, Unlocked
  <2>2. \A v \in Workers \ {w} : Untouched(v)
    BY <1>5 DEF VfsInv, Shape, ReaderFails, Unlocked
  <2>5. CallInv(w)' /\ ProgressInv(w)'
    <3>1. CallInv(w) /\ ProgressInv(w) /\ wpc[w] = "read"
      BY <1>5 DEF VfsInv, ReaderFails
    <3>2. /\ got'[w] = got[w] /\ plan'[w] = plan[w] /\ call'[w] = call[w]
          /\ wpc'[w] = "returned" /\ answer'[w] = "error"
      BY <1>5 DEF ReaderFails, Unlocked, VfsInv, Shape
    <3> QED BY <3>1, <3>2 DEF CallInv, ProgressInv
  <2>6. \A v \in Workers \ {w} : CallInv(v)' /\ ProgressInv(v)'
    <3>1. cursor' = cursor
      BY <1>5 DEF ReaderFails
    <3> QED BY <2>2, <3>1 DEF VfsInv, CallInv, ProgressInv
  <2>7. \A m \in Mounts, v \in Workers : (lock[m] = v <=> Inside(v, m))'
    BY <2>2, <1>0, <1>a, <1>5 DEF VfsInv, Shape, ReaderFails, Unlocked, CallInv
  <2>8. \A m \in Mounts : cursor'[m] \in Place \cup {None}
    BY <1>a, <1>5 DEF VfsInv, Shape, CallInv, ReaderFails, Unlocked
  <2> QED BY <2>1, <2>5, <2>6, <2>7, <2>8 DEF VfsInv
<1>6. ASSUME NEW w \in Workers, ReadPanics(w) PROVE VfsInv'
  <2>1. Shape'
    BY <1>6, Zenon DEF VfsInv, Shape, ReadPanics, Unlocked
  <2>2. \A v \in Workers \ {w} : Untouched(v)
    BY <1>6 DEF VfsInv, Shape, ReadPanics, Unlocked
  <2>5. CallInv(w)' /\ ProgressInv(w)'
    <3>1. CallInv(w) /\ ProgressInv(w) /\ wpc[w] = "read"
      BY <1>6 DEF VfsInv, ReadPanics
    <3>2. /\ got'[w] = got[w] /\ plan'[w] = plan[w] /\ call'[w] = call[w]
          /\ wpc'[w] = "returned" /\ answer'[w] = "panicked"
      BY <1>6 DEF ReadPanics, Unlocked, VfsInv, Shape
    <3> QED BY <3>1, <3>2 DEF CallInv, ProgressInv
  <2>6. \A v \in Workers \ {w} : CallInv(v)' /\ ProgressInv(v)'
    <3>1. cursor' = cursor
      BY <1>6 DEF ReadPanics
    <3> QED BY <2>2, <3>1 DEF VfsInv, CallInv, ProgressInv
  <2>7. \A m \in Mounts, v \in Workers : (lock[m] = v <=> Inside(v, m))'
    BY <2>2, <1>0, <1>a, <1>6 DEF VfsInv, Shape, ReadPanics, Unlocked, CallInv
  <2>8. \A m \in Mounts : cursor'[m] \in Place \cup {None}
    BY <1>a, <1>6 DEF VfsInv, Shape, CallInv, ReadPanics, Unlocked
  <2> QED BY <2>1, <2>5, <2>6, <2>7, <2>8 DEF VfsInv
<1>7. ASSUME NEW w \in Workers, ReturnCall(w) PROVE VfsInv'
  <2>1. Shape'
    BY <1>7, Zenon DEF VfsInv, Shape, ReturnCall, Unlocked
  <2>2. \A v \in Workers \ {w} : Untouched(v)
    BY <1>7 DEF VfsInv, Shape, ReturnCall, Unlocked
  <2>5. CallInv(w)' /\ ProgressInv(w)'
    <3>1. CallInv(w) /\ ProgressInv(w) /\ wpc[w] = "seek" /\ Len(got[w]) = Len(plan[w])
      BY <1>7 DEF VfsInv, ReturnCall
    <3>2. got[w] = plan[w]
      BY <3>1 DEF CallInv, ProgressInv
    <3>3. /\ got'[w] = got[w] /\ plan'[w] = plan[w] /\ call'[w] = call[w]
          /\ wpc'[w] = "returned"
      BY <1>7 DEF ReturnCall, Unlocked, VfsInv, Shape
    <3> QED BY <3>1, <3>2, <3>3 DEF CallInv, ProgressInv
  <2>6. \A v \in Workers \ {w} : CallInv(v)' /\ ProgressInv(v)'
    <3>1. cursor' = cursor
      BY <1>7 DEF ReturnCall
    <3> QED BY <2>2, <3>1 DEF VfsInv, CallInv, ProgressInv
  <2>7. \A m \in Mounts, v \in Workers : (lock[m] = v <=> Inside(v, m))'
    BY <2>2, <1>0, <1>a, <1>7 DEF VfsInv, Shape, ReturnCall, Unlocked, CallInv
  <2>8. \A m \in Mounts : cursor'[m] \in Place \cup {None}
    BY <1>a, <1>7 DEF VfsInv, Shape, CallInv, ReturnCall, Unlocked
  <2> QED BY <2>1, <2>5, <2>6, <2>7, <2>8 DEF VfsInv
<1>8. ASSUME NEW w \in Workers, Collect(w) PROVE VfsInv'
  <2>1. Shape'
    BY <1>8, Zenon DEF VfsInv, Shape, Collect, Unlocked
  <2>2. \A v \in Workers \ {w} : Untouched(v)
    BY <1>8 DEF VfsInv, Shape, Collect, Unlocked
  <2>5. CallInv(w)' /\ ProgressInv(w)'
    BY <1>8 DEF VfsInv, Shape, Collect, Unlocked, CallInv, ProgressInv
  <2>6. \A v \in Workers \ {w} : CallInv(v)' /\ ProgressInv(v)'
    <3>1. cursor' = cursor
      BY <1>8 DEF Collect
    <3> QED BY <2>2, <3>1 DEF VfsInv, CallInv, ProgressInv
  <2>7. \A m \in Mounts, v \in Workers : (lock[m] = v <=> Inside(v, m))'
    BY <2>2, <1>0, <1>a, <1>8 DEF VfsInv, Shape, Collect, Unlocked, CallInv
  <2>8. \A m \in Mounts : cursor'[m] \in Place \cup {None}
    BY <1>a, <1>8 DEF VfsInv, Shape, CallInv, Collect, Unlocked
  <2> QED BY <2>1, <2>5, <2>6, <2>7, <2>8 DEF VfsInv
<1>9. CASE UNCHANGED vfsvars
  BY <1>9 DEF vfsvars, VfsInv, Shape, CallInv, ProgressInv
<1> QED
  BY <1>1, <1>2, <1>3, <1>4, <1>5, <1>6, <1>7, <1>8, <1>9 DEF VfsNext, Step

\* The lock is held exactly by the worker inside a method of the mount, on every
\* way out of it, for any number of workers (ApfsFs's Mutex).
THEOREM LockDiscipline == VfsSpec => []LockHeldInside
<1>1. VfsInv => LockHeldInside
  BY DEF VfsInv, Inside, M, LockHeldInside
<1> QED
  BY <1>1, InitHolds, StepHolds, PTL DEF VfsSpec

\* A call that succeeds has read the places it sought, in its order, whatever the
\* other workers did with the shared reader in between.
THEOREM OwnReads == VfsSpec => []ReadsAreOwn
<1>1. VfsInv => ReadsAreOwn
  BY DEF VfsInv, ProgressInv, ReadsAreOwn
<1> QED
  BY <1>1, InitHolds, StepHolds, PTL DEF VfsSpec

\* A poisoned lock is free, and stays so.
PoisonedIsFree == \A m \in Mounts : poison[m] => lock[m] = None

\* A panic drops the guard as it poisons, and lock() takes no poisoned lock.
LEMMA PoisonStep == VfsInv /\ PoisonedIsFree /\ [VfsNext]_vfsvars => PoisonedIsFree'
<1> SUFFICES ASSUME VfsInv, PoisonedIsFree, [VfsNext]_vfsvars, NEW m \in Mounts, poison'[m]
             PROVE  lock'[m] = None
  BY DEF PoisonedIsFree
<1>1. DOMAIN lock = Mounts /\ DOMAIN poison = Mounts /\ (poison[m] => lock[m] = None)
  BY DEF VfsInv, Shape, PoisonedIsFree
<1>2. CASE UNCHANGED <<lock, poison>>
  BY <1>1, <1>2
<1>3. ASSUME NEW w \in Workers, Lock(w) PROVE lock'[m] = None
  BY <1>1, <1>3 DEF Lock
<1>4. ASSUME NEW w \in Workers, ReaderFails(w) \/ ReturnCall(w) PROVE lock'[m] = None
  BY <1>1, <1>4 DEF ReaderFails, ReturnCall, Unlocked
<1>5. ASSUME NEW w \in Workers, ReadPanics(w) PROVE lock'[m] = None
  BY <1>1, <1>5 DEF ReadPanics, Unlocked
<1> QED
  BY <1>2, <1>3, <1>4, <1>5, Zenon DEF VfsNext, Step, Begin, Seek, ReadOk, Collect, vfsvars

\* A reader that panicked is never used again: no step of any worker adds to what a
\* call on its mount has read (poisoned()).
THEOREM PoisonedStaysUnused == VfsSpec => PoisonIsFinal
<1>1. VfsInit => PoisonedIsFree
  BY DEF VfsInit, PoisonedIsFree
<1>2. VfsInv /\ PoisonedIsFree /\ [VfsNext]_vfsvars
        => [\A w \in Workers : call[w] # None /\ poison[M(w)] => got'[w] = got[w] \/ got'[w] = << >>]_vfsvars
  <2> SUFFICES ASSUME VfsInv, PoisonedIsFree, VfsNext, NEW w \in Workers, call[w] # None, poison[M(w)]
               PROVE  got'[w] = got[w] \/ got'[w] = << >>
    BY ZenonT(30)
  <2>1. DOMAIN got = Workers /\ w # None /\ (wpc[w] # "idle" => call[w].mount \in Mounts)
    BY VfsAssumption DEF VfsInv, Shape, CallInv, Call
  <2>2. PICK v \in Workers : Step(v)
    BY DEF VfsNext
  <2>3. CASE ReadOk(v)
    <3>1. CASE v = w
      <4>1. wpc[w] = "read" /\ M(w) \in Mounts
        BY <2>1, <2>3, <3>1 DEF ReadOk, M
      <4>2. lock[M(w)] = w
        BY <4>1 DEF VfsInv, Inside, M
      <4> QED
        BY <2>1, <4>1, <4>2 DEF PoisonedIsFree
    <3>2. CASE v # w
      BY <2>1, <2>3, <3>2 DEF ReadOk
    <3> QED
      BY <3>1, <3>2
  <2>4. CASE Collect(v)
    BY <2>1, <2>4 DEF Collect
  <2> QED
    BY <2>2, <2>3, <2>4, Zenon DEF Step, Begin, Lock, Seek, ReaderFails, ReadPanics, ReturnCall
<1> QED
  BY <1>1, <1>2, InitHolds, StepHolds, PoisonStep, PTL DEF VfsSpec, PoisonIsFinal

----------------------------------------------------------------------------
\* The object map.

Key == [oid : Nat, xid : Nat]

Root(m) == m.content[m.header.tree_oid]

\* Block p's subtree is the only part of the tree left to look at for t.
Narrowed(m, p, t) ==
  /\ p \in m.paddrs
  /\ m.content[p] \subseteq Root(m)
  /\ \A e \in Root(m) : ~KeyLess(t, e) /\ e \notin m.content[p] =>
       \A f \in m.content[p] : KeyLess(e, f)

\* It holds an entry not above t, if the tree does.
HoldsFloor(m, p, t) ==
  (\E e \in Root(m) : ~KeyLess(t, e)) => \E e \in m.content[p] : ~KeyLess(t, e)

DescentInv ==
  pc = "descend" =>
    /\ Len(addrs) < Len(img.fs_oids)
    /\ Ordered(img) =>
         /\ Narrowed(img, paddr, Target)
         /\ Tight(img) => HoldsFloor(img, paddr, Target)
         /\ depth + img.tree[paddr].level < MaxBtreeDepth
         /\ \A v \in visited : v \in img.paddrs /\ img.tree[v].level > img.tree[paddr].level

\* The number of answers never passes that of the questions.
CountInv ==
  /\ pc = "start" => addrs = << >>
  /\ pc = "next" => Len(addrs) <= Len(img.fs_oids)

IInv == TypeOK /\ CountInv /\ DescentInv /\ ResolvesNewest /\ RefusesOnlyAbsent /\ NeverFabricated

\* What the parts of an image are.
LEMMA ImageTypes ==
  ASSUME NEW m, IsImage(m), NEW p \in m.paddrs
  PROVE  /\ m.tree[p] \in Node
         /\ m.tree[p].level \in Nat
         /\ m.tree[p].entries \in Seq(Entry)
         /\ Len(m.tree[p].entries) \in Nat
         /\ DOMAIN m.tree[p].entries = 1 .. Len(m.tree[p].entries)
         /\ \A k \in DOMAIN m.tree[p].entries : m.tree[p].entries[k] \in Entry
         /\ \A e \in m.content[p] : e \in Entry
<1>1. m.tree[p] \in Node
  BY DEF IsImage
<1>2. m.tree[p].entries \in Seq(Entry) /\ m.tree[p].level \in Nat
  BY <1>1 DEF Node
<1>3. Len(m.tree[p].entries) \in Nat /\ DOMAIN m.tree[p].entries = 1 .. Len(m.tree[p].entries)
  BY <1>2, LenProperties
<1>4. \A k \in DOMAIN m.tree[p].entries : m.tree[p].entries[k] \in Entry
  BY <1>2, <1>3, ElementOfSeq
<1>5. \A e \in m.content[p] : e \in Entry
  BY DEF IsImage
<1> QED
  BY <1>1, <1>2, <1>3, <1>4, <1>5

IsKey(a) == a.oid \in Nat /\ a.xid \in Nat

\* Entries of a node have the fields of a key, which find_leaf compares.
LEMMA EntriesAreKeys ==
  /\ \A e \in Entry : IsKey(e)
  /\ \A t \in Key : IsKey(t)
  BY DEF IsKey, Entry, Key

\* The order of keys is total and transitive.
LEMMA KeyOrder ==
  ASSUME NEW a, NEW b, NEW c, IsKey(a), IsKey(b), IsKey(c)
  PROVE  /\ KeyLess(a, b) /\ KeyLess(b, c) => KeyLess(a, c)
         /\ KeyLess(a, b) /\ ~KeyLess(c, b) => KeyLess(a, c)
         /\ ~KeyLess(b, a) /\ KeyLess(b, c) => KeyLess(a, c)
         /\ ~KeyLess(a, a)
  BY SMTT(60) DEF KeyLess, IsKey

\* The child find_leaf follows narrows the search below one node: what the
\* node holds elsewhere is above the target or below all that the child holds.
LEMMA FollowedChild ==
  ASSUME NEW m, IsImage(m), NEW p \in m.paddrs, OrderedNode(m, p), m.tree[p].level > 0,
         NEW t \in Key, NEW k \in DOMAIN m.tree[p].entries, Follows(m.tree[p].entries, k, t)
  PROVE  LET c == m.tree[p].entries[k].ptr
         IN  /\ c \in m.paddrs
             /\ m.tree[c].level = m.tree[p].level - 1
             /\ m.content[c] \subseteq m.content[p]
             /\ \A e \in m.content[p] : ~KeyLess(t, e) /\ e \notin m.content[c] =>
                  \A f \in m.content[c] : KeyLess(e, f)
<1> DEFINE s == m.tree[p].entries
           C(j) == m.content[s[j].ptr]
           c == s[k].ptr
<1>1. Len(s) \in Nat /\ DOMAIN s = 1 .. Len(s) /\ (\A j \in DOMAIN s : s[j] \in Entry)
  BY ImageTypes, Zenon
<1>2. \A e \in m.content[p] : e \in Entry
  BY ImageTypes, Zenon
<1>3. /\ \A a, b \in DOMAIN s : a < b => KeyLess(s[a], s[b])
      /\ m.content[p] = UNION {C(j) : j \in DOMAIN s}
      /\ \A j \in DOMAIN s : s[j].ptr \in m.paddrs /\ m.tree[s[j].ptr].level = m.tree[p].level - 1
      /\ \A j \in DOMAIN s : \A e \in C(j) : ~KeyLess(e, s[j]) /\ (j < Len(s) => KeyLess(e, s[j + 1]))
  BY ZenonT(60) DEF OrderedNode
<1>4. k \in DOMAIN s /\ Follows(s, k, t) /\ m.content[c] = C(k)
  OBVIOUS
<1>5. c \in m.paddrs /\ m.tree[c].level = m.tree[p].level - 1
  BY <1>3, <1>4, Zenon
<1> SUFFICES /\ c \in m.paddrs
             /\ m.tree[c].level = m.tree[p].level - 1
             /\ m.content[c] \subseteq m.content[p]
             /\ \A e \in m.content[p] : ~KeyLess(t, e) /\ e \notin m.content[c] =>
                  \A f \in m.content[c] : KeyLess(e, f)
  BY Zenon
<1> HIDE DEF s, C, c
<1>6. C(k) \subseteq m.content[p]
  BY <1>3, <1>4, Zenon
<1>7. ASSUME NEW e \in m.content[p], ~KeyLess(t, e), e \notin C(k), NEW f \in C(k)
      PROVE  KeyLess(e, f)
  <2>0. m.content[p] = UNION {C(j) : j \in DOMAIN s}
    BY <1>3
  <2>1. PICK j \in DOMAIN s : e \in C(j)
    BY ONLY <2>0, e \in m.content[p]
  <2>2. j # k
    BY <2>1, <1>7, Zenon
  <2>3. /\ IsKey(e) /\ IsKey(f) /\ IsKey(s[j]) /\ IsKey(s[k]) /\ IsKey(t)
        /\ \A i \in DOMAIN s : IsKey(s[i])
    BY <1>1, <1>2, <1>4, <1>6, <1>7, EntriesAreKeys, Zenon
  <2>4. ~KeyLess(e, s[j]) /\ (j < Len(s) => KeyLess(e, s[j + 1])) /\ ~KeyLess(f, s[k])
    BY <1>3, <1>4, <1>7, <2>1, Zenon
  <2>5. CASE j < k
    <3>1. j + 1 \in DOMAIN s /\ j < Len(s) /\ (j + 1 = k \/ j + 1 < k)
      BY ONLY <1>1, <1>4, <2>5, j \in DOMAIN s
    <3>2. j + 1 = k \/ KeyLess(s[j + 1], s[k])
      BY <1>3, <1>4, <3>1, Zenon
    <3>3. KeyLess(e, s[k])
      BY <3>1, <3>2, <2>3, <2>4, KeyOrder, Zenon
    <3> QED
      BY <3>3, <2>3, <2>4, KeyOrder, Zenon
  <2>6. CASE k < j
    <3>1. k + 1 \in DOMAIN s /\ k < Len(s) /\ (k + 1 = j \/ k + 1 < j)
      BY ONLY <1>1, <1>4, <2>6, j \in DOMAIN s
    <3>2. k + 1 = j \/ KeyLess(s[k + 1], s[j])
      BY <1>3, <3>1, Zenon
    <3>3. KeyLess(t, s[k + 1])
      <4>1. CASE k = 1 /\ KeyLess(t, s[1])
        <5>1. 1 \in DOMAIN s /\ 2 \in DOMAIN s /\ 1 < 2 /\ k + 1 = 2
          BY ONLY <4>1, <3>1, <1>4
        <5>2. KeyLess(s[1], s[2])
          BY <5>1, <1>3, Zenon
        <5> QED
          BY <4>1, <5>1, <5>2, <2>3, KeyOrder, Zenon
      <4>2. CASE k < Len(s) => KeyLess(t, s[k + 1])
        BY <4>2, <3>1, Zenon
      <4> QED
        BY <1>4, <4>1, <4>2, Zenon DEF Follows
    <3>4. KeyLess(t, s[j])
      BY <3>1, <3>2, <3>3, <2>3, KeyOrder, Zenon
    <3>5. KeyLess(t, e)
      BY <3>4, <2>3, <2>4, KeyOrder, Zenon
    <3> QED
      BY <3>5, <1>7, Zenon
  <2>7. j < k \/ k < j
    BY ONLY <1>1, <1>4, <2>2, j \in DOMAIN s
  <2> QED
    BY <2>5, <2>6, <2>7
<1> QED
  BY <1>4, <1>5, <1>6, <1>7, Zenon

\* In a tree with tight separators the followed child holds an entry not above
\* the target if the node does.
LEMMA FollowedChildHolds ==
  ASSUME NEW m, IsImage(m), Tight(m), NEW p \in m.paddrs, OrderedNode(m, p), m.tree[p].level > 0,
         NEW t \in Key, NEW k \in DOMAIN m.tree[p].entries, Follows(m.tree[p].entries, k, t),
         NEW g \in m.content[p], ~KeyLess(t, g)
  PROVE  \E e \in m.content[m.tree[p].entries[k].ptr] : ~KeyLess(t, e)
<1> DEFINE s == m.tree[p].entries
           C(j) == m.content[s[j].ptr]
<1>1. Len(s) \in Nat /\ DOMAIN s = 1 .. Len(s) /\ (\A j \in DOMAIN s : s[j] \in Entry) /\ g \in Entry
  BY ImageTypes, Zenon
<1>2. /\ \A a, b \in DOMAIN s : a < b => KeyLess(s[a], s[b])
      /\ m.content[p] = UNION {C(j) : j \in DOMAIN s}
      /\ \A j \in DOMAIN s : \A e \in C(j) : ~KeyLess(e, s[j])
  BY ZenonT(60) DEF OrderedNode
<1>3. k \in DOMAIN s /\ Follows(s, k, t)
  OBVIOUS
<1>4. \E e \in C(k) : e.oid = s[k].oid /\ e.xid = s[k].xid
  BY Zenon DEF Tight
<1> SUFFICES \E e \in C(k) : ~KeyLess(t, e)
  BY Zenon
<1> HIDE DEF s, C
<1>5. CASE k = 1 /\ KeyLess(t, s[1])
  <2>1. PICK j \in DOMAIN s : g \in C(j)
    <3>1. m.content[p] = UNION {C(j) : j \in DOMAIN s}
      BY <1>2
    <3> QED
      BY ONLY <3>1, g \in m.content[p]
  <2>2. ~KeyLess(g, s[j])
    BY <1>2, <2>1, Zenon
  <2>3. 1 \in DOMAIN s /\ (j = 1 \/ 1 < j)
    BY ONLY <1>1, <1>3, <1>5, j \in DOMAIN s
  <2>4. j = 1 \/ KeyLess(s[1], s[j])
    BY <1>2, <2>3, Zenon
  <2>5. IsKey(s[1]) /\ IsKey(s[j]) /\ IsKey(g) /\ IsKey(t)
    BY <1>1, <2>3, EntriesAreKeys, Zenon
  <2>6. KeyLess(t, s[j])
    BY <2>4, <2>5, <1>5, KeyOrder, Zenon
  <2>7. KeyLess(t, g)
    BY <2>2, <2>5, <2>6, KeyOrder, Zenon
  <2> QED
    BY <2>7, Zenon
<1>6. CASE \A j \in 1 .. k : ~KeyLess(t, s[j])
  <2>1. ~KeyLess(t, s[k])
    <3>1. k \in 1 .. k
      BY ONLY <1>1, <1>3
    <3> QED
      BY <1>6, <3>1, Zenon
  <2> QED
    BY <2>1, <1>4, Zenon DEF KeyLess
<1> QED
  BY <1>3, <1>5, <1>6, Zenon DEF Follows

\* The entry resolve keeps of the landing leaf is the newest state in the tree.
LEMMA LandsOnFloor ==
  ASSUME NEW m, IsImage(m), Ordered(m), NEW t \in Key, NEW p, Narrowed(m, p, t), m.tree[p].level = 0,
         NEW k, Keeps(m.tree[p].entries, k, t)
  PROVE  m.tree[p].entries[k] \in Newest(Root(m), t)
<1> DEFINE s == m.tree[p].entries
<1>1. p \in m.paddrs /\ m.content[p] \subseteq Root(m) /\ m.header.tree_oid \in m.paddrs
  BY SMTT(60) DEF Narrowed, Ordered
<1>2. m.content[p] = {s[j] : j \in DOMAIN s}
  BY <1>1, Zenon DEF Ordered, OrderedNode
<1>3. k \in DOMAIN s /\ s[k].oid = t.oid /\ s[k].xid <= t.xid
  BY Zenon DEF Keeps, Matches
<1>4. s[k] \in m.content[p] /\ s[k] \in Entry /\ \A f \in Root(m) : f \in Entry
  BY <1>1, <1>2, <1>3, ImageTypes, Zenon DEF Root
<1>5. ASSUME NEW f \in Root(m), f.oid = t.oid, f.xid <= t.xid
      PROVE  f.xid <= s[k].xid
  <2>1. f.xid \in Nat /\ s[k].xid \in Nat /\ t.xid \in Nat /\ t.oid \in Nat
    BY <1>4 DEF Entry, Key
  <2>2. CASE f \in m.content[p]
    <3>1. PICK j \in DOMAIN s : f = s[j]
      BY <1>2, <2>2
    <3>2. j \in Matches(s, t)
      BY <3>1, <1>5 DEF Matches
    <3>3. s[j].xid < s[k].xid \/ s[j].xid = s[k].xid
      BY <3>2, Zenon DEF Keeps
    <3> QED
      BY ONLY <3>1, <3>3, <2>1
  <2>3. CASE f \notin m.content[p]
    <3>1. ~KeyLess(t, f)
      BY <1>5, <2>1 DEF KeyLess
    <3>2. KeyLess(f, s[k])
      BY <2>3, <3>1, <1>4 DEF Narrowed
    <3> QED
      BY <3>2, <2>1, <1>3, <1>5 DEF KeyLess
  <2> QED
    BY <2>2, <2>3
<1> QED
  BY <1>1, <1>3, <1>4, <1>5, Zenon DEF Newest, States

\* A landing leaf without a match means that the tree has none.
LEMMA MissMeansAbsent ==
  ASSUME NEW m, IsImage(m), Ordered(m), NEW t \in Key, NEW p, Narrowed(m, p, t), HoldsFloor(m, p, t),
         m.tree[p].level = 0, Matches(m.tree[p].entries, t) = {}
  PROVE  States(Root(m), t) = {}
<1> DEFINE s == m.tree[p].entries
<1>1. p \in m.paddrs /\ m.header.tree_oid \in m.paddrs
  BY SMTT(60) DEF Narrowed, Ordered
<1>2. m.content[p] = {s[j] : j \in DOMAIN s}
  BY <1>1, Zenon DEF Ordered, OrderedNode
<1>3. (\A e \in m.content[p] : e \in Entry) /\ \A f \in Root(m) : f \in Entry
  BY <1>1, ImageTypes DEF Root
<1>4. \A e \in m.content[p] : ~(e.oid = t.oid /\ e.xid <= t.xid)
  BY <1>2 DEF Matches
<1>5. ASSUME NEW f \in Root(m), f.oid = t.oid, f.xid <= t.xid
      PROVE  FALSE
  <2>1. ~KeyLess(t, f) /\ f \notin m.content[p]
    BY <1>3, <1>4, <1>5 DEF KeyLess, Entry, Key
  <2>2. PICK e \in m.content[p] : ~KeyLess(t, e)
    BY <2>1 DEF HoldsFloor
  <2>3. KeyLess(f, e)
    BY <2>1, <2>2 DEF Narrowed
  <2>4. e \in Entry /\ f \in Entry
    BY <1>3
  <2>5. e.oid = t.oid /\ e.xid <= t.xid
    BY <2>2, <2>3, <2>4, <1>5 DEF KeyLess, Entry, Key
  <2> QED
    BY <2>5, <1>4
<1> QED
  BY <1>5 DEF States

\* The inductive invariant holds in the initial states.
LEMMA InitIInv == Init => IInv
<1> SUFFICES ASSUME Init PROVE IInv
  OBVIOUS
<1>1. TypeOK
  BY OmapAssumption DEF Init, TypeOK
<1>2. addrs = << >> /\ DOMAIN addrs = {}
  BY DEF Init
<1>3. CountInv /\ DescentInv /\ RefusesOnlyAbsent
  BY DEF Init, CountInv, DescentInv, RefusesOnlyAbsent
<1>4. ResolvesNewest /\ NeverFabricated
  BY <1>2 DEF ResolvesNewest, NeverFabricated
<1> QED
  BY <1>1, <1>3, <1>4 DEF IInv

\* The parts of the invariant that speak of the answers survive a step that
\* adds none.
LEMMA AnswersKept ==
  ASSUME IInv, UNCHANGED <<img, addrs>>
  PROVE  ResolvesNewest' /\ NeverFabricated' /\ Target' = Target /\ Stored' = Stored
<1>1. Stored' = Stored /\ Target' = Target
  BY DEF Stored, Target
<1>2. ResolvesNewest'
  BY <1>1 DEF IInv, ResolvesNewest
<1>3. NeverFabricated'
  BY DEF IInv, NeverFabricated
<1> QED
  BY <1>1, <1>2, <1>3

Errors == {"None", "FieldOutOfRange", "Io", "UnexpectedObjectType", "ChecksumMismatch",
           "CycleGuard", "OmapUnresolved"}

\* A refusal keeps the invariant when it has one of the two reasons a
\* well-formed tree allows.
LEMMA FailKeepsIInv ==
  ASSUME IInv, NEW kind \in Errors, Fail(kind),
         WellFormed(img) => kind = "Io" \/ (kind = "OmapUnresolved" /\ States(Stored, Target) = {})
  PROVE  IInv'
<1>1. TypeOK'
  BY DEF IInv, TypeOK, Fail, Errors
<1>2. ResolvesNewest' /\ NeverFabricated' /\ Target' = Target /\ Stored' = Stored
  BY AnswersKept DEF Fail
<1>3. CountInv' /\ DescentInv'
  BY DEF Fail, CountInv, DescentInv
<1>4. RefusesOnlyAbsent'
  BY <1>2 DEF Fail, RefusesOnlyAbsent
<1> QED
  BY <1>1, <1>2, <1>3, <1>4 DEF IInv

\* A key to look for is a pair of numbers.
LEMMA TargetType ==
  ASSUME IInv, pc = "descend"
  PROVE  Target \in Key
<1>1. img.fs_oids \in Seq(Nat) /\ img.xid \in Nat /\ addrs \in Seq(Nat) /\ Len(addrs) < Len(img.fs_oids)
  BY DEF IInv, TypeOK, IsImage, DescentInv
<1>2. Len(addrs) + 1 \in 1 .. Len(img.fs_oids)
  BY <1>1, LenProperties
<1>3. img.fs_oids[Len(addrs) + 1] \in Nat
  BY <1>1, <1>2, ElementOfSeq
<1> QED
  BY <1>1, <1>3 DEF Target, Key

\* Beginning a descent at the root.
LEMMA NextOidKeepsIInv ==
  ASSUME IInv, NextOid
  PROVE  IInv'
<1>1. UNCHANGED <<img, addrs, error>>
  BY DEF NextOid
<1>2. ResolvesNewest' /\ NeverFabricated' /\ Target' = Target /\ Stored' = Stored
  BY <1>1, AnswersKept
<1>3. /\ IsImage(img) /\ img.header.tree_oid \in Nat
      /\ paddr' \in Nat /\ depth' \in 0 .. MaxBtreeDepth /\ visited' \subseteq Nat
  <2>1. IsImage(img)
    BY DEF IInv, TypeOK
  <2>2. img.header.tree_oid \in Nat
    BY <2>1 DEF IsImage, Header
  <2>3. TypeOK /\ 0 \in 0 .. MaxBtreeDepth
    BY OmapAssumption DEF IInv
  <2> QED
    BY <2>1, <2>2, <2>3, ZenonT(60) DEF TypeOK, NextOid
<1>4. TypeOK'
  BY <1>1, <1>3 DEF IInv, TypeOK, NextOid
<1>5. CountInv' /\ RefusesOnlyAbsent'
  BY <1>1 DEF NextOid, CountInv, RefusesOnlyAbsent
<1>6. DescentInv'
  <2> SUFFICES ASSUME pc' = "descend"
               PROVE  /\ Len(addrs') < Len(img'.fs_oids)
                      /\ Ordered(img') =>
                           /\ Narrowed(img', paddr', Target')
                           /\ Tight(img') => HoldsFloor(img', paddr', Target')
                           /\ depth' + img'.tree[paddr'].level < MaxBtreeDepth
                           /\ \A v \in visited' : v \in img'.paddrs /\ img'.tree[v].level > img'.tree[paddr'].level
    BY DEF DescentInv
  <2>1. paddr' = img.header.tree_oid /\ depth' = 0 /\ visited' = {} /\ Len(addrs) < Len(img.fs_oids)
    BY DEF NextOid
  <2>2. ASSUME Ordered(img)
        PROVE  /\ Narrowed(img, img.header.tree_oid, Target)
               /\ HoldsFloor(img, img.header.tree_oid, Target)
               /\ 0 + img.tree[img.header.tree_oid].level < MaxBtreeDepth
    <3>1. img.header.tree_oid \in img.paddrs /\ OrderedNode(img, img.header.tree_oid)
      BY <2>2 DEF Ordered
    <3>2. img.tree[img.header.tree_oid].level \in Nat /\ img.tree[img.header.tree_oid].level < MaxBtreeDepth
      BY <3>1, <1>3, ImageTypes, ZenonT(60) DEF OrderedNode
    <3> QED
      BY <3>1, <3>2 DEF Narrowed, HoldsFloor, Root
  <2> QED
    BY <1>1, <1>2, <2>1, <2>2
<1> QED
  BY <1>2, <1>4, <1>5, <1>6 DEF IInv

\* One level down.
LEMMA DescendKeepsIInv ==
  ASSUME IInv, Descend
  PROVE  IInv'
<1>1. UNCHANGED <<img, addrs, error, pc>> /\ pc = "descend"
  BY DEF Descend, Verified, Readable, Fresh, InLoop
<1>2. ResolvesNewest' /\ NeverFabricated' /\ Target' = Target /\ Stored' = Stored
  BY <1>1, AnswersKept
<1>3. /\ IsImage(img) /\ paddr \in img.paddrs /\ paddr \in Nat /\ depth \in Nat /\ depth < MaxBtreeDepth
      /\ MaxBtreeDepth \in Nat
  BY OmapAssumption DEF IInv, TypeOK, Descend, Verified, Readable, Fresh, InLoop
<1> DEFINE s == img.tree[paddr].entries
<1>4. PICK k \in DOMAIN s : Follows(s, k, Target) /\ paddr' = s[k].ptr
  BY DEF Descend
<1>5. s[k] \in Entry /\ paddr' \in Nat /\ img.tree[paddr].level \in Nat
  BY <1>3, <1>4, ImageTypes DEF Entry
<1>6. depth' = depth + 1 /\ visited' = visited \cup {paddr} /\ ~is_leaf(img.tree[paddr])
  BY DEF Descend
<1>7. TypeOK'
  BY <1>1, <1>3, <1>5, <1>6 DEF IInv, TypeOK
<1>8. CountInv' /\ RefusesOnlyAbsent'
  BY <1>1 DEF CountInv, RefusesOnlyAbsent
<1>9. DescentInv'
  <2>1. Len(addrs') < Len(img'.fs_oids)
    BY <1>1 DEF IInv, DescentInv
  <2>2. ASSUME Ordered(img)
        PROVE  /\ Narrowed(img, paddr', Target)
               /\ Tight(img) => HoldsFloor(img, paddr', Target)
               /\ depth' + img.tree[paddr'].level < MaxBtreeDepth
               /\ \A v \in visited' : v \in img.paddrs /\ img.tree[v].level > img.tree[paddr'].level
    <3>1. Target \in Key
      BY <1>1, TargetType
    <3>2. /\ Narrowed(img, paddr, Target)
          /\ Tight(img) => HoldsFloor(img, paddr, Target)
          /\ depth + img.tree[paddr].level < MaxBtreeDepth
          /\ \A v \in visited : v \in img.paddrs /\ img.tree[v].level > img.tree[paddr].level
      BY <1>1, <2>2 DEF IInv, DescentInv
    <3>3. OrderedNode(img, paddr) /\ img.tree[paddr].level > 0
      BY <1>3, <1>5, <1>6, <2>2, SMTT(60) DEF Ordered, is_leaf
    <3>4. /\ paddr' \in img.paddrs
          /\ img.tree[paddr'].level = img.tree[paddr].level - 1
          /\ img.content[paddr'] \subseteq img.content[paddr]
          /\ \A e \in img.content[paddr] : ~KeyLess(Target, e) /\ e \notin img.content[paddr'] =>
               \A f \in img.content[paddr'] : KeyLess(e, f)
      <4>1. Target \in Key /\ Follows(s, k, Target) /\ k \in DOMAIN s /\ paddr' = s[k].ptr
        BY <1>4, <3>1, Zenon
      <4>2. /\ s[k].ptr \in img.paddrs
            /\ img.tree[s[k].ptr].level = img.tree[paddr].level - 1
            /\ img.content[s[k].ptr] \subseteq img.content[paddr]
            /\ \A e \in img.content[paddr] : ~KeyLess(Target, e) /\ e \notin img.content[s[k].ptr] =>
                 \A f \in img.content[s[k].ptr] : KeyLess(e, f)
        BY <1>3, <3>3, <4>1, FollowedChild, ZenonT(30)
      <4> QED
        BY <4>1, <4>2, Zenon
    <3>5. Narrowed(img, paddr', Target)
      <4>1. ASSUME NEW e \in Root(img), ~KeyLess(Target, e), e \notin img.content[paddr'], NEW f \in img.content[paddr']
            PROVE  KeyLess(e, f)
        <5>1. CASE e \in img.content[paddr]
          BY <4>1, <5>1, <3>4
        <5>2. CASE e \notin img.content[paddr]
          BY <4>1, <5>2, <3>2, <3>4, SMTT(60) DEF Narrowed
        <5> QED
          BY <5>1, <5>2
      <4> QED
        BY <4>1, <3>2, <3>4 DEF Narrowed
    <3>6. ASSUME Tight(img), NEW g \in Root(img), ~KeyLess(Target, g)
          PROVE  \E e \in img.content[paddr'] : ~KeyLess(Target, e)
      <4>1. PICK h \in img.content[paddr] : ~KeyLess(Target, h)
        BY <3>2, <3>6 DEF HoldsFloor
      <4> QED
        BY <1>3, <1>4, <3>1, <3>3, <3>6, <4>1, FollowedChildHolds, Zenon
    <3>7. depth' + img.tree[paddr'].level < MaxBtreeDepth
      BY <1>3, <1>5, <1>6, <3>2, <3>4
    <3>8. img.tree[paddr'].level \in Nat
      BY <3>4, <1>3, ImageTypes
    <3>9. ASSUME NEW v \in visited'
          PROVE  v \in img.paddrs /\ img.tree[v].level > img.tree[paddr'].level
      <4>1. CASE v = paddr
        BY <4>1, <1>3, <1>5, <3>4, <3>8
      <4>2. CASE v \in visited
        <5>1. v \in img.paddrs /\ img.tree[v].level > img.tree[paddr].level /\ img.tree[v].level \in Nat
          BY <4>2, <3>2, <1>3, ImageTypes
        <5> QED
          BY <5>1, <1>5, <3>4, <3>8
      <4> QED
        BY <4>1, <4>2, <1>6
    <3> QED
      BY <3>5, <3>6, <3>7, <3>9 DEF HoldsFloor
  <2> QED
    BY <1>1, <1>2, <2>1, <2>2 DEF DescentInv
<1> QED
  BY <1>2, <1>7, <1>8, <1>9 DEF IInv

\* An answer from the landing leaf.
LEMMA LandKeepsIInv ==
  ASSUME IInv, Verified, is_leaf(img.tree[paddr]),
         NEW k \in DOMAIN img.tree[paddr].entries, Keeps(img.tree[paddr].entries, k, Target),
         addrs' = Append(addrs, img.tree[paddr].entries[k].ptr),
         pc' = "next", UNCHANGED <<img, paddr, depth, visited, error>>
  PROVE  IInv'
<1> DEFINE s == img.tree[paddr].entries
<1>1. /\ pc = "descend" /\ IsImage(img) /\ paddr \in img.paddrs /\ img.tree[paddr].cksum
      /\ addrs \in Seq(Nat) /\ Len(addrs) < Len(img.fs_oids) /\ img.fs_oids \in Seq(Nat)
  BY Zenon DEF Verified, Readable, Fresh, InLoop, IInv, TypeOK, DescentInv, IsImage
<1>2. s[k] \in Entry /\ s[k].ptr \in Nat
  BY <1>1, ImageTypes, Zenon DEF Entry
<1>3. /\ addrs' \in Seq(Nat) /\ Len(addrs') = Len(addrs) + 1
      /\ \A j \in 1 .. Len(addrs) : addrs'[j] = addrs[j]
      /\ addrs'[Len(addrs) + 1] = s[k].ptr
      /\ Len(addrs) \in Nat /\ Len(img.fs_oids) \in Nat
      /\ DOMAIN addrs = 1 .. Len(addrs) /\ DOMAIN addrs' = 1 .. Len(addrs) + 1
  <2>1. img.fs_oids \in Seq(Nat) /\ addrs \in Seq(Nat) /\ s[k].ptr \in Nat /\ addrs' = Append(addrs, s[k].ptr)
    BY <1>1, <1>2, Zenon
  <2> HIDE DEF s
  <2> QED
    BY ONLY <2>1, AppendProperties, LenProperties
<1>4. TypeOK'
  BY <1>3, Zenon DEF IInv, TypeOK
<1>5. CountInv' /\ DescentInv' /\ RefusesOnlyAbsent'
  <2>1. pc' = "next" /\ Len(addrs') <= Len(img'.fs_oids)
    <3>1. pc' = "next" /\ img' = img
      OBVIOUS
    <3>2. Len(addrs') <= Len(img.fs_oids)
      BY ONLY <1>1, <1>3
    <3> QED
      BY <3>1, <3>2
  <2> QED
    BY ONLY <2>1 DEF CountInv, DescentInv, RefusesOnlyAbsent
<1>6. s[k].oid = Target.oid /\ s[k].xid <= Target.xid
  BY Zenon DEF Keeps, Matches
<1>7. Target.oid = img.fs_oids[Len(addrs) + 1] /\ Target.xid = img.xid
  BY SMTT(60) DEF Target
<1>8. NeverFabricated'
  <2> DEFINE Backed(m, x, j) ==
               \E p \in m.paddrs :
                 /\ m.tree[p].cksum /\ is_leaf(m.tree[p])
                 /\ \E h \in DOMAIN m.tree[p].entries :
                      LET e == m.tree[p].entries[h]
                      IN  e.oid = m.fs_oids[j] /\ e.xid <= m.xid /\ e.ptr = x
  <2>1. \A j \in DOMAIN addrs : Backed(img, addrs[j], j)
    BY Zenon DEF IInv, NeverFabricated
  <2>2. Backed(img, addrs'[Len(addrs) + 1], Len(addrs) + 1)
    BY <1>1, <1>3, <1>6, <1>7, ZenonT(60)
  <2>4. (\A j \in DOMAIN addrs' : Backed(img', addrs'[j], j)) => NeverFabricated'
    BY Zenon DEF NeverFabricated
  <2> HIDE DEF Backed
  <2>3. \A j \in 1 .. Len(addrs) : Backed(img, addrs'[j], j)
    BY <2>1, <1>3, Zenon
  <2>5. \A j \in 1 .. Len(addrs) + 1 : j \in 1 .. Len(addrs) \/ j = Len(addrs) + 1
    BY ONLY <1>3
  <2>6. \A j \in DOMAIN addrs' : Backed(img, addrs'[j], j)
    BY <2>2, <2>3, <2>5, <1>3, Zenon
  <2>7. img' = img
    OBVIOUS
  <2> QED
    BY <2>4, <2>6, <2>7, Zenon
<1>9. ResolvesNewest'
  <2>1. ASSUME Ordered(img), NEW j \in 1 .. Len(addrs) + 1
        PROVE  \E e \in Newest(Stored, [oid |-> img.fs_oids[j], xid |-> img.xid]) : addrs'[j] = e.ptr
    <3>1. CASE j \in 1 .. Len(addrs)
      BY <3>1, <2>1, <1>3, ZenonT(60) DEF IInv, ResolvesNewest
    <3>2. CASE j = Len(addrs) + 1
      <4>1. Target \in Key /\ Narrowed(img, paddr, Target)
        BY <1>1, <2>1, TargetType, Zenon DEF IInv, DescentInv
      <4>2. img.tree[paddr].level = 0
        BY <1>1, <2>1, ZenonT(60) DEF Ordered, OrderedNode, is_leaf
      <4>3. s[k] \in Newest(Root(img), Target)
        BY <1>1, <2>1, <4>1, <4>2, LandsOnFloor, Zenon
      <4>4. Target = [oid |-> img.fs_oids[j], xid |-> img.xid] /\ Root(img) = Stored
        BY <3>2 DEF Target, Root, Stored
      <4> QED
        BY <3>2, <4>3, <4>4, <1>3, Zenon
    <3>3. j \in 1 .. Len(addrs) \/ j = Len(addrs) + 1
      BY ONLY <1>3, j \in 1 .. Len(addrs) + 1
    <3> QED
      BY <3>1, <3>2, <3>3, Zenon
  <2>2. Stored' = Stored
    BY DEF Stored
  <2> QED
    BY <2>1, <2>2, <1>3, Zenon DEF ResolvesNewest
<1> QED
  BY <1>4, <1>5, <1>8, <1>9 DEF IInv

\* Every step keeps the inductive invariant.
LEMMA NextKeepsIInv == IInv /\ [Next]_vars => IInv'
<1> SUFFICES ASSUME IInv, [Next]_vars PROVE IInv'
  OBVIOUS
<1>0. /\ TypeOK /\ DescentInv
      /\ WellFormed(img) => Ordered(img) /\ Tight(img) /\ Sound(img)
  BY DEF IInv, WellFormed
<1>1. CASE OpenOmap
  <2>1. CASE pc' = "next"
    <3>1. TypeOK' /\ UNCHANGED <<img, addrs>>
      BY <1>0, <1>1, <2>1, ZenonT(60) DEF OpenOmap, HeaderError, TypeOK, Fail
    <3>2. ResolvesNewest' /\ NeverFabricated'
      BY <3>1, AnswersKept
    <3>3. Len(addrs') <= Len(img'.fs_oids)
      <4>1. addrs = << >> /\ img.fs_oids \in Seq(Nat)
        BY <1>0, <1>1 DEF IInv, CountInv, OpenOmap, HeaderError, TypeOK, IsImage
      <4>2. Len(img.fs_oids) \in Nat /\ Len(addrs) = 0
        BY <4>1, LenProperties, EmptySeq
      <4> QED
        BY <3>1, <4>2
    <3>4. CountInv' /\ DescentInv' /\ RefusesOnlyAbsent'
      BY <2>1, <3>3 DEF CountInv, DescentInv, RefusesOnlyAbsent
    <3> QED
      BY <3>1, <3>2, <3>4 DEF IInv
  <2>2. CASE \E kind \in Errors : Fail(kind) /\ (WellFormed(img) => kind = "Io")
    BY <2>2, FailKeepsIInv
  <2> QED
    BY <1>0, <1>1, <2>1, <2>2 DEF OpenOmap, HeaderError, Sound, Errors
<1>2. CASE NextOid
  BY <1>2, NextOidKeepsIInv
<1>3. CASE TooDeep
  <2>1. ~WellFormed(img)
    <3> SUFFICES ASSUME WellFormed(img) PROVE FALSE
      OBVIOUS
    <3>1. depth + img.tree[paddr].level < MaxBtreeDepth /\ paddr \in img.paddrs
      BY <1>0, <1>3 DEF TooDeep, DescentInv, Narrowed
    <3>2. img.tree[paddr].level \in Nat /\ depth \in Nat /\ MaxBtreeDepth \in Nat
      BY <3>1, <1>0, ImageTypes, OmapAssumption DEF TypeOK
    <3> QED
      BY <3>1, <3>2, <1>3 DEF TooDeep
  <2> QED
    BY <1>3, <2>1, FailKeepsIInv DEF TooDeep, Errors
<1>4. CASE Revisit
  <2>1. ~WellFormed(img)
    <3> SUFFICES ASSUME WellFormed(img) PROVE FALSE
      OBVIOUS
    <3>1. img.tree[paddr].level > img.tree[paddr].level /\ paddr \in img.paddrs
      BY <1>0, <1>4 DEF Revisit, InLoop, DescentInv
    <3>2. img.tree[paddr].level \in Nat
      BY <3>1, <1>0, ImageTypes DEF TypeOK
    <3> QED
      BY <3>1, <3>2
  <2> QED
    BY <1>4, <2>1, FailKeepsIInv DEF Revisit, Errors
<1>5. CASE ReadFails
  BY <1>5, FailKeepsIInv DEF ReadFails, Errors
<1>6. CASE BadChecksum
  <2>1. ~WellFormed(img)
    BY <1>0, <1>6 DEF BadChecksum, Readable, Sound
  <2> QED
    BY <1>6, <2>1, FailKeepsIInv DEF BadChecksum, Errors
<1>7. CASE EmptyIndex
  <2>1. ~WellFormed(img)
    BY <1>0, <1>7, ZenonT(60) DEF EmptyIndex, Verified, Readable, Ordered, OrderedNode
  <2> QED
    BY <1>7, <2>1, FailKeepsIInv, SMTT(60) DEF EmptyIndex, Errors
<1>8. CASE Descend
  BY <1>8, DescendKeepsIInv
<1>9. CASE Land
  <2>1. CASE Matches(img.tree[paddr].entries, Target) = {} /\ Fail("OmapUnresolved")
    <3>1. ASSUME WellFormed(img)
          PROVE  States(Stored, Target) = {}
      <4>1. pc = "descend" /\ paddr \in img.paddrs /\ is_leaf(img.tree[paddr]) /\ IsImage(img)
        BY <1>0, <1>9 DEF Land, Verified, Readable, Fresh, InLoop, TypeOK
      <4>2. Target \in Key /\ Narrowed(img, paddr, Target) /\ HoldsFloor(img, paddr, Target)
        BY <1>0, <3>1, <4>1, TargetType, SMTT(60) DEF DescentInv
      <4>3. img.tree[paddr].level = 0
        BY <1>0, <3>1, <4>1, ZenonT(60) DEF Ordered, OrderedNode, is_leaf
      <4>4. States(Root(img), Target) = {}
        BY <1>0, <2>1, <3>1, <4>1, <4>2, <4>3, MissMeansAbsent, Zenon
      <4> QED
        BY <4>4 DEF Root, Stored
    <3> QED
      BY <2>1, <3>1, FailKeepsIInv DEF Errors
  <2>2. CASE /\ \E k \in DOMAIN img.tree[paddr].entries :
                  /\ Keeps(img.tree[paddr].entries, k, Target)
                  /\ addrs' = Append(addrs, img.tree[paddr].entries[k].ptr)
             /\ pc' = "next"
             /\ UNCHANGED <<img, paddr, depth, visited, error>>
    BY <1>9, <2>2, LandKeepsIInv, Zenon DEF Land
  <2> QED
    BY <1>9, <2>1, <2>2 DEF Land
<1>10. CASE UNCHANGED vars
  <2>1. ResolvesNewest' /\ NeverFabricated' /\ Target' = Target /\ Stored' = Stored
    BY <1>10, AnswersKept DEF vars
  <2>2. TypeOK'
    BY <1>0, <1>10 DEF TypeOK, vars
  <2>3. CountInv' /\ DescentInv' /\ RefusesOnlyAbsent'
    BY <1>10, <2>1 DEF IInv, CountInv, DescentInv, RefusesOnlyAbsent, vars
  <2> QED
    BY <2>1, <2>2, <2>3 DEF IInv
<1>11. CASE Overflow
  <2>1. ~WellFormed(img)
    <3> SUFFICES ASSUME WellFormed(img) PROVE FALSE
      OBVIOUS
    <3>1. paddr \in img.paddrs /\ paddr > LastPaddr
      BY <1>0, <1>11, Zenon DEF Overflow, Fresh, InLoop, DescentInv, Narrowed
    <3>2. img.paddrs \subseteq 0 .. LastPaddr
      BY <1>0 DEF TypeOK, IsImage
    <3> QED
      BY <3>1, <3>2, OmapAssumption
  <2> QED
    BY <1>11, <2>1, FailKeepsIInv DEF Overflow, Errors
<1> QED
  BY <1>1, <1>2, <1>3, <1>4, <1>5, <1>6, <1>7, <1>8, <1>9, <1>10, <1>11 DEF Next

\* Resolving keeps the inductive invariant.
LEMMA Inductive == Spec => []IInv
<1> QED
  BY InitIInv, NextKeepsIInv, PTL DEF Spec

\* find_leaf's loop keeps its state well-typed and within its depth cap.
THEOREM TypeCorrect == Spec => []TypeOK
<1>1. IInv => TypeOK
  BY DEF IInv
<1> QED
  BY <1>1, Inductive, PTL

\* In every ordered object map the single path resolve reads leads to the newest
\* state of the oid at or before the xid, of all that the tree stores.
THEOREM FloorResolved == Spec => []ResolvesNewest
<1>1. IInv => ResolvesNewest
  BY DEF IInv
<1> QED
  BY <1>1, Inductive, PTL

\* In every well-formed object map resolve refuses only an oid without a state.
THEOREM NoFalseRefusal == Spec => []RefusesOnlyAbsent
<1>1. IInv => RefusesOnlyAbsent
  BY DEF IInv
<1> QED
  BY <1>1, Inductive, PTL

\* Whatever the blocks are, every address comes from a verified leaf.
THEOREM NothingInvented == Spec => []NeverFabricated
<1>1. IInv => NeverFabricated
  BY DEF IInv
<1> QED
  BY <1>1, Inductive, PTL

\* One turn of find_leaf's loop adds one block to the visited set, and only one that
\* was not in it; a new descent begins with an empty set.
TurnInv == IsFiniteSet(visited) /\ (pc = "descend" => Cardinality(visited) = depth)

\* Every step keeps the count of the visited blocks.
LEMMA TurnStep == TypeOK /\ TurnInv /\ [Next]_vars => TurnInv'
<1> SUFFICES ASSUME TypeOK, TurnInv, [Next]_vars
             PROVE  IsFiniteSet(visited') /\ (pc' = "descend" => Cardinality(visited') = depth')
  BY DEF TurnInv
<1>1. IsFiniteSet(visited) /\ (pc = "descend" => Cardinality(visited) = depth)
  BY DEF TurnInv
<1>2. CASE Descend
  <2>1. /\ pc = "descend" /\ paddr \notin visited
        /\ visited' = visited \cup {paddr} /\ depth' = depth + 1
    BY <1>2 DEF Descend, Verified, Readable, Fresh, InLoop
  <2>2. IsFiniteSet(visited \cup {paddr}) /\ Cardinality(visited \cup {paddr}) = Cardinality(visited) + 1
    BY <1>1, <2>1, FS_AddElement
  <2> QED
    BY <1>1, <2>1, <2>2
<1>3. CASE NextOid
  <2>1. (visited' = {} /\ depth' = 0) \/ (visited' = visited /\ pc' = "done")
    BY <1>3 DEF NextOid
  <2> QED
    BY <1>1, <2>1, FS_EmptySet
<1>4. CASE pc' # "descend" /\ visited' = visited
  BY <1>1, <1>4
<1>5. CASE OpenOmap \/ TooDeep \/ Revisit \/ Overflow \/ ReadFails \/ BadChecksum \/ EmptyIndex \/ Land
  BY <1>4, <1>5, Zenon DEF OpenOmap, TooDeep, Revisit, Overflow, ReadFails, BadChecksum, EmptyIndex, Land, Fail
<1>6. CASE UNCHANGED vars
  BY <1>1, <1>6 DEF vars
<1> QED
  BY <1>2, <1>3, <1>5, <1>6 DEF Next

\* In a tree of any blocks, cyclic ones included, every turn of find_leaf's loop
\* reads a block the resolve has not read: it reads at most MAX_BTREE_DEPTH blocks.
THEOREM NewBlockEveryTurn == Spec => []EveryTurnReadsANewBlock
<1>1. Init => TurnInv
  BY FS_EmptySet DEF Init, TurnInv
<1>2. TypeOK /\ TurnInv => EveryTurnReadsANewBlock
  BY OmapAssumption DEF TypeOK, TurnInv, EveryTurnReadsANewBlock
<1> QED
  BY <1>1, <1>2, TypeCorrect, TurnStep, PTL DEF Spec

\* A refusal of a well-formed tree is a refusal of the store.
LEMMA FailRefines ==
  ASSUME IInv, IInv', WellFormed(img), NEW kind \in Errors, Fail(kind),
         pc = "start" \/ pc = "descend", kind = "OmapUnresolved" => pc = "descend"
  PROVE  Store!Next
<1>1. /\ pc' = "failed" /\ error' = kind
      /\ UNCHANGED <<img, addrs>> /\ UNCHANGED Stored /\ UNCHANGED Target
      /\ UNCHANGED WellFormed(img)
  BY DEF Fail, Stored, Target
<1>2. Outcome = "open"
  BY DEF Outcome
<1>3. kind = "Io" \/ (kind = "OmapUnresolved" /\ States(Stored, Target) = {})
  BY <1>1 DEF IInv, RefusesOnlyAbsent
<1>4. CASE kind = "Io"
  <2>1. Outcome' = "io"
    BY <1>1, <1>4 DEF Outcome
  <2> QED
    BY <1>1, <1>2, <2>1 DEF Store!Next, Store!SourceFails
<1>5. CASE kind = "OmapUnresolved" /\ States(Stored, Target) = {}
  <2>1. Outcome' = "unresolved"
    BY <1>1, <1>5 DEF Outcome
  <2>2. Len(addrs) < Len(img.fs_oids)
    BY <1>5 DEF IInv, DescentInv
  <2>3. Store!Asked = {}
    BY <1>5 DEF Store!Asked, States, Target
  <2> QED
    BY <1>1, <1>2, <2>1, <2>2, <2>3 DEF Store!Next, Store!Refuse
<1> QED
  BY <1>3, <1>4, <1>5

\* An answer from the landing leaf is an answer of the store.
LEMMA LandRefines ==
  ASSUME IInv, WellFormed(img), Verified, is_leaf(img.tree[paddr]),
         NEW k \in DOMAIN img.tree[paddr].entries, Keeps(img.tree[paddr].entries, k, Target),
         addrs' = Append(addrs, img.tree[paddr].entries[k].ptr),
         pc' = "next", UNCHANGED <<img, paddr, depth, visited, error>>
  PROVE  Store!Next
<1> DEFINE e == img.tree[paddr].entries[k]
<1>1. pc = "descend" /\ paddr \in img.paddrs /\ IsImage(img) /\ Ordered(img)
  BY SMTT(60) DEF Verified, Readable, Fresh, InLoop, IInv, TypeOK, WellFormed
<1>2. Target \in Key /\ Narrowed(img, paddr, Target) /\ Len(addrs) < Len(img.fs_oids)
  BY <1>1, TargetType, Zenon DEF IInv, DescentInv
<1>3. img.tree[paddr].level = 0
  BY <1>1, ZenonT(60) DEF Ordered, OrderedNode, is_leaf
<1>4. e \in Newest(Root(img), Target)
  BY <1>1, <1>2, <1>3, LandsOnFloor, Zenon
<1>5. e \in Store!Asked /\ \A f \in Store!Asked : f.xid <= e.xid
  BY <1>4, ZenonT(60) DEF Store!Asked, Newest, States, Target, Root, Stored
<1>6. Outcome = "open" /\ Outcome' = "open" /\ Stored' = Stored /\ UNCHANGED WellFormed(img)
  BY <1>1 DEF Outcome, Stored
<1> QED
  BY <1>2, <1>5, <1>6, Zenon DEF Store!Next, Store!Answer

\* A descent on a well-formed tree, seen from its caller, is a lookup in one
\* step: each step of Omap is a step of OmapStore or leaves its state alone.
THEOREM Refinement == Spec => ImplementsStore
<1>1. Init => Store!Init
  BY DEF Init, Store!Init, Outcome
<1>2. ASSUME IInv, IInv', WellFormed(img), [Next]_vars
      PROVE  [Store!Next]_(Store!storevars)
  <2>1. CASE UNCHANGED <<img, addrs>> /\ pc \in {"start", "next", "descend"} /\ pc' \in {"next", "descend"}
    BY <2>1 DEF Outcome, Stored, Store!storevars
  <2>2. CASE UNCHANGED vars
    BY <2>2 DEF Outcome, Stored, vars, Store!storevars
  <2>3. CASE OpenOmap
    <3>1. CASE pc' = "next"
      BY <2>1, <2>3, <3>1 DEF OpenOmap, HeaderError, Fail
    <3>2. CASE \E kind \in Errors \ {"OmapUnresolved"} : Fail(kind)
      BY <1>2, <2>3, <3>2, FailRefines DEF OpenOmap
    <3> QED
      BY <2>3, <3>1, <3>2 DEF OpenOmap, HeaderError, Errors
  <2>4. CASE NextOid
    <3>1. CASE pc' = "descend"
      BY <2>1, <2>4, <3>1 DEF NextOid
    <3>2. CASE pc' = "done"
      <4>1. Outcome = "open" /\ Outcome' = "done" /\ Stored' = Stored /\ UNCHANGED WellFormed(img)
        BY <2>4, <3>2 DEF NextOid, Outcome, Stored
      <4> QED
        BY <2>4, <3>2, <4>1 DEF NextOid, Store!Next, Store!Finish
    <3> QED
      BY <2>4, <3>1, <3>2 DEF NextOid
  <2>5. CASE TooDeep \/ Revisit \/ Overflow \/ ReadFails \/ BadChecksum \/ EmptyIndex
    <3>1. pc = "descend" /\ \E kind \in Errors : Fail(kind)
      BY <2>5 DEF TooDeep, Revisit, Overflow, ReadFails, BadChecksum, EmptyIndex, Verified, Readable, Fresh,
                  InLoop, Errors
    <3> QED
      BY <1>2, <3>1, FailRefines
  <2>6. CASE Descend
    BY <2>1, <2>6 DEF Descend, Verified, Readable, Fresh, InLoop
  <2>7. CASE Land
    <3>1. CASE Fail("OmapUnresolved")
      BY <1>2, <2>7, <3>1, FailRefines, SMTT(60) DEF Land, Verified, Readable, Fresh, InLoop, Errors
    <3>2. CASE /\ \E k \in DOMAIN img.tree[paddr].entries :
                    /\ Keeps(img.tree[paddr].entries, k, Target)
                    /\ addrs' = Append(addrs, img.tree[paddr].entries[k].ptr)
               /\ pc' = "next"
               /\ UNCHANGED <<img, paddr, depth, visited, error>>
      BY <1>2, <2>7, <3>2, LandRefines, Zenon DEF Land
    <3> QED
      BY <2>7, <3>1, <3>2 DEF Land
  <2> QED
    BY <1>2, <2>2, <2>3, <2>4, <2>5, <2>6, <2>7 DEF Next
<1>3. ASSUME ~WellFormed(img), [Next]_vars
      PROVE  [Store!Next]_(Store!storevars)
  <2>1. img' = img
    BY <1>3, Zenon DEF Next, vars, OpenOmap, HeaderError, NextOid, TooDeep, Revisit, Overflow, ReadFails,
                BadChecksum, EmptyIndex,
                Descend, Land, Fail
  <2> QED
    BY <1>3, <2>1 DEF Store!Next, Store!Unsound, Stored
<1> QED
  BY <1>1, <1>2, <1>3, Inductive, PTL DEF Spec, ImplementsStore, Store!Spec
=============================================================================
