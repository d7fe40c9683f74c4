-------------------------------- MODULE Vfs --------------------------------
(***************************************************************************)
(* The file-system adapter (core/src/vfs.rs): worker threads share mounts  *)
(* (ApfsFs), each of which owns one seekable reader behind a Mutex.  Every *)
(* method first checks its arguments, then takes the lock, makes one or    *)
(* two apfs-core calls and returns; the guard is dropped on every return.  *)
(*                                                                         *)
(* An apfs-core call is modelled by what matters for sharing the reader:   *)
(* it seeks to the place of what it reads and then reads at the cursor.    *)
(* The calls themselves are the modules FsTree, Spaceman and Stream.  A    *)
(* reader may panic in a read; the Mutex is then poisoned.                 *)
(***************************************************************************)
EXTENDS Integers, Sequences, FiniteSets

CONSTANTS
  Workers,
  Mounts,      \* ApfsFs handles, each with a reader of its own
  Oids,        \* inode oids
  Methods,     \* the FileSystem methods the workers call
  MaxCalls,    \* bound on the calls of one worker
  SpacemanOf,  \* SpacemanOf[m]: whether m's space manager resolved at open
  XidOf,       \* XidOf[m]: the transaction m is mounted at
  None

AllMethods == {"read_dir", "extents", "lookup", "meta", "data_streams", "read_at", "read_xattr_at",
               "unallocated"}

ASSUME VfsAssumption ==
  /\ Methods \subseteq AllMethods
  /\ SpacemanOf \in [Mounts -> BOOLEAN]
  /\ XidOf \in [Mounts -> Nat]
  /\ MaxCalls \in Nat
  /\ None \notin Workers

\* FileId: what a worker addresses a file by.
FileId == [oid : Oids, xid : {XidOf[m] : m \in Mounts}]

\* The rest of a call's arguments: an id of another file system is foreign; a
\* stream kind APFS does not have, and a name that is not UTF-8, are odd.
Call == [mount : Mounts, method : Methods, id : FileId, args : {"good", "foreign", "odd"}]

\* What a place of a reader holds: something of an object as of a transaction.
Place == [oid : Oids \cup {None}, xid : Nat, part : {"dir", "inode", "extents", "xattrs", "data", "free"}]

VARIABLES
  lock,      \* lock[m]: the worker that holds m's Mutex, or None
  poison,    \* poison[m]: whether m's Mutex is poisoned
  cursor,    \* cursor[m]: where m's reader stands
  wpc,       \* wpc[w]: "idle", "locking", "seek", "read" or "returned"
  call,      \* call[w]: the call w has made
  plan,      \* plan[w]: the places its apfs-core calls read
  got,       \* got[w]: what they have read so far
  answer,    \* answer[w]: the call's result, while it returns
  calls      \* calls[w]: how many calls w has made

vfsvars == <<lock, poison, cursor, wpc, call, plan, got, answer, calls>>

VfsInit ==
  /\ lock = [m \in Mounts |-> None]
  /\ poison = [m \in Mounts |-> FALSE]
  /\ cursor = [m \in Mounts |-> None]
  /\ wpc = [w \in Workers |-> "idle"]
  /\ call = [w \in Workers |-> None]
  /\ plan = [w \in Workers |-> << >>]
  /\ got = [w \in Workers |-> << >>]
  /\ answer = [w \in Workers |-> None]
  /\ calls = [w \in Workers |-> 0]

----------------------------------------------------------------------------
\* The places a call reads, one after the other.  oid_of drops the transaction of
\* the id; the mount's own is used.  read_data looks for a decmpfs attribute
\* first; an attribute has data of its own only if it is a stream.
Plans(c) ==
  LET at(part) == [oid |-> c.id.oid, xid |-> XidOf[c.mount], part |-> part]
  IN  CASE c.method = "read_dir" -> {<<at("dir")>>}
        [] c.method = "lookup" -> {<<at("dir")>>}
        [] c.method = "meta" -> {<<at("inode")>>}
        [] c.method = "extents" -> {<<at("inode"), at("extents")>>}
        [] c.method = "data_streams" -> {<<at("inode"), at("xattrs")>>}
        [] c.method = "read_at" -> {<<at("inode"), at("xattrs"), at("data")>>}
        [] c.method = "read_xattr_at" -> {<<at("xattrs")>>, <<at("xattrs"), at("data")>>}
        [] OTHER -> {<<[oid |-> None, xid |-> XidOf[c.mount], part |-> "free"]>>}

\* What a method returns before it takes the lock, or None.
Early(c) ==
  CASE c.method = "unallocated" -> IF SpacemanOf[c.mount] THEN None ELSE "refused"
    [] c.method # "unallocated" /\ c.args = "foreign" -> "refused"
    [] c.method \in {"extents", "read_at"} /\ c.args = "odd" -> "refused"
    [] c.method = "lookup" /\ c.args = "odd" -> "absent"
    [] OTHER -> None

\* A worker calls a method.
Begin(w) ==
  /\ wpc[w] = "idle" /\ calls[w] < MaxCalls
  /\ calls' = [calls EXCEPT ![w] = @ + 1]
  /\ \E c \in Call :
       /\ call' = [call EXCEPT ![w] = c]
       /\ \/ /\ Early(c) # None
             /\ answer' = [answer EXCEPT ![w] = Early(c)]
             /\ wpc' = [wpc EXCEPT ![w] = "returned"]
             /\ UNCHANGED plan
          \/ /\ Early(c) = None
             /\ \E p \in Plans(c) : plan' = [plan EXCEPT ![w] = p]
             /\ wpc' = [wpc EXCEPT ![w] = "locking"]
             /\ UNCHANGED answer
  /\ UNCHANGED <<lock, poison, cursor, got>>

M(w) == call[w].mount

\* A method that uses the reader of a poisoned lock all the same.
Lock_IgnoresPoison(w) ==
  /\ wpc[w] = "locking" /\ lock[M(w)] = None
  /\ lock' = [lock EXCEPT ![M(w)] = w]
  /\ wpc' = [wpc EXCEPT ![w] = "seek"]
  /\ UNCHANGED <<poison, cursor, call, plan, got, answer, calls>>

\* A method that tries a poisoned lock again and again.
Lock_Retries(w) ==
  /\ wpc[w] = "locking" /\ lock[M(w)] = None /\ ~poison[M(w)]
  /\ lock' = [lock EXCEPT ![M(w)] = w]
  /\ wpc' = [wpc EXCEPT ![w] = "seek"]
  /\ UNCHANGED <<poison, cursor, call, plan, got, answer, calls>>

\* self.reader.lock(): wait for the lock; poisoned() when it is poisoned.
Lock(w) ==
  /\ wpc[w] = "locking" /\ lock[M(w)] = None
  /\ \/ /\ ~poison[M(w)]
        /\ lock' = [lock EXCEPT ![M(w)] = w]
        /\ wpc' = [wpc EXCEPT ![w] = "seek"]
        /\ UNCHANGED answer
     \/ /\ poison[M(w)]
        /\ answer' = [answer EXCEPT ![w] = "poisoned"]
        /\ wpc' = [wpc EXCEPT ![w] = "returned"]
        /\ UNCHANGED lock
  /\ UNCHANGED <<poison, cursor, call, plan, got, calls>>

\* A seek before the first read only.
Seek_Once(w) ==
  /\ wpc[w] = "seek"
  /\ Len(got[w]) < Len(plan[w])
  /\ cursor' = [cursor EXCEPT ![M(w)] = IF got[w] = << >> THEN plan[w][1] ELSE @]
  /\ wpc' = [wpc EXCEPT ![w] = "read"]
  /\ UNCHANGED <<lock, poison, call, plan, got, answer, calls>>

Seek(w) ==
  /\ wpc[w] = "seek"
  /\ Len(got[w]) < Len(plan[w])
  /\ cursor' = [cursor EXCEPT ![M(w)] = plan[w][Len(got[w]) + 1]]
  /\ wpc' = [wpc EXCEPT ![w] = "read"]
  /\ UNCHANGED <<lock, poison, call, plan, got, answer, calls>>

\* A read at the cursor succeeds, fails, or panics in the reader.
ReadOk(w) ==
  /\ wpc[w] = "read"
  /\ got' = [got EXCEPT ![w] = Append(@, cursor[M(w)])]
  /\ cursor' = [cursor EXCEPT ![M(w)] = None]
  /\ wpc' = [wpc EXCEPT ![w] = "seek"]
  /\ UNCHANGED <<lock, poison, call, plan, answer, calls>>

Unlocked(w, result) ==
  /\ lock' = [lock EXCEPT ![M(w)] = None]
  /\ answer' = [answer EXCEPT ![w] = result]
  /\ wpc' = [wpc EXCEPT ![w] = "returned"]

\* An error return that keeps the guard.
ReaderFails_KeepsLock(w) ==
  /\ wpc[w] = "read"
  /\ answer' = [answer EXCEPT ![w] = "error"]
  /\ wpc' = [wpc EXCEPT ![w] = "returned"]
  /\ UNCHANGED <<lock, poison, cursor, call, plan, got, calls>>

\* map_err and `?`: the guard is dropped with the frame.
ReaderFails(w) ==
  /\ wpc[w] = "read"
  /\ Unlocked(w, "error")
  /\ UNCHANGED <<poison, cursor, call, plan, got, calls>>

\* A panic unwinds through the guard and poisons the Mutex.
ReadPanics(w) ==
  /\ wpc[w] = "read"
  /\ Unlocked(w, "panicked")
  /\ poison' = [poison EXCEPT ![M(w)] = TRUE]
  /\ UNCHANGED <<cursor, call, plan, got, calls>>

\* All calls are made: build the answer and drop the guard.
ReturnCall(w) ==
  /\ wpc[w] = "seek" /\ Len(got[w]) = Len(plan[w])
  /\ Unlocked(w, "ok")
  /\ UNCHANGED <<poison, cursor, call, plan, got, calls>>

\* The caller takes the answer; a worker that panicked is gone.
Collect(w) ==
  /\ wpc[w] = "returned" /\ answer[w] # "panicked"
  /\ wpc' = [wpc EXCEPT ![w] = "idle"]
  /\ call' = [call EXCEPT ![w] = None]
  /\ plan' = [plan EXCEPT ![w] = << >>]
  /\ got' = [got EXCEPT ![w] = << >>]
  /\ answer' = [answer EXCEPT ![w] = None]
  /\ UNCHANGED <<lock, poison, cursor, calls>>

Step(w) ==
  \/ Begin(w) \/ Lock(w) \/ Seek(w)
  \/ ReadOk(w) \/ ReaderFails(w) \/ ReadPanics(w)
  \/ ReturnCall(w) \/ Collect(w)

VfsNext == \E w \in Workers : Step(w)

VfsSpec == VfsInit /\ [][VfsNext]_vfsvars

\* Each thread is scheduled; a thread that waits for a lock that is free again
\* and again gets it, since no thread makes calls for ever.
VfsFairSpec == VfsSpec /\ \A w \in Workers : WF_vfsvars(Step(w))

----------------------------------------------------------------------------
\* Type invariant.
VfsTypeOK ==
  /\ lock \in [Mounts -> Workers \cup {None}]
  /\ poison \in [Mounts -> BOOLEAN]
  /\ cursor \in [Mounts -> Place \cup {None}]
  /\ wpc \in [Workers -> {"idle", "locking", "seek", "read", "returned"}]
  /\ \A w \in Workers : call[w] \in Call \cup {None}
  /\ \A w \in Workers : Len(got[w]) <= Len(plan[w])
  /\ calls \in [Workers -> 0 .. MaxCalls]

\* No call gets bytes from a place another worker sought: what a successful call
\* has read is what it asked for, although all share one cursor (the guard held
\* over seek and read).
ReadsAreOwn ==
  \A w \in Workers : wpc[w] = "returned" /\ answer[w] = "ok" => got[w] \in Plans(call[w])

\* The lock is held exactly by the worker that is between its lock() and its
\* return, on every path out, the errors and the panic included.
LockHeldInside ==
  \A m \in Mounts, w \in Workers :
    lock[m] = w <=> (wpc[w] \in {"seek", "read"} /\ M(w) = m)

\* A poisoned reader is never used again: every later call on the mount fails
\* with the named error and none returns data (poisoned()).
PoisonIsFinal ==
  [][\A w \in Workers : call[w] # None /\ poison[M(w)] => got'[w] = got[w] \/ got'[w] = << >>]_vfsvars

\* Every call returns, whatever the other workers do and however they fail.
EveryCallReturns ==
  \A w \in Workers : wpc[w] = "locking" ~> wpc[w] = "returned"
=============================================================================
