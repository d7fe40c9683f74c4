------------------------------ MODULE OmapStore ------------------------------
(***************************************************************************)
(* What an object map promises the callers of volume_superblock_addrs: a   *)
(* set of (oid, xid) -> address entries, each oid answered in one step by  *)
(* the newest entry not after the xid, or refused when there is none.      *)
(* A map a writer did not leave well-formed is promised nothing here.      *)
(***************************************************************************)
EXTENDS Integers, Sequences

VARIABLES
  sound,     \* whether the map is as a writer leaves it
  store,     \* the entries
  fs_oids,   \* the oids to resolve
  xid,       \* the transaction to resolve them at
  answers,   \* the addresses of the oids resolved
  outcome    \* "open", "done", "unresolved" or "io"

storevars == <<sound, store, fs_oids, xid, answers, outcome>>

Init == answers = << >> /\ outcome = "open"

Asked == {e \in store : e.oid = fs_oids[Len(answers) + 1] /\ e.xid <= xid}

Answer ==
  /\ outcome = "open"
  /\ Len(answers) < Len(fs_oids)
  /\ \E e \in Asked :
       /\ \A f \in Asked : f.xid <= e.xid
       /\ answers' = Append(answers, e.ptr)
  /\ UNCHANGED <<sound, store, fs_oids, xid, outcome>>

Refuse ==
  /\ outcome = "open"
  /\ Len(answers) < Len(fs_oids)
  /\ Asked = {}
  /\ outcome' = "unresolved"
  /\ UNCHANGED <<sound, store, fs_oids, xid, answers>>

Finish ==
  /\ outcome = "open"
  /\ Len(answers) = Len(fs_oids)
  /\ outcome' = "done"
  /\ UNCHANGED <<sound, store, fs_oids, xid, answers>>

SourceFails ==
  /\ outcome = "open"
  /\ outcome' = "io"
  /\ UNCHANGED <<sound, store, fs_oids, xid, answers>>

\* Damage is reported in a way of its own, or yields what a damaged map yields.
Unsound == ~sound /\ UNCHANGED <<sound, store, fs_oids, xid>>

Next == Answer \/ Refuse \/ Finish \/ SourceFails \/ Unsound

Spec == Init /\ [][Next]_storevars
=============================================================================
