------------------------------- MODULE MCVfs -------------------------------
(* Two mounts of one volume, live and a snapshot; the snapshot's container has *)
(* no resolvable space manager.                                                *)
EXTENDS Vfs, TLC

CONSTANTS Live, Snap

MCMounts == {Live, Snap}
MCSpacemanOf == (Live :> TRUE) @@ (Snap :> FALSE)
MCXidOf == (Live :> 5) @@ (Snap :> 3)
=============================================================================
