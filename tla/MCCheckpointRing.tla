-------------------------- MODULE MCCheckpointRing --------------------------
(* The ring holds two checkpoints of the largest size, so that every        *)
(* transaction after the second overwrites an earlier one.                  *)
EXTENDS CheckpointRing

MCBlocks == Written \cup {Torn(b) : b \in Written}
MCZeroBlocks == {SuperblockOf(1)}
=============================================================================
