--------------------------- MODULE OmapRefinement ---------------------------
(* Module Omap implements module OmapStore. *)
EXTENDS Omap

Outcome ==
  CASE pc = "done" -> "done"
    [] pc = "failed" /\ error = "Io" -> "io"
    [] pc = "failed" /\ error = "OmapUnresolved" -> "unresolved"
    [] pc = "failed" /\ error \notin {"Io", "OmapUnresolved"} -> "damaged"
    [] OTHER -> "open"

Store == INSTANCE OmapStore WITH
  sound <- WellFormed(img), store <- Stored, fs_oids <- img.fs_oids, xid <- img.xid,
  answers <- addrs, outcome <- Outcome

\* resolve's descent, seen from its caller, is an atomic lookup in the set of
\* entries the whole tree stores, where the tree is well-formed.
ImplementsStore == Store!Spec
=============================================================================
