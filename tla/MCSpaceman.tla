----------------------------- MODULE MCSpaceman -----------------------------
(***************************************************************************)
(* Devices of up to five blocks.  The consistent ones have chunks of one   *)
(* to three blocks, one more than a bitmap has bits, and CIBs of one or    *)
(* two chunks, so that the last chunk and the last CIB can be short; the   *)
(* others break one rule of the geometry.                                  *)
(***************************************************************************)
EXTENDS Spaceman

CONSTANT MaxBlocks

Infos_ == [bitmap : {TRUE}, set : SUBSET {0, 1}] \cup [bitmap : {FALSE}, set : {{}}]

Geometry(n, bpc, cpc) ==
  [cksum : {TRUE}, blocks_per_chunk : {bpc}, chunks_per_cib : {cpc}, block_count : {n},
   chunk_count : {Ceil(n, bpc)}, cab_count : {0}]

CibsOf(chunks, cpc) ==
  LET m == Ceil(chunks, cpc)
      size(k) == IF k < m THEN cpc ELSE chunks - (m - 1) * cpc
  IN  {[k \in 1 .. m |-> [cksum |-> TRUE, infos |-> [j \in 1 .. size(k) |-> f[(k - 1) * cpc + j]]]] :
         f \in [1 .. chunks -> Infos_]}

With(g, cs) ==
  [cksum |-> g.cksum, blocks_per_chunk |-> g.blocks_per_chunk, chunks_per_cib |-> g.chunks_per_cib,
   block_count |-> g.block_count, chunk_count |-> g.chunk_count, cab_count |-> g.cab_count, cibs |-> cs]

Regular ==
  UNION {{With(g, cs) : g \in Geometry(n, bpc, cpc), cs \in CibsOf(Ceil(n, bpc), cpc)} :
           <<n, bpc, cpc>> \in {t \in (0 .. MaxBlocks) \X {1, 2, 3} \X {1, 2} : t[1] <= 3 \/ t[2] > 1}}

\* One part of the device damaged, or the CAB tier in use.
Damaged ==
  LET some == {d \in Regular : d.block_count = 3 /\ d.blocks_per_chunk = 2 /\ d.chunks_per_cib = 1}
  IN  {[d EXCEPT !.cksum = FALSE] : d \in some} \cup {[d EXCEPT !.cab_count = 1] : d \in some}
      \cup {[d EXCEPT !.cibs[k].cksum = FALSE] : d \in some, k \in 1 .. 2}

\* Counts that contradict each other.
Irregular ==
  LET some == {d \in Regular : d.block_count = 3 /\ d.blocks_per_chunk = 2 /\ d.chunks_per_cib = 1}
  IN  {[d EXCEPT !.blocks_per_chunk = 0] : d \in some} \cup {[d EXCEPT !.chunk_count = 1] : d \in some}
      \cup {[d EXCEPT !.block_count = 5] : d \in some} \cup {[d EXCEPT !.chunk_count = 3, !.block_count = 5] : d \in some}
      \cup {[d EXCEPT !.cibs[1].infos = << >>] : d \in some}
      \cup {[d EXCEPT !.block_count = 1, !.chunk_count = 2] : d \in some}

MCDevices == Regular \cup Damaged \cup Irregular
=============================================================================
