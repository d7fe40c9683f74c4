--------------------------- MODULE MCNodeEntries ---------------------------
(* Up to three records in seven or eight units between the table of contents *)
(* and the end of the values: roots and other nodes, leaves and index nodes,  *)
(* entries of fixed and of variable size, the table at the start of the data  *)
(* or after it, just large enough or with room to spare.                      *)
EXTENDS NodeEntries

\* The table takes what the free space leaves.
H(root, leaf, fixed, off, room) ==
  [root |-> root, leaf |-> leaf, fixed |-> fixed, nkeys |-> 0, toc_off |-> off,
   toc_len |-> BlockLen - BTN_DATA_OFF - off - room - IF root THEN BTREE_INFO_LEN ELSE 0]

MCHeaders ==
  {H(root, leaf, fixed, off, IF fixed THEN 8 ELSE 7) :
     root \in BOOLEAN, leaf \in BOOLEAN, fixed \in BOOLEAN, off \in {0, 1}}
=============================================================================
