------------------------------ MODULE MCBlocks ------------------------------
(* The decoding of B-tree nodes and of the space manager's blocks on the       *)
(* instances of MCNodeEntries and MCSpaceman.  The two do not meet: a          *)
(* behaviour is one of them, and the other is at rest.                         *)
EXTENDS MCNodeEntries, MCSpaceman

NodeAtRest ==
  /\ hdr = H(TRUE, TRUE, TRUE, 0, 8)
  /\ block = [u \in 0 .. BlockLen - 1 |-> Spare]
  /\ written = << >> /\ damaged = 0
  /\ npc = "done"
  /\ i = 0
  /\ out = << >>

SpacemanAtRest ==
  /\ dev = With(CHOOSE g \in Geometry(0, 1, 1) : TRUE, << >>)
  /\ asked = None
  /\ pc = "done"
  /\ cib = 0 /\ within = 0 /\ bit = 0
  /\ start = None
  /\ runs = << >>
  /\ free = FALSE
  /\ error = "None"

BlocksInit == (NodeInit /\ SpacemanAtRest) \/ (Init /\ NodeAtRest)

BlocksNext == (NodeNext /\ UNCHANGED vars) \/ (Next /\ UNCHANGED nodevars)

BlocksSpec == BlocksInit /\ [][BlocksNext]_<<nodevars, vars>>
=============================================================================
