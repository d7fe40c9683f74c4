----------------------------- MODULE MCForensic -----------------------------
(* Unlocking and auditing on the instances of MCKeybag and MCAudit.  No call   *)
(* does both: a behaviour is one of the two, and the other is at rest.         *)
EXTENDS MCKeybag, MCAudit

KeybagAtRest ==
  /\ image = Sound /\ op = "read_keybag" /\ want = [uuid |-> "u", password |-> "pwU"]
  /\ pc = "failed"
  /\ bag = Noise /\ i = 1
  /\ vek = None /\ extent = None /\ kek = None /\ key = None
  /\ tags = {} /\ raws = << >>

AuditAtRest ==
  /\ c = Container(<< >>, << >>, NoReaper, NoLists)
  /\ apc = "done"
  /\ v = 1 /\ s = 1
  /\ next_oid = 0 /\ seen = {}
  /\ out = {} /\ audited = {}
  /\ error = "None"

ForensicInit == (Init /\ AuditAtRest) \/ (AuditInit /\ KeybagAtRest)

ForensicNext == (Next /\ UNCHANGED auditvars) \/ (AuditNext /\ UNCHANGED vars)

ForensicSpec ==
  ForensicInit /\ [][ForensicNext]_<<vars, auditvars>> /\ WF_auditvars(AuditNext /\ UNCHANGED vars)
=============================================================================
