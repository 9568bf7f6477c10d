SPECIFICATION HSpec
CONSTANTS
  Labels = {q1, q2}
  Devices = {d1, d2}
  Requests = {r1, r2}
  None = None
  Stale = Stale
  Ops = {"bind", "retire", "restore", "rebind", "unbind"}
  Faults = {"netbox_error", "lost_answer", "commit_error", "commit_timeout", "audit_error", "crash"}
SYMMETRY Symmetry
INVARIANTS TypeOK ConstraintsHold OneWinner DivergenceIsAttributable PatchesWhatItSaw
PROPERTY ImplementsRegistry
