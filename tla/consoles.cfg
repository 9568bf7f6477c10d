SPECIFICATION CSpec
CONSTANTS
  Labels = {q1, q2}
  Devices = {d1, d2}
  Requests = {c1, r1}
  Consoles = {c1}
  Batch = {q1, q2}
  None = None
  Stale = Stale
  Ops = {"rebind"}
  Faults = {"netbox_error", "lost_answer", "commit_error", "crash"}
SYMMETRY Symmetry
INVARIANTS CTypeOK ChainsDivergeAttributably
PROPERTIES AnswersAreTrue ImplementsRegistry
