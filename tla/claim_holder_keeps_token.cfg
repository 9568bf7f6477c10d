SPECIFICATION Spec
CONSTANTS
  Labels = {q1, q2}
  Devices = {d1}
  Requests = {r1}
  None = None
  Stale = Stale
  Ops = {"bind"}
  Faults = {}
INVARIANT HolderKeepsToken
