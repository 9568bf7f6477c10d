SPECIFICATION Spec
CONSTANTS
  Users = {u1, u2}
  Standing = {s1, s2}
  Requests = {r1, r2}
  Replicas = {p1}
  None = None
  Ops = {"start", "end", "force", "web_force"}
  Failures = 1
SYMMETRY Symmetry
INVARIANTS TypeOK OneOpenShift ForceCloseTrail JobEndsOnlyAged
