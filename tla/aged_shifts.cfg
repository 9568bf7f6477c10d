SPECIFICATION FairSpec
CONSTANTS
  Users = {u1, u2}
  Standing = {s1, s2}
  Requests = {r1}
  Replicas = {p1, p2}
  None = None
  Ops = {"start", "end"}
  Failures = 2
PROPERTY AgedShiftsEnd
