SPECIFICATION FairESpec
CONSTANTS
  Labels = {q1}
  Devices = {d1, d2}
  Requests = {r1, r2}
  None = None
  Stale = Stale
  Ops = {"bind", "retire", "restore", "rebind", "unbind"}
  Faults = {"netbox_error", "lost_answer", "commit_error", "crash"}
INVARIANT TrailTellsOutcome
PROPERTY EveryRequestAnswered
