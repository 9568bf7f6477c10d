SPECIFICATION CSpec
CONSTANTS
  Labels = {q1}
  Devices = {d1}
  Requests = {c1}
  Consoles = {c1}
  Batch = {q1}
  None = None
  Stale = Stale
  Ops = {"bind"}
  Faults = {"netbox_error"}
INVARIANT RebindIsNotRefused
