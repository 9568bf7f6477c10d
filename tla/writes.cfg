SPECIFICATION FairSpec
CONSTANTS
  Requests = {r1, r2}
  Threshold = 2
  Faults = {"lost", "garbled", "unreached", "refused", "unsupported", "audit_error", "crash"}
  None = None
INVARIANTS TypeOK AuditTellsEffect OpensOnOutage
PROPERTIES EveryWriteAnswered ImplementsRemoteWrite
