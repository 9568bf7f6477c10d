SPECIFICATION FairSpec
CONSTANTS
  Keys = {k1}
  Payloads = {b1, b2}
  Requests = {r1, r2, r3}
  None = None
  Endpoints = {"batch", "outer"}
  Failures = 1
INVARIANTS TypeOK OneBatchPerKey AnswersAgree NoEmptyReplay
PROPERTY EveryRequestAnswered
CHECK_DEADLOCK FALSE
