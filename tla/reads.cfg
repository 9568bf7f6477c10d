CONSTANTS
    r1 = r1
    r2 = r2
    u1 = u1
    u2 = u2
    Requests = {r1, r2}
    Users = {u1, u2}
    UserOf <- Owners
    Kids = {k1, k2}
    None = None
    Second = 2
    WindowSeconds = 1
    Limit = 1
    KeyTTL = 2
    Latency = 1
    Racks = {rack}
    DeviceTTL = 2
    TypeTTL = 2
    MaxTime = 4
SPECIFICATION MCSpec
SYMMETRY Symmetry
INVARIANTS TypeOK BudgetPerWindow KnownKeysFound WithdrawnKeysExpire AnswersAreFresh
CHECK_DEADLOCK FALSE
