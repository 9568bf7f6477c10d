CONSTANTS
    MaxRows = 6
    StreamRows = 3
    Logged = 3
    Tabs = {t1}
    Auditors = {a1}
    FeedSize = 1
    PageSize = 1
    MaxPages = 2
    Cap = 1
    AuditPage = 2
SPECIFICATION MCFairSpec
INVARIANTS TypeOK SlotsAccounted NoRowListedTwice TickCoversLog WalkMissesNothing
PROPERTIES RowsArrive
CHECK_DEADLOCK FALSE
