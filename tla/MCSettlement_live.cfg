CONSTANTS
    open1 = open1  lock1 = lock1  resolve1 = resolve1  ingest1 = ingest1
    a1 = a1  a2 = a2  p1 = p1  p2 = p2
    Calls <- Operator
    CallKind <- OperatorKind
    Values = {1}
    NoValue = 99
    Futures = TRUE
    Accounts = {a1, a2}
    OpeningBalance <- Balances
    ContractMultiplier = 2
    Placements = {p1}
    Deal <- OneDeal
    ScanJob = scan
    ManualJobs = {manual}
    Direct = {}
    Attempts = 3
    MaxFailures = 2
SPECIFICATION FairSpec
PROPERTIES SettlesEventually
CHECK_DEADLOCK FALSE
