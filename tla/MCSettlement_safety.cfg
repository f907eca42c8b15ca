CONSTANTS
    open1 = open1  lock1 = lock1  resolve1 = resolve1  ingest1 = ingest1
    a1 = a1  a2 = a2  p1 = p1  p2 = p2
    Calls <- Operator
    CallKind <- OperatorKind
    Values = {2}
    NoValue = 99
    Futures = TRUE
    Accounts = {a1, a2}
    OpeningBalance <- Balances
    ContractMultiplier = 2
    Placements = {p1, p2}
    Deal <- Deals
    ScanJob = scan
    ManualJobs = {manual}
    Direct = {backfill}
    Attempts = 3
    MaxFailures = 1
SPECIFICATION Spec
INVARIANTS PaidOncePerPosition LedgerBalanced
PROPERTIES ImplementsLifecycle CompleteIsFinal
CHECK_DEADLOCK FALSE
