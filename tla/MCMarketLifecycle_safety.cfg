CONSTANTS
    open1 = open1  lock1 = lock1  lock2 = lock2
    resolve1 = resolve1  resolve2 = resolve2  ingest1 = ingest1
    Calls <- OnceOpened
    CallKind <- OnceOpenedKind
    Values = {1, 2}
    NoValue = 99
    Futures = TRUE
SPECIFICATION Spec
INVARIANTS ResolvedHasResult 
PROPERTIES OneOpenNeverReopens
CHECK_DEADLOCK FALSE
