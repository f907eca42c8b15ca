CONSTANTS
    g1 = g1  g2 = g2  g3 = g3  g4 = g4  m1 = m1
    k1 = k1  k2 = k2
    NoAgent = NoAgent
    NoMarket = NoMarket
    Agents = {g1, g2, g3, g4}
    Markets = {m1}
    Calls = {k1, k2}
    Workloads <- Loads
    FirstProfile <- Profiles
    TrustedIds = {}
    UnverifiedInterval = 3
    OrdersPerMin = 2
    MinSpacing = 1
    Refill = 5
    StartingBalance = 1
    LargeBalance = 5
    LastTime = 5
SPECIFICATION Spec
INVARIANTS  WindowBound ReserveCoversJournal
PROPERTIES  RefusedWhileMigrating
CHECK_DEADLOCK FALSE
