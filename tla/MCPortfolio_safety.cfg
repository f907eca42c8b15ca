CONSTANTS
    a1 = a1  a2 = a2  a3 = a3
    o1 = o1  o2 = o2  o3 = o3  o4 = o4
    g1 = g1  g2 = g2  g3 = g3  g4 = g4
    NoOrder = NoOrder
    Accounts = {a1, a2, a3}
    Orders = {o1, o2, o3, o4}
    FullPrice = 4
    Workloads <- Loads
    PlainAccounts = {a1, a2}
    Agents = {g1, g2, g3, g4}
    FirstAgents <- AgentsAtFirst
    PageSize = 1
    Multiplier = 2
    MaxPrice = 1080
    Values = {0, 500, 1080}
    MaxTrades = 4
    LastDay = 2
SPECIFICATION Spec
INVARIANTS BinaryFillsAreTrades SharesBalanced YesInPriority RealizedIsCash  ExposureCoversPayout
PROPERTIES DeletionSparesHistory 
CHECK_DEADLOCK FALSE
