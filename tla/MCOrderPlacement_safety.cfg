CONSTANTS
    m1 = m1  m2 = m2
    a1 = a1  a2 = a2  a3 = a3
    o1 = o1  o2 = o2  o3 = o3  o4 = o4
    Markets = {m1, m2}
    Accounts = {a1, a2, a3}
    Orders = {o1, o2, o3, o4}
    Requests <- MixedRequests
    OpeningBalance <- MarketBalances
    PriceGrid = {1, 2, 3}
    MaxPrice = 3
    MaxOrderNotional = 6
    MaxPositionNotional = 9
    ContractMultiplier = 1
    MaxRestingPerSide = 2
SPECIFICATION Spec
INVARIANTS TypeOK FilledMatchesTrades  StatusMatchesFill BookNotCrossed  PositionsMatchTrades CommittedTradesAnnounced OneMarketBalanceIsLedger
PROPERTIES FilledNeverShrinks
CHECK_DEADLOCK FALSE
