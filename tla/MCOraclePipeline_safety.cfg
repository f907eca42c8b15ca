CONSTANTS
    Stations = {"s"}
    Metrics = {"rain", "heat"}
    Regions = {"r"}
    WeekLength = 2
    MonthLength = 4
    SeedWeeks = 1
    SeedDays = 2
    Lockable <- Mixed
    Window = 2
    LastDay = 3
    MaxFailures = 1
SPECIFICATION FairSpec
INVARIANTS ObservedOwnDays
PROPERTIES  ElectricityResolves
