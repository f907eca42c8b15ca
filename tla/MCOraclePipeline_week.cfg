CONSTANTS
    Stations = {"s"}
    Metrics = {"rain"}
    Regions = {"r"}
    WeekLength = 2
    MonthLength = 4
    SeedWeeks = 1
    SeedDays = 2
    Lockable <- DayAndWeek
    Window = 2
    LastDay = 3
    MaxFailures = 0
SPECIFICATION FairSpec
INVARIANTS SettlesToItsWeek
