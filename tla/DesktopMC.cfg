SPECIFICATION PartsSpec
CONSTANTS
    Fails = 8
    Backoff = 12
    Grace = 18
    Probe = 2
    MaxStart = 20
    FirstTabs = {1, 2}
    MoreTabs = {3}
    Fixed = {1}
    Nothing = Nothing
    MaxUses = 4
    MaxStops = 2
    Ids = {1}
    Stocks = {"a", "b"}
    Views = {1, 2, 3}
    Torn = {3}
    NoOne = NoOne
    MaxMoves = 2
    MaxSwaps = 1
    MaxActs = 3
    LastMinute = 5
    Prices = {2, 3}
    Frames = {1, 2, 6}
    Day = 6
    Regular = {1, 2, 3}
    Extended = {0, 1, 2, 3, 4}
    Unit = 5
    Capitals = {5}
    Quantities = {7}
    NoBar = NoBar
    MaxRuns = 2
    Counts = {1, 3}
    Symbols = {"a", "b"}
    Single = "a"
    Many = 5
    Few = 3
    Speeds = {1, 2}
    MaxLogins = 2
    MaxServed = 2
    MaxStrays = 1
    MaxRestarts = 1
    Nobody = Nobody
INVARIANTS PartsTypeOK HungIsBounded DownIsBounded  
    AlertDiscipline ReplayIsRight LedgerAddsUp PlaysWhatItShows SignInCounts
