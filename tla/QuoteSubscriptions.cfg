SPECIFICATION Spec
CONSTANTS
    Symbols = {a, b}
    Conns = {c1, c2, c3}
    Threshold = 1
    MaxShards = 2
    MaxBars = 1
    Edited = {"W"}
    MaxEdits = 1
    Faults = {"drop", "connect", "limit", "error"}
    MaxFaults = 1
    None = None
INVARIANTS TypeOK BooksAgree UnwantedIsDropped
PROPERTY WatchedIsSubscribed
CHECK_DEADLOCK FALSE
