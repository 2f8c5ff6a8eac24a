SPECIFICATION SpecUp
CONSTANTS
    Slots = 3
    Pids = {1, 2, 3, 4, 5, 6, 7}
    Ports = {1, 2}
    FailsBeforeRestart = 2
    Mortal = {"sidecar", "spawn"}
    MaxCrashes = 3
    MaxStalls = 3
    Commands = {}
    MaxCommands = 0
    Patient = FALSE
    None = None
INVARIANT NoOrphans
PROPERTY Recovers
