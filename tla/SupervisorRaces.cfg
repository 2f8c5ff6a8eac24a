SPECIFICATION SpecUp
CONSTANTS
    Slots = 2
    Pids = {1, 2, 3, 4, 5, 6}
    Ports = {1, 2}
    FailsBeforeRestart = 1
    Mortal = {"sidecar", "worker"}
    MaxCrashes = 1
    MaxStalls = 0
    Commands = {}
    MaxCommands = 0
    Patient = FALSE
    None = None
PROPERTY DeadIsReplaced
