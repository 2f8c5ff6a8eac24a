SPECIFICATION SpecUp
CONSTANTS
    Slots = 1
    Pids = {1, 2, 3, 4, 5, 6}
    Ports = {1, 2}
    FailsBeforeRestart = 1
    Mortal = {"sidecar"}
    MaxCrashes = 1
    MaxStalls = 0
    Commands = {"restart", "kill"}
    MaxCommands = 1
    Patient = FALSE
    None = None
PROPERTY RestartEnds
