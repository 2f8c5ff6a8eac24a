SPECIFICATION SpecPatient
CONSTANTS
    Slots = 2
    Pids = {1, 2, 3, 4, 5, 6}
    Ports = {1, 2}
    FailsBeforeRestart = 2
    Mortal = {"worker"}
    MaxCrashes = 1
    MaxStalls = 0
    Commands = {}
    MaxCommands = 0
    Patient = TRUE
    None = None
PROPERTY Recovers
