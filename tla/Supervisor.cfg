SPECIFICATION Spec
CONSTANTS
    Slots = 2
    Pids = {1, 2, 3, 4}
    Ports = {1}
    FailsBeforeRestart = 1
    Mortal = {"sidecar", "worker"}
    MaxCrashes = 0
    MaxStalls = 0
    Commands = {"shutdown"}
    MaxCommands = 1
    Patient = FALSE
    None = None
INVARIANTS TypeOK SidecarStopped
PROPERTY ShutdownQuiesces
CHECK_DEADLOCK FALSE
