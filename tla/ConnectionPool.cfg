SPECIFICATION Spec
CONSTANTS
    Request = {warm, q1, q2}
    Prewarm = warm
    StartId = 1
    MaxId = 2
    MaxFaults = 3
    None = None
INVARIANTS TypeOK ConnectedIsLive DroppedIsAttended NothingLeaks
PROPERTY ReconnectSucceeds
