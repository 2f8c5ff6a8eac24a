SPECIFICATION Spec
CONSTANTS
    Owner = {sidecar, worker}
    Role = {r1}
    StartId = 1
    MaxId = 2
    LeaseTtl = 2
    MaxTime = 4
    None = None
INVARIANTS TypeOK LeaseExclusive RejectedIdUnused
PROPERTY PromisesAreKept AcquireTerminates
CHECK_DEADLOCK FALSE
