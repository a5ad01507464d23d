CONSTANTS
    p1 = p1
    p2 = p2
    b = b
    r = r
    s1 = s1
    s2 = s2
    s3 = s3
    s4 = s4
    d1 = d1
    d2 = d2
    Phone <- MCPhone
    Secret <- MCSecret
    Bootstrap = b
    Recovery = r
    DeviceId <- MCDeviceId
    None = None
    NoSecret = NoSecret
    NoPending = NoPending
    NoRegistry = NoRegistry
    MaxDevices = 2
    BootstrapLifetime = 3
    PendingLifetime = 1
    ClockTolerance = 1
    MaxTime = 2
    MaxGeneration = 3
    SyncCanFail = FALSE
SPECIFICATION Spec
INVARIANTS CommitAnswerIsAccepted
