CONSTANTS
    s1 = s1
    s2 = s2
    s3 = s3
    s4 = s4
    s5 = s5
    s6 = s6
    d1 = d1
    d2 = d2
    d3 = d3
    Secret <- MCSecret
    DeviceId <- MCDeviceId
    NoSecret = NoSecret
    NoPending = NoPending
    NoRegistry = NoRegistry
    MaxDevices = 2
    BootstrapLifetime = 3
    PendingLifetime = 2
    ClockTolerance = 1
    MaxTime = 6
    MaxGeneration = 6
SPECIFICATION Spec
SYMMETRY Symmetry
INVARIANTS TypeOK EntitledChangesAreValid
PROPERTIES OnlyConfirmedGrants ImplementsAuthRegistry
