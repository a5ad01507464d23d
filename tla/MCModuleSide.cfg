CONSTANTS
    m1 = m1
    m2 = m2
    call1 = call1
    bark = bark
    SIM = SIM
    NV = NV
    Sms <- MCSms
    Call <- MCCall
    Transport <- MCTransport
    Storage <- MCStorage
    Contents <- MCContents
    Installed <- MCInstalled
    Settings <- MCSettings
    Cap = 2
    MaxAttempts = 2
    MaxRings = 1
    MaxSettings = 1
    MaxStops = 1
    NoSend = NoSend
    Unscanned = Unscanned
    NoOverview = NoOverview
    Default = Default
    NoOne = NoOne
    NoWork = NoWork
    NoFlight = NoFlight
    Reading = Reading
    MaxGeneration = 2
    MaxVersion = 2
    MaxToken = 1
    Profiles = {p1, p2}
    Values = {v1}
    MaxSeq = 2
    Idle = Idle
SPECIFICATION BoundedSpec
SYMMETRY SideSymmetry
INVARIANTS NoSmsIsForgotten QueueFollowsCalls HiddenTextIsErased OverviewIsCurrent OperationsEndCleanly NotificationsAreKept StartsAreSound
PROPERTIES SilenceIsKept
