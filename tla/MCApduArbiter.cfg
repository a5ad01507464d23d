CONSTANTS
    t1 = t1
    t2 = t2
    t3 = t3
    t4 = t4
    Ticket <- MCTicket
    Class <- MCClass
    USIMAKA = "USIMAKA"
    SMSC = "SMSC"
    EUICCWrite = "EUICCWrite"
    SwitchBarrier = "SwitchBarrier"
    NoClass = "none"
    Channel = {1, 2}
    RawRequest <- MCRawRequest
    MaxSessions = 1
    MaxQMITransports = 2
    NoRequest = NoRequest
SPECIFICATION Spec
SYMMETRY Symmetry
INVARIANTS TypeOK LeasesAreCompatible BarrierExcludesBlocked NoMissedWakeup
PROPERTIES NoOvertaking OnlyOverdueIsTaken
CHECK_DEADLOCK FALSE
