CONSTANTS
    MaxProfiles = 1
    MaxTroubles = 1
SPECIFICATION LinkSpec
INVARIANTS NobodyIsFrozen
CHECK_DEADLOCK FALSE
