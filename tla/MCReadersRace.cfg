CONSTANTS
    long = long
    short = short
    SM = SM
    ME = ME
    Message <- MCMessage
    Total <- MCTotal
    Storage <- MCStorage
    Index <- MCIndex
    Home = SM
    Sweep = {}
    NoPdu = NoPdu
    NoStorage = NoStorage
CHECK_DEADLOCK FALSE
SPECIFICATION Spec
PROPERTIES DeletesAsIndicated
