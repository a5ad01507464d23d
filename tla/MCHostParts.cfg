CONSTANTS
    long = long
    short = short
    SM = SM
    ME = ME
    Message <- MCMessage
    Total <- MCTotal
    Storage <- MCStorage
    Index <- MCIndex
    Home = SM
    refresh = refresh
    Sweep = {refresh}
    NoPdu = NoPdu
    NoStorage = NoStorage
    Messages = {m1}
    Parts = {p1, p2}
    Whole = whole
    Kept = 1
    Services = {s1, s2}
    MaxFaults = 1
    Profiles = {q1, q2}
    Note = {n1}
    MaxFailed = 2
    Slots = 2
    MaxTroubles = 1
    Workers = {w1, w2}
    MaxSeconds = 2
    NoProfile = NoProfile
    Requests = {r1, r2}
    MaxSwitches = 2
    MaxLosses = 1
    Cards = {"k1", "k2"}
    Eid = {"e1", "e2", "e3"}
    Elements <- MCElements
    Branded = {"k1"}
    Watched = {"k1"}
    NoEid = NoEid
    NoCard = NoCard
    MaxGeneration = 2
    MaxSwaps = 1
    MaxScans = 2
    Collectors = {g1, g2}
    Watchers = {v1, v2}
    Subscribers = {b1}
    MaxEvents = 1
    MaxMutex = 4
    MaxChannelStops = 1
    NoOne = NoOne
    Clients = {a1}
    Authenticators = {u1}
    MaxDisturbances = 1
    MaxUssd = 4
    Callers = {c1, c2}
    MaxCommands = 2
    MaxLost = 1
    Room = 1
    Dialers = {d1, d2}
    Network = Network
    NoText = NoText
    MaxDials = 3
    MaxWords = 1
    MaxCalls = 2
    MaxClients = 2
    Segments = 2
    MaxTimeouts = 2
    MaxOthers = 1
    UimRequests = {t1, t2}
    UimChannels = {1}
    Waiters = {t1, t2, t3}
    MaxInvalidations = 3
    LastChannel = 2
CHECK_DEADLOCK FALSE
SPECIFICATION PartsSpec
INVARIANTS PartsMakeMessages StorageIsKept InboxIsFaithful SettingsAreKept PagesAreTrue CardAccessIsSound AnswersAreOwn
PROPERTIES NothingIsLostAlone
