SPECIFICATION FairSpec
CONSTANTS
    Parts = {"bluetooth", "device", "supervision"}
    NetDevices = {d1, d2, d3}
    Addresses = {a1, a2}
    MaxPeers = 2
    MaxAddresses = 1
    PeerTTL = 3
    CleanupPeriod = 2
    Networks = {none, home, cafe}
    NoAdapters = none
    IPs = {i1, i2}
    Resolvers = {c1, c2}
    Slices = {1, 2, 3, 4}
    AdapterTTL = 2
    PairDevices = {d1}
    Handshakes = {h1, h2}
    Pins = {1, 2, 3, 4}
    MaxPinFailures = 3
    Threads = {"ui"}
    LaneCap = 3
    MaxConfigs = 3
    Machines = {m1, m2}
    Texts = {a, b}
    MaxCopies = 3
    Jobs = {j1, j2}
    MaxNotes = 1
    Profiles <- TwoProfiles
    Rates = {1, 2}
    Bursts = {1, 4}
    Blocks = {1, 3}
    Steps = {1, 2, 8, 12}
    DropAfter = 8
    NoRate = 0
    Sockets = {s1, s2}
    BtDevices = {d1, d2}
    NoSocket = nosocket
    Callers = {c1, c2}
    Loops = {l1, l2}
    MaxQuickFailures = 2
    NoLoop = noloop
    MaxRestarts = 3
    RemediateAfter = 3
    MaxPanics = 2
INVARIANTS
    OpenIsHeld SpeakersRestored
PROPERTIES
    OffIsOff StopReturns DownIsReported
CHECK_DEADLOCK FALSE
