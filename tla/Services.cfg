SPECIFICATION ServicesSpec
CONSTANTS
    Half = 4
    OldIP <- Old
    NewIP <- New
    IPAddress <- MCIPAddress
    MaxValue = 7
    WordSize = 4
    FirstIP = 10
    MapEntries = 1
    Frames <- MCFrames
    Client = {c1}
    User = {u1, u2}
    Enabled = {u1}
    Serving = {w1, w2}
    Nobody = Nobody
    Hostname <- MCHostname
    ProfileName = {"day", "night"}
    Lists <- MCLists
    RoleSchedule <- MCSchedule
    Minute = {0, 360, 361, 480, 1320}
    RuleSet <- MCRuleSet
    Listed = {"ads", "social"}
    Found = {"news"}
    Host <- MCHost
    EnabledSets = {1}
    Source <- MCSource
    Rebuilding = {g1}
    PrefetchSize = 1
    MaxChanges = 2
    NodeKey <- MCNodeKey
    OwnNodes <- MCOwnNodes
    MaxDrains = 1
    Ip = {i1, i2}
    Mac = {m1}
    NoMac = NoMac
    Searching = {t1, t2}
    Domain = {d1}
    Waf = {"Default"}
    Applying = {a1, a2}
    ErrorLimit = 1
INVARIANTS
    FindsLeastFree
    PacketTypeOK
    PortalTypeOK
    OpenIsEarned
    LastWishHolds
    EnabledNotBlocked
    PassesInItsWindow
    RefusesOnlyListed
    NothingMissed
    NothingStale
    FramesAreWhole
    LookupsAreKnown
    MissIsFresh
    ServedAsStored
    OneDoneWithoutTimeout
PROPERTIES
    SnatKeepsChecksum
    CapturesAgain
    SearchEnds
    EndOfShellEndsHandler
