CONSTANTS
    alpha = alpha
    beta = beta
    alphaKey = alphaKey
    betaKey = betaKey
    otherKey = otherKey
    auto = auto
    relayed = relayed
    direct = direct
    impostor = impostor
    ServerAddress = ServerAddress
    RelayAddress = RelayAddress
    None = None
    Node = {alpha, beta}
    Key = {alphaKey, betaKey, otherKey}
    Authorized <- AuthorizedKeys
    Client = {auto, relayed, impostor}
    ClientNode <- NodeOf
    ClientKey <- KeyOf
    PeerNode <- PeerOf
    Mode <- ModeOf
    ServerNode = beta
    ServerKey <- RunKeyOf
    MaxRun = 3
    WrongRuns = {2}
    Strays <- StraysOf
    Reliable = FALSE
    Filtered = {}
SPECIFICATION FairSpec
INVARIANTS
    TypeOK
    ServerAgreement
    FallbackOnlyIfSilent
    ClientAgreement
PROPERTIES
    ClientEnds
CHECK_DEADLOCK FALSE
