CONSTANTS
    alpha = alpha
    beta = beta
    alphaKey = alphaKey
    betaKey = betaKey
    otherKey = otherKey
    auto = auto
    relayed = relayed
    direct = direct
    impostor = impostor
    ServerAddress = ServerAddress
    RelayAddress = RelayAddress
    None = None
    Node = {alpha, beta}
    Key = {alphaKey, betaKey, otherKey}
    Authorized <- AuthorizedKeys
    Client = {auto}
    ClientNode <- NodeOf
    ClientKey <- KeyOf
    PeerNode <- PeerOf
    Mode <- ModeOf
    ServerNode = beta
    ServerKey <- RunKeyOf
    MaxRun = 1
    WrongRuns = {}
    Strays <- BytesDirect
    Reliable = FALSE
    Filtered = {}
SPECIFICATION Spec
INVARIANTS
    FallbackOnlyIfSilent
CHECK_DEADLOCK FALSE
