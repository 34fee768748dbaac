CONSTANTS
    alpha = alpha
    beta = beta
    a1 = a1
    a2 = a2
    b1 = b1
    x = x
    alias = alias
    y = y
    fx = fx
    fy = fy
    None = None
    Process = {a1, a2, b1}
    Node = {alpha, beta}
    NodeOf <- Nodes
    Path = {x, alias, y}
    File = {fx, fy}
    FileOf <- Files
    Outputs <- PathPairs
    MaxLines = 2
SPECIFICATION Spec
INVARIANTS
    SecretStaysPrivate
    PublicHasPrivate
    SuccessIsDurable
    OnlyGeneratedKeysLoad
    AuthorizationsAreUnambiguous
PROPERTIES
    NothingOverwritten
CHECK_DEADLOCK FALSE
