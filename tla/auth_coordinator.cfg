CONSTANTS
    alpha = alpha
    beta = beta
    key1 = key1
    key2 = key2
    e1 = e1
    e2 = e2
    None = None
    Node = {alpha, beta}
    Endpoint = {e1, e2}
    Key = {key1, key2}
    Authorized <- AuthorizedKeys
    Request <- Requests
    ChallengeLifetime = 2
    MaxLease = 2
    MaxTime = 3
    MaxChallenges = 2
    MaxEpoch = 1
SPECIFICATION Spec
INVARIANTS
    TypeOK
    OneUse
    ChallengeBinding
    GrantOrder
    RegistryIsLatestGrant
    LookupIsCurrent
PROPERTIES
    RegistrationsAreLeases
    ChallengesAreLeases
