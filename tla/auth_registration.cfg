CONSTANTS
    alpha = alpha
    beta = beta
    key1 = key1
    key2 = key2
    e1 = e1
    e2 = e2
    c1 = c1
    c2 = c2
    impostor = impostor
    stranger = stranger
    None = None
    Node = {alpha, beta}
    Endpoint = {e1, e2}
    Key = {key1, key2}
    Client = {c1, c2, impostor}
    ClientNode <- NodeOf
    ClientKey <- KeyOf
    ClientLease <- LeaseOf
    Authorized <- AuthorizedKeys
    Request <- NoOpenRequests
    ChallengeLifetime = 2
    MaxLease = 2
    MaxTime = 2
    MaxChallenges = 2
    MaxEpoch = 0
SPECIFICATION SystemSpec
INVARIANTS
    RegistrationProves
    PrintedRegistrationIsOwn
SYMMETRY EndpointSymmetry
VIEW WithoutReply
