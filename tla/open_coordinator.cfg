CONSTANTS
    a = a
    b = b
    e1 = e1
    e2 = e2
    None = None
    Node = {a, b}
    Endpoint = {e1, e2}
    Address <- Addresses
    Prefix <- Prefixes
    Covers <- CoversOf
    Length <- LengthOf
    Request <- Requests
    MaxLease = 2
    MaxTime = 2
    MaxAdvertised = 3
SPECIFICATION Spec
INVARIANTS
    RouteIsBest
PROPERTIES
    RegistrationsAreLeases
    RoutesAreLeases
