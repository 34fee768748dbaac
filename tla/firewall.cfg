CONSTANTS
    UDP = UDP
    TCP = TCP
    inside = inside
    outside = outside
    other_port = other_port
    None = None
    TransportProtocol = {UDP, TCP}
    Endpoint = {inside, outside, other_port}
    Flow <- Flows
    flow_timeout = 2
    MaxTime = 3
SPECIFICATION Spec
INVARIANTS
    RepliesOnly
PROPERTY
    RepliesAreLeases
