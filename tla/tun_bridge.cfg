CONSTANTS
    a = a
    b = b
    Bridge = {a, b}
    Packet <- Packets
    Peer <- PeerOf
    Traffic <- TrafficOf
    Strays <- StraysOf
    MAX_UDP_PAYLOAD_BYTES = 65507
    MaxQueue = 2
SPECIFICATION FairSpec
INVARIANTS
    SuccessIsAnExchange
    PeerIsNotRejected
PROPERTIES
    PipesAreOrdered
    MainEnds
CHECK_DEADLOCK FALSE
