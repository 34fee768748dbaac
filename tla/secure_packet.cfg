CONSTANTS
    request = request
    response = response
    old = old
    m1 = m1
    m2 = m2
    Key = {request, response, old}
    KeyDirection <- DirectionOf
    Message = {m1, m2}
    MaxNumber = 3
SPECIFICATION Spec
INVARIANTS
    TypeOK
    NonceUnique
    DeliveredInOrder
PROPERTIES
    ChannelsAreOrdered
