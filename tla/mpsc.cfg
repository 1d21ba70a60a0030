CONSTANTS
    p1 = p1
    p2 = p2
    o1 = o1
    o2 = o2
    o3 = o3
    o4 = o4
    Producers = {p1, p2}
    Objects = {o1, o2, o3, o4}
    Size = 2
    Word = 6
    NULL = NULL
SPECIFICATION FairSpec
INVARIANTS
    TypeOK
    NoOverwrite
    ExclusiveSlots
    DeliveredInOrder
    NoAbandonedPosition
PROPERTIES
    ImplementsMailbox
    PushReturns
    PublishedIsDelivered
