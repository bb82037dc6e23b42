CONSTANTS
    c1 = c1  c2 = c2  c3 = c3  c4 = c4
    u1 = u1  u2 = u2  u3 = u3
    l1 = l1  l2 = l2  l3 = l3
    NoLease = NoLease  NoConversation = NoConversation
    Conversation <- MCConversation
    User <- MCUser
    LeaseId <- MCLeaseId
    OwnerOf <- MCOwnerOf
    TTL = 2
    MaxUser = 1
    MaxGlobal = 2
    MaxTime = 4
SYMMETRY MCSymmetry
SPECIFICATION Spec
INVARIANTS TypeOK KeysTellOneStory WithinLimits
PROPERTIES NoTheft ImplementsLeaseAbs
