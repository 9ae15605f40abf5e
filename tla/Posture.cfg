SPECIFICATION Spec
CONSTANTS
    us = us
    eu = eu
    mine = mine
    theirs = theirs
    Kinds <- AllKinds
    Base = us
    Elsewhere = eu
    Items = 2
    Policies <- SomePolicies
    Audited = mine
    Foreign = {theirs}
INVARIANTS
    AbsenceEarned
    GapsReported
    
    FloorJust
PROPERTY
    ImplementsListing
