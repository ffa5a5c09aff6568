SPECIFICATION Spec
CONSTANTS
    thief1 = thief1
    thief2 = thief2
    Owner = owner
    Thief <- MCThief
    Empty = empty
    Junk = junk
    kInitCap = 1
    MaxInserts = 4
SYMMETRY Thieves
INVARIANTS TypeOK NothingLost
PROPERTIES ImplementsQueue
