SPECIFICATION FairSpec
CONSTANTS
    a = a  b = b  c = c  d = d  e = e
    Listing <- MCListing
    Length <- MCLength
    BufferBytes = 30
    WordBytes = 8
    MaxVanish = 2
    Junk = junk
    Error = error
    None = none
PROPERTIES ImplementsStream EveryReadEnds
CHECK_DEADLOCK FALSE
