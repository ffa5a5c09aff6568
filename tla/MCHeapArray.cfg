SPECIFICATION Spec
CONSTANTS
    x = x  y = y  a1 = a1  a2 = a2  b1 = b1  b2 = b2  b3 = b3
    Array = {x, y}
    Allocator = {a1, a2}
    Block = {b1, b2, b3}
    Value = {1, 2}
    MaxSize = 2
    Null = null
    MovedFrom = moved
    Absent = absent
INVARIANTS BlocksAreOwned
PROPERTIES ImplementsValues
