SPECIFICATION Spec
CONSTANTS
    p = p  q = q  u = u  v = v
    Plain = {p, q}
    Optional = {u, v}
    Descriptor = {0, 1, 2}
    Absent = absent
INVARIANTS LeasesAreOwned
PROPERTIES ImplementsOwners
