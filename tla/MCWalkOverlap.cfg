SPECIFICATION Spec
CONSTANTS
    r = r  a = a  c = c  e = e  f = f  ra = ra  rc = rc  re = re  rf = rf  w1 = w1  w2 = w2
    Dir <- MCDir
    File <- MCFile
    Parent <- MCParent
    Operands <- MCOperands
    Real <- MCReal
    Long = {c, e, rc, re}
    Slot = {w1, w2}
    Main = main
    Forces = {TRUE, FALSE}
    Faults <- MCFaults
    MaxFds = 12
    MaxFills = 0
    MaxLost = 2
    None = none
INVARIANTS ExitIsTruthful OnlyLostRaces NothingLeaks
CHECK_DEADLOCK FALSE
