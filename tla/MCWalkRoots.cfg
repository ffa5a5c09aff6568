SPECIFICATION Spec
CONSTANTS
    r = r  q = q  a = a  w1 = w1  w2 = w2
    Dir <- MCDir
    File = {}
    Parent <- MCParent
    Operands <- MCOperands
    Real <- MCReal
    Long = {}
    Slot = {w1, w2}
    Main = main
    Forces = {FALSE}
    Faults <- MCFaults
    MaxFds = 1
    MaxFills = 0
    MaxLost = 0
    None = none
INVARIANTS TransientIsRetried
CHECK_DEADLOCK FALSE
