SPECIFICATION FairSpec
CONSTANTS
    r = r  a = a  b = b  c = c  w1 = w1  w2 = w2
    Dir <- MCDir
    File = {}
    Parent <- MCParent
    Operands <- MCOperands
    Real <- MCReal
    Long = {a, c}
    Slot = {w1, w2}
    Main = main
    Forces = {FALSE}
    Faults <- MCFaults
    MaxFds = 1
    MaxFills = 0
    MaxLost = 0
    None = none
PROPERTIES Terminates
CHECK_DEADLOCK FALSE
