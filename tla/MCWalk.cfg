SPECIFICATION FairSpec
CONSTANTS
    r = r  a = a  b = b  c = c  f = f  w1 = w1  w2 = w2
    Dir <- MCDir
    File <- MCFile
    Parent <- MCParent
    Operands <- MCOperands
    Real <- MCReal
    Long = {}
    Slot = {w1, w2}
    Main = main
    Forces = {FALSE}
    Faults <- MCFaults
    MaxFds = 2
    MaxFills = 1
    MaxLost = 0
    None = none
INVARIANTS TypeOK NoUseAfterFree RefcountIsExact RemovedLast ExitIsTruthful NothingLeaks OnlyTheBlockedFails
PROPERTIES Terminates
CHECK_DEADLOCK FALSE
