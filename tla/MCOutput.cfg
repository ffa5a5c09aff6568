SPECIFICATION FairSpec
CONSTANTS
    a = a  b = b  c = c  w1 = w1
    Worker = {w1}
    Main = main
    Object = {a, b, c}
    Work <- MCWork
    Ends <- MCEnds
    Setups <- MCSetups
    kMaxPieces = 2
    MaxErrors = 2
    MaxInterrupts = 1
    None = none
INVARIANTS LinesAreWhole InThreadOrder OnlyErrorsLose
PROPERTIES Terminates
CHECK_DEADLOCK FALSE
