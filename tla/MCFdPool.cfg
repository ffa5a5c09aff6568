SPECIFICATION Spec
CONSTANTS
    main = main
    worker = worker
    Thread <- MCThread
    Main = main
    HardLimit = 4
    InitialSoft = 3
    Inherited <- MCInherited
    EpochSpan = 2
INVARIANTS LeasesAreCounted GiveUpIsSound CapacityIsCurrent OneRaiser
PROPERTIES CeilingOnlyFalls
