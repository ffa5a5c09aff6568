SPECIFICATION FairSpec
CONSTANTS
    Commands <- MCCommands
    Letters <- MCLetters
    DashDash = "--"
    Protected = {"."}
    Kinds <- MCKinds
    Full = {"d"}
    Inputs <- MCInputs
    Newline <- MCNewline
    Capacity = 2
    MaxDenied = 1
    MaxChanges = 2
INVARIANTS AnswerIsTheLines OnlyWhatWasAllowed ExitIsTruthful
PROPERTIES Terminates
CHECK_DEADLOCK FALSE
