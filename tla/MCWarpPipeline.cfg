CONSTANTS
    NumDefault = 4
    NumWorker = 4
    Ops <- MCOps
    Programs <- MCPrograms
    MaxNReg = 128
    StateMod = 4
SPECIFICATION FairSpec
INVARIANTS RightPartition
