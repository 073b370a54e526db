CONSTANTS
    NumDefault = 2
    NumWorker = 3
    Ops <- MCOps
    Programs <- MCPrograms
    MaxNReg = 128
    StateMod = 256
SPECIFICATION FairSpec
INVARIANTS TypeOK RightPartition CapturesIntact GroupBarrierPure PoolNotOverdrawn
PROPERTIES ImplementsForkJoin Termination
