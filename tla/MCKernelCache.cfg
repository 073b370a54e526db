CONSTANTS
    Procs = {p1, p2}
    Keys = {k1}
    Values = {v1, v2}
    Stages <- MCStages
    Binary = "cubin"
    Settings <- MCSettings
    MaxRuns = 3
    MaxEdits = 1
    MaxCrashes = 1
SPECIFICATION FairSpec
INVARIANTS WholeFiles GroupsComplete LoadsBinary
PROPERTIES ImplementsStore RunsEnd
CHECK_DEADLOCK FALSE
