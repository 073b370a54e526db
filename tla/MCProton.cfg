CONSTANTS
    Threads = {t1, t2}
    Sessions = {s1, s2}
    Manager = t1
    Current = {t1, t2}
    Quiet = TRUE
    MaxRetries = 1
    MaxOps = 2
    MaxCalls = 4
    MaxFails = 1
SPECIFICATION Spec
INVARIANT CountedAtHome
INVARIANT AllCounted
 
 
 
CHECK_DEADLOCK FALSE
