CONSTANTS
    k1 = k1
    k2 = k2
    t1 = t1
    t2 = t2
    NoValue = NoValue
    Keys <- MCKeys
    Tokens <- MCTokens
    Modules <- MCModules
    MaxPid = 3
    MaxTid = 3
    ResumeOnlyWaiting = FALSE
    ResumeTypeChecked = FALSE

SPECIFICATION Spec
SYMMETRY TokenSymmetry

INVARIANT StartedHandleValid
