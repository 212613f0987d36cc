SPECIFICATION Spec
CONSTANTS
    Procs = {ialu, muldiv}
    MaxSize = 2
    MaxBranches = 0
    MaxRuns = 1
    MayDie = FALSE
INVARIANT OwnProgramRuns
