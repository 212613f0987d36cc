SPECIFICATION Spec
CONSTANTS
    Procs = {ialu, muldiv}
    MaxSize = 2
    MaxBranches = 1
    MaxRuns = 2
    MayDie = TRUE
SYMMETRY ProcSymmetry
INVARIANTS TypeOK UndisturbedRunsOwn CleanBetweenRuns
