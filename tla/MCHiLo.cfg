SPECIFICATION Spec
CONSTANTS
    WordSize = 4
    LaneSize = 2
    Factors = {1, 2}
    Regs = {1, 2}
    Values <- MCValues
CONSTRAINT Explored
INVARIANT TypeOK
INVARIANT FormatsAgree
PROPERTY ImplementsAccumulator
PROPERTY UpperFromUpper
