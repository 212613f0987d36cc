SPECIFICATION Spec
CONSTANTS
    WordBits = 5
    ImmBits = 2
    FuncBits = 1
    LaneBits = 1
    ByteShift = 1
    Fallback = TRUE
    Regs = {r1, r2}
    Values <- MCValues
CONSTRAINT FewValues
INVARIANT DifferenceStored
