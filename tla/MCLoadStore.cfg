SPECIFICATION Spec
CONSTANTS
    ByteSize = 4
    Regs = {r1, r2}
    FRegs = {f1}
    Offsets <- MCOffsets
    Cell <- MCCell
    Values <- MCValues
CONSTRAINT FewBytes
INVARIANT TypeOK
PROPERTY ImplementsDoublewords
CHECK_DEADLOCK FALSE
