SPECIFICATION FairSpec
CONSTANTS
    WordSize = 8388608
    RegSize = 16
    SaSize = 2
    FuncSize = 16
    MemorySize = 60
    Base = 8
    Programs <- MCPrograms
    TestProgram <- MCTestProgram
INVARIANT TypeOK
PROPERTIES ImplementsAssembly ForwardEnds
CHECK_DEADLOCK FALSE
