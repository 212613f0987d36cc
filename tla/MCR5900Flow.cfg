SPECIFICATION Spec
CONSTANTS
    WordSize = 256
    Regs = {r0, ra}
    RA = ra
    Mapped <- MCMapped
    Entries <- MCEntries
    Results <- MCResults
    Imms <- MCImms
    Targets = {0, 1}
INVARIANT TypeOK
PROPERTIES ImplementsArch MisalignedByRegister
CHECK_DEADLOCK FALSE
