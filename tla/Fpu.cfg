SPECIFICATION Spec
CONSTANT FRegs = {0, 1}
INVARIANT TypeOK
INVARIANT StickyCovers
INVARIANT FlagsDescribeLast
PROPERTY OverflowFromNaN
