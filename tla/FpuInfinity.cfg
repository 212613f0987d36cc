SPECIFICATION Spec
CONSTANT FRegs = {0, 1}
PROPERTY InfinityClamped
