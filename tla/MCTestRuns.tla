----------------------------- MODULE MCTestRuns -----------------------------
EXTENDS TestRuns, TLC

ProcSymmetry == Permutations(Procs)
=============================================================================
