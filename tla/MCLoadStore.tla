--------------------------- MODULE MCLoadStore ---------------------------
(***************************************************************************)
(* Bytes of two bits, so 256 addresses.  Eight bytes of main memory appear *)
(* at 0 and at 32 (0x20000000, scaled); all else faults.                   *)
(***************************************************************************)
EXTENDS LoadStore, FiniteSets

MCCell == [a \in (0 .. 7) \cup (32 .. 39) |-> a % 8]

Zero == [i \in 0 .. 7 |-> 0]

\* The address of the second view.
Mirror == [Zero EXCEPT ![2] = 2]

\* A value whose bytes tell each other apart, negative in every size but one.
Pattern == [i \in 0 .. 7 |-> <<3, 1, 2, 2, 1, 0, 2, 3>>[i + 1]]

MCValues == {Zero, Mirror, Pattern}

MCOffsets == {-1, 0, 1, 4}

\* Bound: successors are explored of states in which registers hold values of
\* MCValues and memory is zero or the pattern but for two bytes.  Every loaded
\* value is still checked.
FewBytes ==
    /\ \A r \in Regs : gpr[r] \in MCValues
    /\ \A f \in FRegs : \E v \in MCValues : \A i \in 0 .. 3 : fpr[f][i] = v[i]
    /\ \E m \in {Zero, Pattern} :
         Cardinality({c \in Cells : memory[c] # m[c]}) <= 2
=============================================================================
