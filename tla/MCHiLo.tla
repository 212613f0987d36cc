------------------------------ MODULE MCHiLo ------------------------------
(***************************************************************************)
(* Words of two bits: -2 .. 1 signed, so that the smallest number, its     *)
(* division by -1, every sign of a product and every carry out of the      *)
(* lower word occur.                                                       *)
(***************************************************************************)
EXTENDS HiLo

\* One, minus one and the smallest number; zero is there initially.
MCValues == {SignExtend(w) : w \in {1, Half, WordSize - 1}}

\* Bound: states in which both pipelines hold something are checked, but their
\* successors are not explored.  Every instruction of a pipeline is still tried
\* in every state of that pipeline, and in every state of the other one.
OnePipelineBusy ==
    \E p \in Pipelines : lo[p] = ZeroDouble /\ hi[p] = ZeroDouble

\* Bound: of the states in which PMFHL or a parallel shift has left something
\* else in a register than a word, extended to 64 bits, those are explored in
\* which nothing else is held, except by pipeline 1.
Narrow(r) ==
    /\ gpr[r][1] = ZeroDouble
    /\ gpr[r][0] \in UNION { {ZeroExtend(w), SignExtend(w)} : w \in Word }

WideAlone ==
    \A r \in Regs : ~Narrow(r) =>
        /\ lo[0] = ZeroDouble /\ hi[0] = ZeroDouble
        /\ \A s \in Regs : gpr[s][0] = ZeroDouble
        /\ \A s \in Regs \ {r} : gpr[s][1] = ZeroDouble

Explored == OnePipelineBusy /\ WideAlone
=============================================================================
