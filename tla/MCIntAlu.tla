------------------------------ MODULE MCIntAlu ------------------------------
(***************************************************************************)
(* Words of five bits, immediates of two.                                  *)
(***************************************************************************)
EXTENDS IntAlu

\* 0, 1, -1, the extremes of words and of doublewords, the smallest word and the
\* largest zero-extended, and a word below bits that are not its sign.
MCValues == {Bits(i) : i \in {0, 1, -1, 15, -16, 16, 31, 511, -512, 328}}

\* Bound: successors are explored of states in which the registers hold these,
\* and of those in which reg_sa is not zero only if they hold 0, 1 and -1.
FewValues ==
    /\ \A r \in Regs : gpr[r] \in MCValues
    /\ \/ reg_sa = Bits(0)
       \/ /\ reg_sa = Bits(4)
          /\ \A r \in Regs : gpr[r] \in {Bits(i) : i \in {0, 1, -1}}

=============================================================================
