----------------------------- MODULE MCEmulator -----------------------------
(***************************************************************************)
(* Programs over 16 registers in a memory of 15 words, with immediates of  *)
(* nine bits.  Programs start at the third word.                           *)
(***************************************************************************)
EXTENDS Emulator

I(op, rs, rt, imm) == [op |-> op, rs |-> rs, rt |-> rt, imm |-> imm]

To(op, index) == [op |-> op, target |-> Base + 4 * index]

Do(op, code) == [op |-> op, code |-> code]

Nop == [op |-> "NOP"]

\* MIPS_REG_A0 and those after it.
A0 == 4
A1 == 5
A2 == 6
A3 == 7

\* main of app.cpp.
MainProgram ==
    << I("ADDI", A0, A0, 10), I("ADDI", A1, A1, 9),
       I("ADDI", A2, A2, 10), I("ADDI", A3, A3, 10),
       I("BEQL", A0, A1, 3),
       Nop,
       I("ADDI", A2, A2, 10), I("ADDI", A3, A3, 10),
       Do("BREAK", 0) >>

\* A loop that ends, and one that does not.
CountDown ==
    << I("ADDI", 0, A0, 2),
       I("ADDI", A0, A0, -1),
       I("BGTZ", A0, 0, -1), I("ADDI", A0, A1, -256),
       Do("SYNC", 1), Do("SYSCALL", 8191) >>

Endless == << I("BLEZ", A0, 0, 1), To("J", 0), I("BNE", A0, A0, -1) >>

\* Transfers in delay slots, taken and not, forwards only.
Forward ==
    << To("JAL", 3), I("ADDI", A0, A1, 255), Do("SYSCALL", 8191),
       I("BEQ", 0, A2, 3), I("BNEL", A1, 0, 2), I("BLEZL", A1, 0, 2),
       I("BGTZL", A1, 0, 3), I("ADDI", A2, A2, 1), I("ADDI", A3, A3, 1) >>

\* Branches-likely, in the delay slots of others, taken and not.
Likely ==
    << I("ADDI", 0, A0, 1), I("BNEL", A0, 0, 1), I("BLEZL", A0, 0, 3),
       I("BGTZL", A0, 0, 2), I("BLEZL", A1, 0, 2), I("BGTZL", A1, 0, 3),
       I("BNEL", A1, 0, 3), I("BGTZL", A2, 0, 2), I("BEQL", A2, 0, 3),
       To("J", 11) >>

MCPrograms == {MainProgram, CountDown, Endless, Forward, Likely}

\* Bound: of the test case "R5900 IALU ADDI", on registers 8 to 11, the
\* instructions that do not accumulate.  Those that do, in a loop that a test
\* process has broken, count to the end of int32_t.
MCTestProgram ==
    << I("ADDI", 8, 10, 150), I("ADDI", 9, 11, 200), I("ADDI", 8, 9, 250) >>
=============================================================================
