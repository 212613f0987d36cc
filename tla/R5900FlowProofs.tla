-------------------------- MODULE R5900FlowProofs --------------------------
(***************************************************************************)
(* Theorems about the control flow of R5900VCPU, for every word size,      *)
(* register set and memory map that the assumptions of R5900Flow allow.    *)
(***************************************************************************)
EXTENDS R5900Flow, TLAPS

-----------------------------------------------------------------------------
(* Lemmas about words and addresses.                                       *)

\* Reducing to the width of a word gives a word.
LEMMA ToWordIsWord == \A i \in Int : ToWord(i) \in Word
  BY WordSizeAssumption DEF ToWord, Word

\* It leaves a word as it is.
LEMMA ToWordOfWord == \A w \in Word : ToWord(w) = w
  BY WordSizeAssumption DEF ToWord, Word

\* The sum of a word and a displacement, reduced, is a word.
LEMMA PlusIsWord == \A a \in Word, i \in Int : Plus(a, i) \in Word
  BY ToWordIsWord DEF Plus, Word

\* The word size and the region size count whole instructions.
LEMMA Sizes ==
    /\ RegionSize \in Nat
    /\ RegionSize >= 4
    /\ RegionSize % 4 = 0
    /\ WordSize = 16 * RegionSize
    /\ WordSize % 4 = 0
  BY WordSizeAssumption, FlowAssumption DEF RegionSize

\* Reducing modulo a multiple of four keeps alignment.
LEMMA ModKeepsAlignment ==
    \A m \in Nat, i \in Int :
        m > 0 /\ m % 4 = 0 /\ i % 4 = 0 => (i % m) % 4 = 0
<1> SUFFICES ASSUME NEW m \in Nat, NEW i \in Int, m > 0, m % 4 = 0, i % 4 = 0
             PROVE  (i % m) % 4 = 0
  OBVIOUS
<1>1. PICK k \in Int : m = 4 * k
  OBVIOUS
<1>2. PICK j \in Int : i = 4 * j
  OBVIOUS
<1> DEFINE q == i \div m
<1>3. q \in Int /\ i % m = i - m * q
  OBVIOUS
<1>4. i % m = 4 * (j - k * q)
  BY <1>1, <1>2, <1>3
<1>5. j - k * q \in Int
  BY <1>1, <1>2, <1>3
<1> HIDE DEF q
<1> QED
  BY <1>4, <1>5

LEMMA PlusKeepsAlignment ==
    \A a \in Word, i \in Int : a % 4 = 0 /\ i % 4 = 0 => Plus(a, i) % 4 = 0
<1> SUFFICES ASSUME NEW a \in Word, NEW i \in Int, a % 4 = 0, i % 4 = 0
             PROVE  Plus(a, i) % 4 = 0
  OBVIOUS
<1>1. a + i \in Int /\ (a + i) % 4 = 0
  BY DEF Word
<1>2. WordSize \in Nat /\ WordSize > 0 /\ WordSize % 4 = 0
  BY Sizes, WordSizeAssumption
<1>3. ((a + i) % WordSize) % 4 = 0
  BY <1>1, <1>2, ModKeepsAlignment
<1> QED
  BY <1>3 DEF Plus, ToWord

\* set_pc leaves an aligned word of the low two regions.
LEMMA EntryIsWord ==
    \A e \in Entries : /\ e % (2 * RegionSize) \in Word
                       /\ (e % (2 * RegionSize)) % 4 = 0
<1> SUFFICES ASSUME NEW e \in Entries
             PROVE  /\ e % (2 * RegionSize) \in Word
                    /\ (e % (2 * RegionSize)) % 4 = 0
  OBVIOUS
<1>1. e \in Nat /\ e % 4 = 0
  BY FlowAssumption, WordSizeAssumption DEF Word
<1> DEFINE m == 2 * RegionSize
<1>2. m \in Nat /\ m > 0 /\ m % 4 = 0 /\ m <= WordSize
  BY Sizes
<1>3. e % m \in 0 .. (m - 1)
  BY <1>1, <1>2
<1>4. e % m \in Word
  BY <1>2, <1>3, WordSizeAssumption DEF Word
<1>5. (e % m) % 4 = 0
  <2> HIDE DEF m
  <2> QED
    BY <1>1, <1>2, ModKeepsAlignment
<1> QED
  BY <1>4, <1>5

\* The target of a jump lies in the region of the jump, a word, and aligned.
LEMMA RegionBaseIsWord ==
    ASSUME NEW a \in Word, NEW t \in Targets
    PROVE  /\ RegionBase(a) + 4 * t \in Word
           /\ (RegionBase(a) + 4 * t) % 4 = 0
<1> DEFINE r == a % RegionSize
           q == a \div RegionSize
<1>1. r \in 0 .. (RegionSize - 1) /\ q \in Int /\ a = RegionSize * q + r
  BY Sizes DEF Word
<1>2. t \in Nat /\ 4 * t < RegionSize
  BY FlowAssumption
<1>3. 0 <= a /\ a < 16 * RegionSize
  BY Sizes DEF Word
<1>4. PICK k \in Nat : RegionSize = 4 * k /\ k > 0
  BY Sizes
<1>5. RegionBase(a) = a - r
  BY DEF RegionBase
<1> HIDE DEF q, r
<1>6. RegionBase(a) = RegionSize * q
  BY <1>1, <1>5, Sizes
<1>7. q < 16
  <2> SUFFICES ASSUME q >= 16 PROVE FALSE
    BY <1>1
  <2>1. RegionSize \in Nat /\ q \in Int /\ RegionSize >= 4
    BY Sizes, <1>1
  <2>2. RegionSize * q >= RegionSize * 16
    BY <2>1
  <2> QED
    BY <2>1, <2>2, <1>1, <1>3
<1>8. q >= 0
  <2> SUFFICES ASSUME q <= -1 PROVE FALSE
    BY <1>1
  <2>1. RegionSize * q <= RegionSize * (-1)
    BY Sizes, <1>1
  <2> QED
    BY <2>1, <1>1, <1>3, Sizes
<1>9. RegionSize * q <= RegionSize * 15 /\ RegionSize * q >= 0
  <2>1. RegionSize \in Nat /\ q \in 0 .. 15
    BY Sizes, <1>1, <1>7, <1>8
  <2> QED
    BY <2>1
<1>10. RegionBase(a) + 4 * t = 4 * (k * q + t)
  BY <1>1, <1>2, <1>4, <1>6
<1>11. k * q + t \in Int
  BY <1>1, <1>2, <1>4
<1>12. (RegionBase(a) + 4 * t) % 4 = 0
  BY <1>10, <1>11
<1>13. RegionBase(a) + 4 * t \in Word
  BY <1>1, <1>2, <1>6, <1>9, Sizes DEF Word
<1> QED
  BY <1>12, <1>13

-----------------------------------------------------------------------------
(* Type correctness.                                                       *)

\* What the shared parts of the handlers leave in the program counters.
LEMMA AdvanceType ==
    TypeOK /\ Advance => pc' \in Word /\ next_pc' \in Word
  BY PlusIsWord DEF TypeOK, Advance

LEMMA JumpType ==
    ASSUME TypeOK, NEW target \in Word, AdvanceThenJump(target)
    PROVE  pc' \in Word /\ next_pc' \in Word
  BY DEF TypeOK, AdvanceThenJump

LEMMA AnnulType ==
    TypeOK /\ AdvanceThenAnnul => pc' \in Word /\ next_pc' \in Word
  BY PlusIsWord DEF TypeOK, AdvanceThenAnnul

LEMMA FetchType ==
    TypeOK /\ Fetch => current_pc' \in Word /\ running' \in BOOLEAN
  BY DEF TypeOK, Fetch

LEMMA LinkType == TypeOK => Link \in Double
<1> SUFFICES ASSUME TypeOK PROVE Link \in Double
  OBVIOUS
<1>1. Plus(pc, 8) \in Word /\ 0 \in Word
  BY PlusIsWord, WordSizeAssumption DEF TypeOK, Word
<1> QED
  BY <1>1 DEF Link, ZeroExtend, Double

LEMMA BranchTargetType ==
    TypeOK => \A imm \in Imms : BranchTarget(imm) \in Word
<1> SUFFICES ASSUME TypeOK, NEW imm \in Imms PROVE BranchTarget(imm) \in Word
  OBVIOUS
<1>1. 4 * imm \in Int /\ pc \in Word
  BY FlowAssumption DEF TypeOK
<1> QED
  BY <1>1, PlusIsWord DEF BranchTarget

\* A branch keeps the types, whatever its condition.
LEMMA BranchType ==
    ASSUME TypeOK, NEW imm \in Imms, NEW cond,
           BranchOn(cond, imm) \/ BranchLikelyOn(cond, imm)
    PROVE  TypeOK'
<1>1. Fetch /\ UNCHANGED gpr
  BY DEF BranchOn, BranchLikelyOn
<1>2. \/ AdvanceThenJump(BranchTarget(imm))
      \/ Advance
      \/ AdvanceThenAnnul
  BY DEF BranchOn, BranchLikelyOn
<1>3. pc' \in Word /\ next_pc' \in Word
  BY <1>2, AdvanceType, AnnulType, JumpType, BranchTargetType
<1> QED
  BY <1>1, <1>3, FetchType DEF TypeOK

LEMMA JumpTargetType ==
    TypeOK => \A target \in Targets : JumpTarget(target) \in Word
  BY RegionBaseIsWord DEF TypeOK, JumpTarget

\* The constructor and set_pc establish the types.
LEMMA InitType == Init => TypeOK
<1> SUFFICES ASSUME Init PROVE TypeOK
  OBVIOUS
<1>1. PICK addr \in Entries : /\ pc = addr % (2 * RegionSize)
                              /\ next_pc = Plus(addr % (2 * RegionSize), 4)
  BY DEF Init
<1>2. pc \in Word /\ next_pc \in Word
  BY <1>1, EntryIsWord, PlusIsWord
<1>3. 0 \in Word
  BY WordSizeAssumption DEF Word
<1>4. gpr \in [Regs -> Double]
  BY <1>3 DEF Init, ZeroDouble, Double
<1> QED
  BY <1>2, <1>3, <1>4 DEF Init, TypeOK

\* Every handler keeps them.
LEMMA NextType == TypeOK /\ [Next]_vars => TypeOK'
<1> SUFFICES ASSUME TypeOK, [Next]_vars PROVE TypeOK'
  OBVIOUS
<1>1. ASSUME NEW target \in Targets, J(target) PROVE TypeOK'
  BY <1>1, JumpTargetType, JumpType, FetchType DEF J, TypeOK
<1>2. ASSUME NEW target \in Targets, JAL(target) PROVE TypeOK'
  <2>1. pc' \in Word /\ next_pc' \in Word
    BY <1>2, JumpTargetType, JumpType DEF JAL
  <2>2. gpr' \in [Regs -> Double]
    BY <1>2, LinkType, FlowAssumption DEF JAL, TypeOK
  <2> QED
    BY <1>2, <2>1, <2>2, FetchType DEF JAL, TypeOK
<1>3. ASSUME NEW rs \in Regs, NEW rt \in Regs, NEW imm \in Imms,
             \/ BEQ(rs, rt, imm) \/ BNE(rs, rt, imm)
             \/ BEQL(rs, rt, imm) \/ BNEL(rs, rt, imm)
      PROVE  TypeOK'
  BY <1>3, BranchType DEF BEQ, BNE, BEQL, BNEL
<1>4. ASSUME NEW rs \in Regs, NEW imm \in Imms,
             \/ BLEZ(rs, imm) \/ BGTZ(rs, imm)
             \/ BLEZL(rs, imm) \/ BGTZL(rs, imm)
      PROVE  TypeOK'
  BY <1>4, BranchType DEF BLEZ, BGTZ, BLEZL, BGTZL
<1>5. ASSUME NEW rs \in Regs, JR(rs) PROVE TypeOK'
  <2>1. gpr[rs].lo \in Word
    BY DEF TypeOK, Double
  <2> QED
    BY <1>5, <2>1, JumpType, FetchType DEF JR, TypeOK
<1>6. ASSUME NEW rs \in Regs, NEW rd \in Regs, JALR(rs, rd) PROVE TypeOK'
  <2>1. gpr' \in [Regs -> Double]
    BY <1>6, LinkType DEF JALR, TypeOK
  <2>2. gpr'[rs].lo \in Word
    BY <2>1 DEF Double
  <2>3. pc' \in Word /\ next_pc' \in Word
    BY <1>6, <2>2, JumpType DEF JALR
  <2> QED
    BY <1>6, <2>1, <2>3, FetchType DEF JALR, TypeOK
<1>7. ASSUME NEW r \in Regs, NEW d \in Results, Compute(r, d) PROVE TypeOK'
  <2>1. gpr' \in [Regs -> Double]
    BY <1>7, FlowAssumption DEF Compute, TypeOK
  <2> QED
    BY <1>7, <2>1, AdvanceType, FetchType DEF Compute, TypeOK
<1>8. CASE NoResult
  BY <1>8, AdvanceType, FetchType DEF NoResult, TypeOK
<1>9. CASE Crash
  BY <1>9, AdvanceType DEF Crash, TypeOK
<1>10. ASSUME NEW addr \in Entries, set_pc(addr) PROVE TypeOK'
  BY <1>10, EntryIsWord, PlusIsWord DEF set_pc, TypeOK
<1>11. CASE UNCHANGED vars
  BY <1>11 DEF vars, TypeOK
<1> QED
  BY <1>1, <1>2, <1>3, <1>4, <1>5, <1>6, <1>7, <1>8, <1>9, <1>10, <1>11
     DEF Next, tick

\* The program counters of tick and set_pc are 32-bit words, and the registers
\* 64-bit values, in every run of every program.
THEOREM TypeCorrect == Spec => []TypeOK
<1>1. Init => TypeOK
  BY InitType
<1>2. TypeOK /\ [Next]_vars => TypeOK'
  BY NextType
<1> QED
  BY <1>1, <1>2, PTL DEF Spec

-----------------------------------------------------------------------------
(* Alignment.                                                              *)

Aligned == pc % 4 = 0 /\ next_pc % 4 = 0

LEMMA AdvanceAligned == TypeOK /\ Aligned /\ Advance => Aligned'
  BY PlusKeepsAlignment DEF TypeOK, Aligned, Advance

LEMMA AnnulAligned == TypeOK /\ Aligned /\ AdvanceThenAnnul => Aligned'
<1> SUFFICES ASSUME TypeOK, Aligned, AdvanceThenAnnul PROVE Aligned'
  OBVIOUS
<1>1. Plus(next_pc, 4) \in Word /\ Plus(next_pc, 4) % 4 = 0
  BY PlusIsWord, PlusKeepsAlignment DEF TypeOK, Aligned
<1>2. Plus(Plus(next_pc, 4), 4) % 4 = 0
  BY <1>1, PlusKeepsAlignment
<1> QED
  BY <1>1, <1>2 DEF Aligned, AdvanceThenAnnul

LEMMA JumpAligned ==
    ASSUME Aligned, NEW target, target % 4 = 0, AdvanceThenJump(target)
    PROVE  Aligned'
  BY DEF Aligned, AdvanceThenJump

LEMMA BranchAligned ==
    ASSUME TypeOK, Aligned, NEW imm \in Imms, NEW cond,
           BranchOn(cond, imm) \/ BranchLikelyOn(cond, imm)
    PROVE  Aligned'
<1>1. 4 * imm \in Int /\ (4 * imm) % 4 = 0
  BY FlowAssumption
<1>2. BranchTarget(imm) % 4 = 0
  BY <1>1, PlusKeepsAlignment DEF BranchTarget, TypeOK, Aligned
<1>3. \/ AdvanceThenJump(BranchTarget(imm))
      \/ Advance
      \/ AdvanceThenAnnul
  BY DEF BranchOn, BranchLikelyOn
<1> QED
  BY <1>2, <1>3, JumpAligned, AdvanceAligned, AnnulAligned

\* Only a register jump spoils the alignment of the program counters.
LEMMA NextAligned ==
    ASSUME TypeOK, Next, Aligned, ~ Aligned'
    PROVE  pc' % 4 = 0 /\ \E r \in Regs : next_pc' = gpr[r].lo
<1>1. ASSUME NEW target \in Targets, J(target) \/ JAL(target) PROVE FALSE
  <2>1. JumpTarget(target) % 4 = 0
    BY RegionBaseIsWord DEF JumpTarget, TypeOK
  <2> QED
    BY <1>1, <2>1, JumpAligned DEF J, JAL
<1>2. ASSUME NEW rs \in Regs, NEW rt \in Regs, NEW imm \in Imms,
             \/ BEQ(rs, rt, imm) \/ BNE(rs, rt, imm)
             \/ BEQL(rs, rt, imm) \/ BNEL(rs, rt, imm)
      PROVE  FALSE
  BY <1>2, BranchAligned DEF BEQ, BNE, BEQL, BNEL
<1>3. ASSUME NEW rs \in Regs, NEW imm \in Imms,
             \/ BLEZ(rs, imm) \/ BGTZ(rs, imm)
             \/ BLEZL(rs, imm) \/ BGTZL(rs, imm)
      PROVE  FALSE
  BY <1>3, BranchAligned DEF BLEZ, BGTZ, BLEZL, BGTZL
<1>4. ASSUME NEW rs \in Regs, JR(rs)
      PROVE  pc' % 4 = 0 /\ \E r \in Regs : next_pc' = gpr[r].lo
  BY <1>4 DEF JR, AdvanceThenJump, Aligned
<1>5. ASSUME NEW rs \in Regs, NEW rd \in Regs, JALR(rs, rd)
      PROVE  pc' % 4 = 0 /\ \E r \in Regs : next_pc' = gpr[r].lo
  <2>1. Plus(pc, 8) % 4 = 0
    BY PlusKeepsAlignment DEF TypeOK, Aligned
  <2>2. CASE rs = rd
    <3>1. next_pc' = Plus(pc, 8) /\ pc' = next_pc
      BY <1>5, <2>2 DEF JALR, AdvanceThenJump, Link, ZeroExtend, TypeOK
    <3> QED
      BY <2>1, <3>1 DEF Aligned
  <2>3. CASE rs # rd
    BY <1>5, <2>3 DEF JALR, AdvanceThenJump, TypeOK, Aligned
  <2> QED
    BY <2>2, <2>3
<1>6. ASSUME NEW r \in Regs, NEW d \in Results, Compute(r, d) PROVE FALSE
  BY <1>6, AdvanceAligned DEF Compute
<1>7. CASE NoResult \/ Crash
  BY <1>7, AdvanceAligned DEF NoResult, Crash
<1>8. ASSUME NEW addr \in Entries, set_pc(addr) PROVE FALSE
  BY <1>8, EntryIsWord, PlusKeepsAlignment DEF set_pc, Aligned
<1> QED
  BY <1>1, <1>2, <1>3, <1>4, <1>5, <1>6, <1>7, <1>8 DEF Next, tick

\* A program counter of tick leaves alignment only through the register of a
\* JR or a JALR, after an aligned delay slot.
THEOREM MisalignmentSource == Spec => MisalignedByRegister
<1>1. TypeOK /\ [Next]_vars =>
        [ /\ pc % 4 = 0 /\ next_pc % 4 = 0
          /\ ~ (pc' % 4 = 0 /\ next_pc' % 4 = 0)
          => pc' % 4 = 0 /\ \E r \in Regs : next_pc' = gpr[r].lo ]_vars
  BY NextAligned DEF Aligned
<1> QED
  BY <1>1, TypeCorrect, PTL DEF Spec, MisalignedByRegister

-----------------------------------------------------------------------------
(* Refinement.                                                             *)

\* Control goes to next_pc, whether a transfer is in flight or not.
LEMMA ReachedIsNextPc == Arch!Reached = {next_pc}
  BY DEF Arch!Reached, InFlight, Arch!Plus, Arch!ToWord, Plus, ToWord

LEMMA AdvanceIsSequential == Advance => Arch!Sequential
  BY ReachedIsNextPc DEF Advance, Arch!Sequential, InFlight, Plus, ToWord

LEMMA JumpIsTransfer ==
    ASSUME NEW target, AdvanceThenJump(target)
    PROVE  Arch!TransferTo(target)
  BY ReachedIsNextPc
     DEF AdvanceThenJump, Arch!TransferTo, InFlight, Arch!Plus, Arch!ToWord,
         Plus, ToWord

LEMMA AnnulIsNullify == AdvanceThenAnnul => Arch!Nullify
  BY ReachedIsNextPc
     DEF AdvanceThenAnnul, Arch!Nullify, InFlight, Arch!Plus, Arch!ToWord,
         Plus, ToWord

LEMMA FetchIsExecuting == TypeOK /\ Fetch => Arch!Executing /\ pc \in Mapped
<1> SUFFICES ASSUME TypeOK, Fetch PROVE Arch!Executing /\ pc \in Mapped
  OBVIOUS
<1>1. Arch!Executing
  BY DEF Fetch, Fetchable, Arch!Executing, Arch!Fetchable
<1>2. (pc + 0) \in Mapped
  BY DEF Fetch, Fetchable
<1>3. pc + 0 = pc
  BY DEF TypeOK, Word
<1> QED
  BY <1>1, <1>2, <1>3

\* The zero-extended link is the sign-extended return address, because only
\* the lower half of the address space is mapped.
LEMMA LinkIsReturnAddress ==
    TypeOK /\ pc \in Mapped => Link = Arch!ReturnAddress
<1> SUFFICES ASSUME TypeOK, pc \in Mapped PROVE Link = Arch!ReturnAddress
  OBVIOUS
<1>1. pc + 8 \in Word /\ pc + 8 < Half
  BY MapAssumption, WordSizeAssumption DEF TypeOK, Word, Half
<1>2. ToWord(pc + 8) = pc + 8
  BY <1>1, ToWordOfWord
<1>3. ~ (pc + 8 >= WordSize \div 2)
  BY <1>1, WordSizeAssumption DEF Half, Word
<1>4. (pc + 8) % WordSize = pc + 8
  BY <1>2 DEF ToWord
<1> QED
  BY <1>3, <1>4
     DEF Link, ZeroExtend, Plus, ToWord, Arch!ReturnAddress, Arch!SignExtend,
         Arch!Negative, Arch!Half, Arch!Plus, Arch!ToWord

\* The region of a mapped jump is that of its delay slot.
LEMMA JumpTargetIsRegionTarget ==
    ASSUME TypeOK, pc \in Mapped, NEW t \in Targets
    PROVE  JumpTarget(t) = Arch!RegionTarget(t)
<1>1. pc + 4 \in Word
  BY MapAssumption, WordSizeAssumption DEF TypeOK, Word, Half
<1>2. (pc + 4) % WordSize = pc + 4
  BY <1>1, ToWordOfWord DEF ToWord
<1>3. RegionBase(pc + 4) = RegionBase(pc)
  BY MapAssumption
<1> QED
  BY <1>2, <1>3
     DEF JumpTarget, Arch!RegionTarget, RegionBase, RegionSize,
         Arch!RegionBase, Arch!RegionSize, Arch!Plus, Arch!ToWord

LEMMA BranchTargetIsArch ==
    \A imm \in Imms : BranchTarget(imm) = Arch!BranchTarget(imm)
  BY DEF BranchTarget, Arch!BranchTarget, Plus, ToWord, Arch!Plus, Arch!ToWord

LEMMA AtMostZeroIsArch == \A d : AtMostZero(d) = Arch!AtMostZero(d)
  BY DEF AtMostZero, Arch!AtMostZero, Negative, Arch!Negative, Half,
         Arch!Half, ZeroDouble, Arch!ZeroDouble

\* A branch that tests a condition of the architecture is one of its branches.
LEMMA BranchIsBranch ==
    ASSUME TypeOK, NEW c \in Arch!Conditions, NEW rs \in Regs, NEW rt \in Regs,
           NEW imm \in Imms, BranchOn(Arch!Condition(c, rs, rt), imm)
    PROVE  Arch!Branch
<1>1. Arch!Executing /\ UNCHANGED gpr
  BY FetchIsExecuting DEF BranchOn
<1>2. CASE Arch!Condition(c, rs, rt)
  <2>1. AdvanceThenJump(Arch!BranchTarget(imm))
    BY <1>2, BranchTargetIsArch DEF BranchOn
  <2>2. Arch!TransferTo(Arch!BranchTarget(imm))
    BY <2>1, JumpIsTransfer
  <2> QED
    BY <1>1, <1>2, <2>2 DEF Arch!Branch
<1>3. CASE ~ Arch!Condition(c, rs, rt)
  <2>1. Arch!Sequential
    BY <1>3, AdvanceIsSequential DEF BranchOn
  <2> QED
    BY <1>1, <1>3, <2>1 DEF Arch!Branch
<1> QED
  BY <1>2, <1>3

LEMMA BranchLikelyIsBranchLikely ==
    ASSUME TypeOK, NEW c \in Arch!Conditions, NEW rs \in Regs, NEW rt \in Regs,
           NEW imm \in Imms, BranchLikelyOn(Arch!Condition(c, rs, rt), imm)
    PROVE  Arch!BranchLikely
<1>1. Arch!Executing /\ UNCHANGED gpr
  BY FetchIsExecuting DEF BranchLikelyOn
<1>2. CASE Arch!Condition(c, rs, rt)
  <2>1. AdvanceThenJump(Arch!BranchTarget(imm))
    BY <1>2, BranchTargetIsArch DEF BranchLikelyOn
  <2>2. Arch!TransferTo(Arch!BranchTarget(imm))
    BY <2>1, JumpIsTransfer
  <2> QED
    BY <1>1, <1>2, <2>2 DEF Arch!BranchLikely
<1>3. CASE ~ Arch!Condition(c, rs, rt)
  <2>1. Arch!Nullify
    BY <1>3, AnnulIsNullify DEF BranchLikelyOn
  <2> QED
    BY <1>1, <1>3, <2>1 DEF Arch!BranchLikely
<1> QED
  BY <1>2, <1>3

\* The conditions that the handlers test.
LEMMA Tests ==
    \A rs, rt \in Regs :
        /\ Arch!Condition("eq", rs, rt) = (gpr[rs] = gpr[rt])
        /\ Arch!Condition("ne", rs, rt) = (gpr[rs] # gpr[rt])
        /\ Arch!Condition("lez", rs, rt) = AtMostZero(gpr[rs])
        /\ Arch!Condition("gtz", rs, rt) = ~ AtMostZero(gpr[rs])
  BY AtMostZeroIsArch DEF Arch!Condition

-----------------------------------------------------------------------------
LEMMA InitRefines == Init => Arch!AInit
<1> SUFFICES ASSUME Init PROVE Arch!AInit
  OBVIOUS
<1>1. \E e \in Entries : pc = e % (2 * RegionSize)
  BY DEF Init
<1>2. InFlight = {}
  BY DEF Init, InFlight
<1> QED
  BY <1>1, <1>2 DEF Init, Arch!AInit, RegionSize, Arch!RegionSize,
                    ZeroDouble, Arch!ZeroDouble

LEMMA NextRefines == TypeOK /\ [Next]_vars => [Arch!ANext]_(Arch!avars)
<1> SUFFICES ASSUME TypeOK, [Next]_vars
             PROVE  Arch!ANext \/ UNCHANGED Arch!avars
  OBVIOUS
<1>1. ASSUME NEW t \in Targets, J(t) \/ JAL(t) PROVE Arch!Jump
  <2>1. Arch!Executing /\ pc \in Mapped
    BY <1>1, FetchIsExecuting DEF J, JAL
  <2>2. Arch!TransferTo(Arch!RegionTarget(t))
    BY <1>1, <2>1, JumpTargetIsRegionTarget, JumpIsTransfer DEF J, JAL
  <2>3. UNCHANGED gpr \/ Arch!Write(RA, Arch!ReturnAddress)
    BY <1>1, <2>1, LinkIsReturnAddress DEF J, JAL, Arch!Write
  <2> QED
    BY <2>1, <2>2, <2>3 DEF Arch!Jump
<1>2. ASSUME NEW rs \in Regs, NEW rt \in Regs, NEW imm \in Imms,
             \/ BEQ(rs, rt, imm) \/ BNE(rs, rt, imm)
             \/ BLEZ(rs, imm) \/ BGTZ(rs, imm)
      PROVE  Arch!Branch
  <2>1. PICK c \in Arch!Conditions : BranchOn(Arch!Condition(c, rs, rt), imm)
    BY <1>2, Tests DEF BEQ, BNE, BLEZ, BGTZ, Arch!Conditions
  <2> QED
    BY <2>1, BranchIsBranch
<1>3. ASSUME NEW rs \in Regs, NEW rt \in Regs, NEW imm \in Imms,
             \/ BEQL(rs, rt, imm) \/ BNEL(rs, rt, imm)
             \/ BLEZL(rs, imm) \/ BGTZL(rs, imm)
      PROVE  Arch!BranchLikely
  <2>1. PICK c \in Arch!Conditions :
               BranchLikelyOn(Arch!Condition(c, rs, rt), imm)
    BY <1>3, Tests DEF BEQL, BNEL, BLEZL, BGTZL, Arch!Conditions
  <2> QED
    BY <2>1, BranchLikelyIsBranchLikely
<1>4. ASSUME NEW rs \in Regs, JR(rs) PROVE Arch!RegisterJump
  BY <1>4, FetchIsExecuting, JumpIsTransfer DEF JR, Arch!RegisterJump
<1>5. ASSUME NEW rs \in Regs, NEW rd \in Regs, JALR(rs, rd)
      PROVE  Arch!RegisterCall
  <2>1. Arch!Executing /\ pc \in Mapped
    BY <1>5, FetchIsExecuting DEF JALR
  <2>2. Arch!Write(rd, Arch!ReturnAddress)
    BY <1>5, <2>1, LinkIsReturnAddress DEF JALR, Arch!Write
  <2>3. Arch!TransferTo(gpr'[rs].lo)
    BY <1>5, JumpIsTransfer DEF JALR
  <2>4. CASE rs = rd
    <3>1. gpr'[rs].lo \in Word
      BY <1>5, NextType DEF Next, tick, TypeOK, Double
    <3> QED
      BY <2>1, <2>2, <2>3, <2>4, <3>1 DEF Arch!RegisterCall, Arch!Word, Word
  <2>5. CASE rs # rd
    <3>1. gpr'[rs].lo = gpr[rs].lo
      BY <1>5, <2>5 DEF JALR, TypeOK
    <3> QED
      BY <2>1, <2>2, <2>3, <2>5, <3>1 DEF Arch!RegisterCall
  <2> QED
    BY <2>4, <2>5
<1>6. ASSUME NEW r \in Regs, NEW d \in Results, Compute(r, d) PROVE Arch!Plain
  <2>1. Arch!Executing /\ Arch!Sequential
    BY <1>6, FetchIsExecuting, AdvanceIsSequential DEF Compute
  <2>2. Arch!Write(r, d)
    BY <1>6 DEF Compute, Arch!Write
  <2> QED
    BY <2>1, <2>2 DEF Arch!Plain
<1>7. ASSUME NoResult PROVE Arch!Plain
  <2>1. Arch!Executing /\ Arch!Sequential
    BY <1>7, FetchIsExecuting, AdvanceIsSequential DEF NoResult
  <2>2. UNCHANGED gpr
    BY <1>7 DEF NoResult
  <2> QED
    BY <2>1, <2>2 DEF Arch!Plain
<1>8. ASSUME Crash PROVE Arch!Fault
  BY <1>8, AdvanceIsSequential
     DEF Crash, Fetchable, Arch!Fault, Arch!Fetchable
<1>9. ASSUME NEW addr \in Entries, set_pc(addr) PROVE Arch!Start
  BY <1>9 DEF set_pc, Arch!Start, InFlight, RegionSize, Arch!RegionSize
<1>10. CASE UNCHANGED vars
  BY <1>10 DEF vars, Arch!avars, InFlight, Plus, ToWord
<1>11. ASSUME NEW rs \in Regs, NEW imm \in Imms,
              \/ BLEZ(rs, imm) \/ BGTZ(rs, imm)
              \/ BLEZL(rs, imm) \/ BGTZL(rs, imm)
       PROVE  Arch!Branch \/ Arch!BranchLikely
  BY <1>2, <1>3, <1>11
<1> QED
  BY <1>1, <1>2, <1>3, <1>4, <1>5, <1>6, <1>7, <1>8, <1>9, <1>10, <1>11
     DEF Next, tick, Arch!ANext

\* The three program counters of R5900VCPU implement the delay slots, the
\* nullified slots and the links of the architecture.
THEOREM FlowImplementsArch == Spec => ImplementsArch
<1>1. Init => Arch!AInit
  BY InitRefines
<1>2. TypeOK /\ [Next]_vars => [Arch!ANext]_(Arch!avars)
  BY NextRefines
<1> QED
  BY <1>1, <1>2, TypeCorrect, PTL DEF Spec, ImplementsArch, Arch!ASpec

=============================================================================
