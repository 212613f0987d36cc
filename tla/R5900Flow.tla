----------------------------- MODULE R5900Flow -----------------------------
(***************************************************************************)
(* The control flow of R5900VCPU (src/src/r5900_vcpu.cpp): the three       *)
(* program counters, set_pc, the prologue of tick, and every handler that  *)
(* writes next_pc or pc.  The delay slot is the distance between pc and    *)
(* next_pc: a tick executes pc, moves next_pc to pc, and a jump overwrites *)
(* the new next_pc only.                                                   *)
(*                                                                         *)
(* Memory is abstracted: a fetch from a mapped address may return any      *)
(* instruction, and a handler that does not touch the program counters may *)
(* leave any value of Results in any register.  Register 0 is a register   *)
(* like the others, as in the code.                                        *)
(***************************************************************************)
EXTENDS Words

CONSTANTS Regs,     \* the general-purpose registers
          RA,       \* register 31, which JAL links
          Mapped,   \* the guest byte addresses the MMU maps
          Entries,  \* arguments of set_pc
          Results,  \* values other handlers may leave in a register
          Imms,     \* decode_imm_i16 of a branch
          Targets   \* decode_target of a jump

VARIABLES pc, current_pc, next_pc, gpr, running

vars == <<pc, current_pc, next_pc, gpr, running>>

\* The 16 regions that the top four bits of an address select.
RegionSize == WordSize \div 16

\* a & 0xF0000000
RegionBase(a) == a - (a % RegionSize)

\* Addresses are byte addresses, a region holds whole instructions, RA is a
\* register, a decoded target fits its field, and what a handler writes is a
\* 64-bit value.
ASSUME FlowAssumption ==
    /\ WordSize % 64 = 0
    /\ RA \in Regs
    /\ Entries \subseteq Word /\ \A e \in Entries : e % 4 = 0
    /\ Results \subseteq Double
    /\ Imms \subseteq Int
    /\ Targets \subseteq Nat /\ \A t \in Targets : 4 * t < RegionSize

\* The memory map of mmu.h lies in the lower half of the address space, and
\* none of its areas comes within two instructions of the end of a region.
ASSUME MapAssumption ==
    \A a \in Mapped :
        /\ a \in Word
        /\ a + 8 < Half
        /\ RegionBase(a + 4) = RegionBase(a)

\* MMU::read32: all four bytes are mapped, at any alignment.
Fetchable(a) == \A i \in 0 .. 3 : (a + i) \in Mapped
-----------------------------------------------------------------------------
(* The parts of tick.                                                      *)

\* current_pc = pc, and the fetch succeeds.
Fetch ==
    /\ running
    /\ Fetchable(pc)
    /\ current_pc' = pc
    /\ UNCHANGED running

\* A counter wider than the 32 bits of the source.
WideAdvance == pc' = next_pc /\ next_pc' = next_pc + 4

\* pc = next_pc; next_pc += 4
Advance == pc' = next_pc /\ next_pc' = Plus(next_pc, 4)

\* The same, and the handler then overwrites next_pc.
AdvanceThenJump(target) == pc' = next_pc /\ next_pc' = target

\* next_pc is computed before pc has moved on.
StaleAnnul ==
    /\ pc' = Plus(next_pc, 4)
    /\ next_pc' = Plus(next_pc, 4)

\* A branch-likely that is not taken: pc = next_pc; next_pc = pc + 4.
AdvanceThenAnnul ==
    /\ pc' = Plus(next_pc, 4)
    /\ next_pc' = Plus(Plus(next_pc, 4), 4)

\* (current_pc & 0xF0000000) | (target << 2)
JumpTarget(target) == RegionBase(pc) + 4 * target

\* The displacement in halfwords.
HalfwordTarget(imm) == Plus(pc, 2 * imm)

\* current_pc + imm, imm already shifted: relative to the branch itself.
BranchTarget(imm) == Plus(pc, 4 * imm)

\* current_pc + 8, a uint32_t assigned to a u64.
Link == ZeroExtend(Plus(pc, 8))

BranchOn(cond, imm) ==
    /\ Fetch
    /\ IF cond THEN AdvanceThenJump(BranchTarget(imm)) ELSE Advance
    /\ UNCHANGED gpr

BranchLikelyOn(cond, imm) ==
    /\ Fetch
    /\ IF cond THEN AdvanceThenJump(BranchTarget(imm)) ELSE AdvanceThenAnnul
    /\ UNCHANGED gpr
-----------------------------------------------------------------------------
(* One action for each handler.                                            *)

J(target) ==
    /\ Fetch
    /\ AdvanceThenJump(JumpTarget(target))
    /\ UNCHANGED gpr

JAL(target) ==
    /\ Fetch
    /\ AdvanceThenJump(JumpTarget(target))
    /\ gpr' = [gpr EXCEPT ![RA] = Link]

BEQ(rs, rt, imm) == BranchOn(gpr[rs] = gpr[rt], imm)

BNE(rs, rt, imm) == BranchOn(gpr[rs] # gpr[rt], imm)

BLEZ(rs, imm) == BranchOn(AtMostZero(gpr[rs]), imm)

BGTZ(rs, imm) == BranchOn(~ AtMostZero(gpr[rs]), imm)

BEQL(rs, rt, imm) == BranchLikelyOn(gpr[rs] = gpr[rt], imm)

BNEL(rs, rt, imm) == BranchLikelyOn(gpr[rs] # gpr[rt], imm)

BLEZL(rs, imm) == BranchLikelyOn(AtMostZero(gpr[rs]), imm)

BGTZL(rs, imm) == BranchLikelyOn(~ AtMostZero(gpr[rs]), imm)

JR(rs) ==
    /\ Fetch
    /\ AdvanceThenJump(gpr[rs].lo)
    /\ UNCHANGED gpr

\* The link is written before the target is read.
JALR(rs, rd) ==
    /\ Fetch
    /\ gpr' = [gpr EXCEPT ![rd] = Link]
    /\ AdvanceThenJump(gpr'[rs].lo)

\* A handler that leaves the program counters alone and writes a register.
Compute(r, d) ==
    /\ Fetch
    /\ Advance
    /\ gpr' = [gpr EXCEPT ![r] = d]

\* NOP, a store, and the handlers that do nothing (SYSCALL, BREAK, ...).
NoResult ==
    /\ Fetch
    /\ Advance
    /\ UNCHANGED gpr

\* read32 of an address that is not mapped ends the process, after the
\* prologue has moved the program counters.
Crash ==
    /\ running
    /\ ~ Fetchable(pc)
    /\ current_pc' = pc
    /\ Advance
    /\ running' = FALSE
    /\ UNCHANGED gpr

\* set_pc: pc = addr & 0x1FFFFFFF; next_pc = pc + 4
set_pc(addr) ==
    /\ running
    /\ pc' = addr % (2 * RegionSize)
    /\ next_pc' = Plus(addr % (2 * RegionSize), 4)
    /\ UNCHANGED <<current_pc, gpr, running>>
-----------------------------------------------------------------------------
\* A new R5900VCPU, all zero, after the set_pc that both callers (main and
\* run_program) make before the first tick.
Init ==
    /\ \E addr \in Entries :
         /\ pc = addr % (2 * RegionSize)
         /\ next_pc = Plus(addr % (2 * RegionSize), 4)
    /\ current_pc = 0
    /\ gpr = [r \in Regs |-> ZeroDouble]
    /\ running = TRUE

tick ==
    \/ \E target \in Targets : J(target) \/ JAL(target)
    \/ \E rs \in Regs, rt \in Regs, imm \in Imms :
         \/ BEQ(rs, rt, imm)
         \/ BNE(rs, rt, imm)
         \/ BEQL(rs, rt, imm)
         \/ BNEL(rs, rt, imm)
    \/ \E rs \in Regs, imm \in Imms :
         \/ BLEZ(rs, imm)
         \/ BGTZ(rs, imm)
         \/ BLEZL(rs, imm)
         \/ BGTZL(rs, imm)
    \/ \E rs \in Regs : JR(rs)
    \/ \E rs \in Regs, rd \in Regs : JALR(rs, rd)
    \/ \E r \in Regs, d \in Results : Compute(r, d)
    \/ NoResult
    \/ Crash

Next == tick \/ \E addr \in Entries : set_pc(addr)

Spec == Init /\ [][Next]_vars
-----------------------------------------------------------------------------
(* Properties.                                                             *)

\* The program counters stay 32-bit words and the registers 64-bit values,
\* whatever wraps: next_pc += 4 at the top of the address space, a branch
\* below address 0, a link.
TypeOK ==
    /\ pc \in Word
    /\ current_pc \in Word
    /\ next_pc \in Word
    /\ gpr \in [Regs -> Double]
    /\ running \in BOOLEAN

\* The control transfer in flight: next_pc is elsewhere than after pc.
InFlight == {next_pc} \ {Plus(pc, 4)}

Arch == INSTANCE MipsFlow WITH here <- pc, pending <- InFlight, reg <- gpr

\* The three program counters implement delay slots: every tick is a step of
\* the architecture, transfers and nullified instructions inside a delay slot
\* included.  The zero-extended link is the sign-extended one, and the region
\* of a jump that of its delay slot, because of where memory is mapped.
ImplementsArch == Arch!ASpec

\* Instructions are fetched from aligned addresses until a JR or a JALR takes
\* a misaligned target from a register: nothing else, set_pc, a branch or a
\* nullified slot in a delay slot included, moves a program counter off
\* alignment.
MisalignedByRegister ==
    [][ /\ pc % 4 = 0 /\ next_pc % 4 = 0
        /\ ~ (pc' % 4 = 0 /\ next_pc' % 4 = 0)
        => pc' % 4 = 0 /\ \E r \in Regs : next_pc' = gpr[r].lo ]_vars

=============================================================================
