------------------------------ MODULE MipsFlow ------------------------------
(***************************************************************************)
(* What the processor promises about control flow, in the terms of its     *)
(* architecture: the instruction about to execute (here), at most one      *)
(* control transfer that waits for its delay slot to execute (pending),    *)
(* and the registers.  There is no pipeline of program counters, a link is *)
(* a sign-extended address, a jump stays in the 256 MB region of its delay *)
(* slot, and nothing is promised of a JALR whose two registers are one.    *)
(***************************************************************************)
EXTENDS Words

CONSTANTS Regs,     \* the general-purpose registers
          RA,       \* the register JAL links (31)
          Mapped,   \* the byte addresses that can be fetched from
          Entries,  \* addresses at which a program is started
          Results,  \* values other instructions may leave in a register
          Imms,     \* 16-bit immediates of branches, as signed numbers
          Targets   \* 26-bit targets of jumps

VARIABLES here, pending, reg, running

avars == <<here, pending, reg, running>>

RegionSize == WordSize \div 16

RegionBase(a) == a - (a % RegionSize)

Fetchable(a) == \A i \in 0 .. 3 : (a + i) \in Mapped

\* Where control goes after this instruction.
Reached == IF pending = {} THEN {Plus(here, 4)} ELSE pending

Sequential == \E a \in Reached : here' = a /\ pending' = {}

\* A transfer to where control goes anyway is not one.
TransferTo(t) ==
    \E a \in Reached : here' = a /\ pending' = {t} \ {Plus(a, 4)}

\* The next instruction is nullified.
Nullify == \E a \in Reached : here' = Plus(a, 4) /\ pending' = {}

Write(r, d) == reg' = [reg EXCEPT ![r] = d]

ReturnAddress == SignExtend(Plus(here, 8))

RegionTarget(t) == RegionBase(Plus(here, 4)) + 4 * t

BranchTarget(i) == Plus(here, 4 * i)

Condition(c, rs, rt) ==
    CASE c = "eq"  -> reg[rs] = reg[rt]
      [] c = "ne"  -> reg[rs] # reg[rt]
      [] c = "lez" -> AtMostZero(reg[rs])
      [] c = "gtz" -> ~ AtMostZero(reg[rs])

Conditions == {"eq", "ne", "lez", "gtz"}
-----------------------------------------------------------------------------
Executing == running /\ Fetchable(here) /\ UNCHANGED running

Plain ==
    /\ Executing
    /\ Sequential
    /\ \/ UNCHANGED reg
       \/ \E r \in Regs, d \in Results : Write(r, d)

Jump ==
    /\ Executing
    /\ \E t \in Targets : TransferTo(RegionTarget(t))
    /\ \/ UNCHANGED reg
       \/ Write(RA, ReturnAddress)

Branch ==
    /\ Executing
    /\ UNCHANGED reg
    /\ \E c \in Conditions, rs \in Regs, rt \in Regs, i \in Imms :
         \/ Condition(c, rs, rt) /\ TransferTo(BranchTarget(i))
         \/ ~ Condition(c, rs, rt) /\ Sequential

BranchLikely ==
    /\ Executing
    /\ UNCHANGED reg
    /\ \E c \in Conditions, rs \in Regs, rt \in Regs, i \in Imms :
         \/ Condition(c, rs, rt) /\ TransferTo(BranchTarget(i))
         \/ ~ Condition(c, rs, rt) /\ Nullify

RegisterJump ==
    /\ Executing
    /\ UNCHANGED reg
    /\ \E rs \in Regs : TransferTo(reg[rs].lo)

RegisterCall ==
    /\ Executing
    /\ \E rs \in Regs, rd \in Regs :
         /\ Write(rd, ReturnAddress)
         /\ IF rs = rd
            THEN \E t \in Word : TransferTo(t)      \* unpredictable
            ELSE TransferTo(reg[rs].lo)

\* Started anew at an address of the low 512 MB: nothing is pending.
Start ==
    /\ running
    /\ \E e \in Entries : here' = e % (2 * RegionSize)
    /\ pending' = {}
    /\ UNCHANGED <<reg, running>>

\* The emulator dies when it fetches outside the memory map.
Fault ==
    /\ running
    /\ ~ Fetchable(here)
    /\ Sequential
    /\ running' = FALSE
    /\ UNCHANGED reg

AInit ==
    /\ \E e \in Entries : here = e % (2 * RegionSize)
    /\ pending = {}
    /\ reg = [r \in Regs |-> ZeroDouble]
    /\ running = TRUE

ANext ==
    Plain \/ Jump \/ Branch \/ BranchLikely \/ RegisterJump \/ RegisterCall
          \/ Start \/ Fault

ASpec == AInit /\ [][ANext]_avars

=============================================================================
