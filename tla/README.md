# Verification of epcs2-emu

epcs2-emu is an emulator of the processor of a PlayStation 2, the R5900.  What
exists of it is an interpreter of R5900 instructions (`src/src/r5900_vcpu.cpp`),
a memory map made of Windows views and allocations (`src/src/mmu.cpp`), a main
program that executes nine instructions and then whatever follows them
(`src/src/app.cpp`), and two test executables (`src/test`).  This directory
holds TLA+ modules of its components, TLC configurations that check them on
small instances, and theorems that TLAPS proves about them.

`PROJECT.json` lists components, runs, the lines of the source each definition
models, findings, hazards and theorems.  All paths below are relative to the
repository's root, `src/` here.

## Inventory

| Component | Source | State | Operations |
|---|---|---|---|
| Control flow | `r5900_vcpu.cpp` 20-97, 170-225, 465-477 | `pc`, `current_pc`, `next_pc`, links in `gpr` | `set_pc`, the prologue of `tick`, J, JAL, JR, JALR, eight branches |
| Integer ALU | 98-169, 226-245, 429-464, 478-499, 524-541, 590-765 | `gpr`, `reg_sa` | additions with and without overflow check, logic, comparisons, shifts, conditional moves |
| Multiply-divide and MMI | 500-589, 989-1246 | `hi`, `lo`, `gpr`, all 128 bits of each | MULT, DIV, MADD and variants on two pipelines, moves; PMFHL formats, six parallel shifts |
| Loads and stores | 257-420 | `gpr`, `fpr`, guest memory | LB ... SD, LWC1, SWC1; the rest are stubs |
| FPU | 817-987, `r5900_vcpu.h` | `fpr`, `facc`, `control_fpu` | arithmetic with flags, conversions, MIN/MAX; comparisons are stubs |
| REGIMM | 767-815 | `reg_sa` | MTSAB, MTSAH; branches and traps are stubs; the low bits of the immediate say which (line 768) |
| Encoding | `mips_instr.h` | none | `encode_*`, `decode_*` |
| Memory map | `mmu.h`, `mmu.cpp` | a section, three views of it, four allocations | constructor, destructor, `read*`, `write*`, `write`, `erase` |
| Test fixture | `test/epcs2_r5900_isa_test.h` | program, count of extra ticks | `push_*`, `run_program` |
| Application | `app.cpp` | none of its own | `main`: write a program, tick for ever |
| Logging, OS layer | `core/` | none that others read | formatting; nothing |

How they interact.  `tick` calls `MMU::self.read32` for the instruction, the
decoders of `mips_instr.h` for its fields, and then one handler; loads and
stores call `MMU::self` again.  Components share the register file and nothing
else inside a process.  There are no threads, no callbacks and no timeouts.
What two processes share is guest memory itself: the section of EE main memory
has a name, `epcs2_ee_memory` (`mmu.cpp:13`), and whoever starts while another
process holds it opens that memory instead of new memory.  `test/CMakeLists.txt`
registers two executables that do so with `add_test`.

What is hard, and what makes each component correct:

* Control flow.  Three program counters stand for delay slots and nullified
  slots.  Their order of assignment matters most when control instructions
  follow each other: a branch in the slot of a jump, a nullified slot after a
  taken branch.  Correct: every tick is a step of an architecture that knows
  only an instruction, a pending transfer and registers.
* Multiply-divide and MMI.  HI and LO are halves of one 128-bit register pair, and also
  of a 64-bit accumulator.  Words in them are stored sign- or zero-extended and
  joined again.  Correct: each pipeline is a 64-bit accumulator, and does not
  disturb the other; the lanes that PMFHL makes of them agree with each other, and
  nothing but the upper half of another register gets into an upper half.
* Test processes.  Write, execute and erase are not atomic, are repeated at one
  address, and the memory may be another process's as well.  Correct: a test
  case checks the effects of its own program, and leaves memory as it was.
* Integer ALU.  Overflow leaves the destination alone; words are sign-extended
  into 64-bit registers.  Correct: word operations keep words sign-extended, and
  the checked additions never store a wrapped result.
* Loads and stores.  Addresses wrap, three mirrors show one memory, misaligned
  accesses are logged and do nothing.  Correct: a load returns the last value
  stored through any mirror; no access is misaligned.
* FPU.  Flags are cleared on some paths and not on others.  Correct: flags
  describe the last arithmetic instruction, and sticky flags are never lost.
* Memory map.  Fourteen system calls, each of which may fail, checked by asserts
  that a Release build does not have.  Correct: after construction every area is
  where `mmu.h` says, and destruction gives back what construction took.
* Encoding.  Fields are shifted and masked into each other; immediates are
  negative numbers, targets lose bits at both ends.  Correct: decoding returns what
  was encoded.
* Application.  Its program lies where test processes write theirs, its loop has no
  end and BREAK does not stop it.  Correct: what is executed is the program that was
  written, as an assembly programmer reads it; a program that never goes back ends,
  if only by leaving memory.

## Modules

| Module | What it is |
|---|---|
| `Words` | words of `WordSize` values, 64-bit values as two words, extensions |
| `MipsFlow` | abstract: control flow of the architecture |
| `R5900Flow` | `set_pc`, `tick` and every handler that touches a program counter |
| `R5900FlowProofs` | theorems about `R5900Flow` |
| `Accumulator` | abstract: two 64-bit accumulators |
| `HiLo` | every handler that writes or moves HI and LO, and every handler of 128 bits |
| `HiLoProofs` | theorems about `HiLo` |
| `TestRuns` | test processes over the shared section |
| `TestRunsProofs` | theorems about `TestRuns` |
| `Mmu` | the constructor and the destructor of `MMU`, with failing calls |
| `MmuProofs` | theorems about `Mmu` |
| `Bytes` | bytes and the numbers they make up, least significant first |
| `Doublewords` | abstract: memory as an array of doublewords, registers as numbers |
| `LoadStore` | every handler that accesses memory |
| `LoadStoreProofs` | theorems about `LoadStore` |
| `Fpu` | every handler of `exec_fpu`, and the writers of `fpr` and `facc` |
| `FpuProofs` | theorems about `Fpu` |
| `IntAlu` | every handler of integer arithmetic, logic, comparison and shift |
| `IntAluProofs` | theorems about `IntAlu` |
| `Encoding` | every `encode_*` and `decode_*`, opcodes and functions |
| `Assembly` | abstract: a program in assembly language, executed as written |
| `Emulator` | the application and a test process on one memory; composes `Encoding` and `R5900Flow` |
| `EmulatorProofs` | theorems about `Encoding` and `Emulator` |
| `MC*` | the values of the constants for TLC |

### R5900Flow and MipsFlow

The variables are those of `R5900VCPU`.  `Fetch` and `Advance` are the prologue
of `tick`; each handler is one action: prologue, condition, assignments.  The
instruction fetched is arbitrary, so the model's behaviours include those of all
programs, self-modifying ones too; a handler without an effect on control is
`Compute` (a value of `Results` enters a register) or `NoResult`.  A fetch
outside `Mapped` ends the process (`Crash`).  Host memory that happens to exist
beyond the memory map, which a stray guest address could reach, is taken to be
absent.

`MipsFlow` has no program counters but `here`, and a set `pending` of at most one
target.  `pending` is defined from the code's state by `InFlight`: a transfer is
in flight when `next_pc` is not the word after `pc`.  Two differences between
code and architecture disappear for a reason, and the refinement is what shows
that the reason is enough: the link is zero-extended instead of sign-extended,
and the region of J is that of the jump instead of its delay slot.  Both are
harmless because no mapped area is in the upper half of the address space or
ends at the end of a region (`MapAssumption`, from the constants of `mmu.h`).

In two places `MipsFlow` follows the code and not the manual of the processor.
A branch displacement is relative to the branch (`current_pc + imm`), where MIPS
says the delay slot; no doc or test of the repository decides it, so the module
says what programs for this emulator have to assume.  And register 0 can be
written.  JALR whose two registers are one has an unspecified target.

### HiLo and Accumulator

Every register, `hi` and `lo` included, is a function from the two pipelines to
64-bit values: its element 0 is what the 64-bit handlers of pipeline 0 see.
`Accumulator` knows the accumulated value, not its halves, and what is exact:
`ImplementsAccumulator` relates them by `Value(p)`.  Division is specified by its
defining equation and not by a formula for the quotient.  `stray` is the upper
half of LO: MADD and MADDU of pipeline 0 do `lo.u64 | (hi.u64 << 32)` without
masking LO (`r5900_vcpu.cpp:994`), so after a product whose lower word has its
top bit set the upper half of HI is lost in ones.  Pipeline 1 masks
(line 1097).  The abstraction promises the upper word of pipeline 0 only when
`stray` is zero; it promises the lower word always.

The handlers of `exec_mmi` that are not stubs are here as well.  A word is two
lanes of `LaneSize` values, and a shift by `sa` is a multiplication by or a division
by a factor.  Two oddities of the source are kept: PMFHL.LH puts the lanes of LO
where those of HI belong (line 1163), and the parallel shifts read `gpr[rd]` and not
`gpr[rt]` (line 1196).  `Accumulator` lets such a handler leave anything in a
register (`Rework`).  `FormatsAgree` says what PMFHL.SH must saturate to by
comparing it with PMFHL.LH and by the order it must keep; `UpperFromUpper` that a
program which leaves pipeline 1 alone computes with 64 bits: no format of PMFHL and
no shift of 128 bits makes anything of lower doublewords in an upper one.

### TestRuns

A process opens the section, has fixtures one after the other, and runs programs
(`run_program`): `memcpy` and `memset` word by word, `tick` by `tick`.  Programs
are straight lines; an instruction carries the process and run it comes from, and
`trace` records what was executed, which is all that registers can depend on.
`extra_execution_instructions` is not reset by `run_program`, so later runs of
one fixture execute more than their program; the model keeps that.  A process may
be killed at any time (`Die`), and the section lives as long as a process holds
it.  `disturbed` and `died` are history variables that only properties read.

### Mmu

`Constructor` lists the eleven calls whose results the code keeps, in its order;
`step` is the next of them.  Each may fail.  `Checked` is the assert after it: an
abort when `asserts`, nothing otherwise.  `ptr` says of each member whether it is
null and `space` what is at the area's address, which the pointers do not decide:
guest accesses compute `vm_base_address + addr`.  `HostAllocates` is everything
else in the process that is given addresses.  The three calls of `VirtualFree`
in the constructor are part of `Reserve`; they have no result that is used.
`Holes` are places between and behind the areas: no accessor compares an address
with the map (`mmu.h:39` to 53, `mmu.cpp:71`), so a guest reaches them as it does an
area.  `GuestFaults` is any access where no memory is, and `GuestStores` stands for all
accessors that write; `touched` is a history variable, the places where that was
memory of the host.  Left out is that in an x86 build `vm_base_address` plus a guest
address of the upper half wraps.

### LoadStore and Doublewords

Memory is bytes, registers are arrays of bytes as the host stores them, and
`Cell` is the memory map: guest addresses of the three views have the same cells.
Each handler is one action: address modulo 2^32, alignment check, access.  A
misaligned access is logged and does nothing, except for LWR, which reads at any
address.  An access outside the map ends the process.  `Doublewords` has no bytes
at all: an access is a division or a replacement inside one number, selected by
the address.  It follows the code in that words are zero-extended when loaded.

### IntAlu

A register is its low 64 bits, as bits, so that shifts and extensions move bits
and additions go through numbers, as in the code.  Each handler is one action; the
six shifts by `sa` and by `sa + 32` are three actions of an amount.  `Fallback` says
which of the branches of `intrinsics.h` is compiled: the intrinsics of MSVC and the
builtins of clang are exact, the formulas for other compilers are those of the
source.  ADDI, ADD and SUB write the wrapped `int32_t` that these leave in `result`.  Shifts by the width or more are undefined, and `Amounts32` and `Amounts64`
are what the shift instructions of x64 and x86 hosts, and the 64-bit helpers of x86
builds, make of them.  `Selects` is the test of `exec_regimm`: it decodes its function
from the low bits, which belong to the immediate, so an MTSAB or MTSAH has only the
immediates that end in its number.  `words` is a history variable: no instruction of 64-bit
arithmetic, and none from outside this module, has run.

### Encoding

A field of an instruction is a digit, of `RegSize`, `SaSize`, `FuncSize` or 64 values:
shifting is a division, masking a remainder, and joining fields that fit a sum.
`encode_*` do not mask their arguments but the immediate (a `uint16_t`) and the
target; arguments that do not fit are left out.

### Emulator and Assembly

`Emulator` is the composition: `main` copies a program to memory word by word
(`Write`) and then ticks for ever (`Tick`); a tick fetches the word at `pc`, decodes
it with the operators of `Encoding` and takes the handler's action from an instance
of `R5900Flow`, with the decoded operands.  A test process goes through `run_program`
on the same named section, any number of times, and may be killed in the middle.
Its own ticks do not write memory and are left out.  `disturbed` is a history
variable: a run overlapped with the application's program.  Programs are made of
ADDI, jumps and branches with an immediate or a target, and the stubs of
`exec_special`; other instructions are covered by the modules of their handlers.

`Assembly` has no words: `InstructionAt` an address is what the programmer wrote
there, or a NOP, an operand of a jump is an address, an immediate a signed number, and
control follows `MipsFlow`.  `ImplementsAssembly` relates the two by the program
counter and `InFlight`, as in `R5900Flow`; once `disturbed`, nothing is promised
(`lost`).  So a field that is lost on the way through `encode_*`, memory and
`decode_*`, or a word that an earlier test run left behind, is a violation.

### Fpu

A float is the class of its bits.  Classes are what the code or the host
distinguishes: zero, denormal, normal, the largest float, infinity, quiet and
signalling NaNs, and the pattern 0x7fffffff, which the code calls infinity and
which is a NaN.  Arithmetic is the host's: `Sum`, `Product` and `Quotient` say
for each two classes what IEEE arithmetic makes of them, rounded to nearest, so that
zero and zero add up to zero, and two normal floats can give any finite float or an
infinity.  Signs are left out: an addition is also the subtraction, and the
test `x < 0.0f` is a choice.  Operands of one register are any two floats of its
class.  The comparison instructions are stubs without an effect.  `last` is a history variable: the value that
`write_fpr` or `write_facc` was last given.

## Runs

| Run | Instance | Shows |
|---|---|---|
| `flow` | addresses 0..255, 16 regions, two mapped areas of two instructions, two registers, three displacements, two targets | `TypeOK`, the refinement `ImplementsArch`, `MisalignedByRegister` |
| `hilo` | two-bit words of two one-bit lanes, two registers | `TypeOK`, `FormatsAgree`, the refinement `ImplementsAccumulator`, `UpperFromUpper` |
| `test_runs` | two processes, programs of up to two words, two runs each, kills | `TypeOK`, `UndisturbedRunsOwn`, `CleanBetweenRuns` |
| `test_runs_parallel` | two processes, one run each, no kills | violates `OwnProgramRuns` |
| `mmu` | all seven areas, a hole, both builds | `TypeOK`, `HostIntact`, `MapComplete`, `CleanDestruction`, `ForeignKept` |
| `load_store` | two-bit bytes (256 addresses), eight bytes of memory in two views, two registers, four offsets | `TypeOK`, the refinement `ImplementsDoublewords` |
| `load_store_words` | the same | violates `WordLoadsDiffer` |
| `fpu` | register 0 and another | `TypeOK`, `StickyCovers`, `FlagsDescribeLast`, `OverflowFromNaN` |
| `fpu_infinity` | the same | violates `InfinityClamped` |
| `int_alu` | five-bit words, two-bit immediates, two registers, ten values | `TypeOK`, `CanonicalWords`, `FallbackAddsExactly`, `NothingWraps` |
| `int_alu_fallback` | the same, `Fallback` | violates `DifferenceStored` |
| `emulator` | five programs of up to ten instructions, 16 registers, nine-bit immediates, 15 words of memory, one test program | `TypeOK`, the refinement `ImplementsAssembly`, the liveness property `ForwardEnds` |

`flow`.  With 256 addresses everything wraps: `next_pc` past the top, a branch
below zero, a register jump to the last word.  Two areas in two regions make J
cross from one to the other.  Two instructions in an area suffice for a jump in a
delay slot and for a fall off the end.  Registers and values cover equal and
unequal, zero, negative and positive with a zero low word.  Deadlock is not
checked, since the process ends at a crash.

`hilo`.  In two bits, signed, are -2, -1, 0 and 1: the smallest number over -1,
division by zero, every sign, every carry between halves.  The constraint
`OnePipelineBusy` stops exploration behind states in which both pipelines hold
something; those states are themselves reached and checked, and so is each
pipeline's every state with every value of the other reached in one step.
`WideAlone` does the same for registers with more than an extended word in them:
they are explored further next to pipeline 1, from which they came, and checked next
to everything else.  Lanes of one bit, 0 and -1, are enough for a saturation
that moves a word (1 to 0, -2 to -1) and for a shift that must not carry between
lanes.

`test_runs`.  Two processes can be in any pair of steps; the third party that a
third process would be adds nothing that the second cannot do again.  Two runs
each let a run follow one's own and the other's runs, finished or killed.  Two
words give a program a first and a last word, and a longer and a shorter program.
`MaxRuns` bounds a counter the code does not have; `MaxBranches` bounds a counter
that only a test case limits.

`test_runs_parallel` is a finding.  Nothing in `mmu.cpp` looks whether the section
existed, and the two test executables, run at the same time, execute each other's
programs:
`REQUIRE(r5900.gpr[MIPS_REG_T0].i32 == 600);`
(`test/epcs2_r5900_isa_ialu_test.cpp:17`) takes for granted that the pushed
program was the one executed.

`mmu`.  Not an abstraction of the number of areas: all of them and all eleven
calls are there.  One hole is enough, since holes have no state but what is there,
and nothing in the code relates two of them.  A store to it reaches the host in both
builds, and `HostIntact` and `MapComplete` say that in a Debug build a guest goes
wrong there only.  Deadlock is not checked, since processes end.

`load_store`.  A doubleword in each of two views has every alignment of every
size, every edge, and neighbours that are not mapped.  The offsets are negative,
zero, odd and of a word, and addresses wrap below zero.  `FewBytes` bounds what
states are explored further: registers that hold one of three values and memory
that differs in at most two bytes from zero or from a pattern of distinct bytes.
Every transition out of such a state is checked, so each loaded value is.

`load_store_words` is a finding.  `MIPS_OP_LW` casts the `uint32_t` it read to
`int64_t` (`r5900_vcpu.cpp:287`), which does not extend the sign, and so does
exactly what `MIPS_OP_LWU` does; `mips_instr.h` has a "Load word" and a "Load word
unsigned" (lines 79 and 83).  LB and LH (lines 261 and 273) zero-extend in the same
way, but LBU and LHU, which they would have to differ from, are stubs.

`fpu`.  No instruction has more than three registers, and what matters about their
identity is whether it is register 0; two values of the other operands are what
two registers give.  The accumulator is one more.

`fpu_infinity` is a finding.  `write_fpr` says "If reaches infinity, set to max
float and set overflow flag" (`r5900_vcpu.h:37`) but compares with 0x7fffffff, and
`write_facc` does the same.  ADDA.S of two registers that hold the largest float
leaves an infinity in the accumulator.  `InfinityClamped` is about steps in which
every register holds zero or the largest float, where nothing but an overflow can put
one there.  `OverflowFromNaN` says what the comparison does find: a
NaN that was loaded, moved or converted into a register.

`int_alu`.  The ten values are zero, one, minus one, the extremes of words and of
doublewords, zero-extended words and one with unrelated halves; `FewValues` stops
exploration behind states with others, which are themselves checked, and which are
all values that one instruction makes of two of these.  Each addition and subtraction
among them overflows at both ends, in words and in doublewords, with a
destination that is one of its operands and one that is not.  A shift amount in `reg_sa` is explored next to
registers that hold 0, 1 and -1 only: nothing but MFSA reads it.  Five bits keep the shift
amounts of MTSAB and MTSAH inside a word, as 32 bits do.  `CanonicalWords` is about
whole programs: that 64-bit comparisons and MOVZ compare words holds as long as
every instruction so far left words sign-extended.  Loads of words do not
(`load_store_words`), which is why `Other` ends it.

`int_alu_fallback` is a finding.  The formula of `sub_overflow` for compilers other
than MSVC and clang (`intrinsics.h:43`, 56) tests for equal signs, which is where a
difference fits: 100 - 200 is an overflow, and
`REQUIRE(r5900.gpr[MIPS_REG_T2].i32 == -100);`
(`test/epcs2_r5900_isa_ialu_test.cpp:73`) fails.  The presets build with MSVC.  The branch is hardly reached: it needs a compiler
with an `<intrin.h>`, as GCC has on Windows, and GCC takes `i128 i128;`
(`r5900_regs.h:8`) with `-fpermissive` only.

`emulator`.  The programs are `main`'s own; a loop that counts down and ends; one that
does not end; one that only goes forward, through jumps and branches in delay slots
that are taken and that are not; and one of branches-likely in each other's delay
slots.  Between them every instruction of the module is executed, and every branch
both ways, next to negative and positive displacements and the extreme immediates.
Memory ends a few words behind the longest program, so that execution falls
through NOPs to the end of it, as it would through 32 MB; three of its words lie in
front of the programs.  The test program is shorter than
`main`'s, so that a run overwrites a part of it.  Bounds: its instructions do not
accumulate, since a loop that it breaks would otherwise count through
all values of a register; and so ADDI does not overflow in this run, which `int_alu`
covers.  Deadlock is not checked, since the process ends.

Fairness is assumed in `emulator` only: weak fairness of `Write` and of `Tick`, the
thread of `main`, which does nothing but copy and then `for (;;) { r5900.tick(); }`
(`app.cpp:24`), is enabled until the process dies, and waits for nobody.  Nothing is
assumed of the test process, which may stop anywhere.  `ForwardEnds` holds of a program
without a way back even though a test process may overwrite it any number of times,
because no instruction of the test's goes back either.  The other components promise
nothing that must eventually happen: `run_program` ends because its loops are
counted, and there are no locks, queues or timeouts.

## Proofs

| Theorem | Statement | Rests on |
|---|---|---|
| `TypeCorrect` | `Spec => []TypeOK` of R5900Flow | `TypeOK` is inductive |
| `MisalignmentSource` | `Spec => MisalignedByRegister` | `TypeOK`, alignment of every computed target |
| `FlowImplementsArch` | `Spec => ImplementsArch` | `TypeOK`, one lemma per kind of transfer |
| `TypeCorrect` | `Spec => []TypeOK` of TestRuns | `Shapes`, `Each` |
| `UndisturbedRuns` | `Spec => []UndisturbedRunsOwn` | the same |
| `MemoryCleanBetweenRuns` | `Spec => []CleanBetweenRuns` of TestRuns | `IInv` |
| `TypeCorrect` | `Spec => []TypeOK` of Mmu | `IInv` of MmuProofs |
| `HostStaysIntact` | `Spec => []HostIntact` of Mmu | `IInv` of MmuProofs |
| `MapStaysComplete` | `Spec => []MapComplete` | the same |
| `DestructionIsClean` | `Spec => []CleanDestruction` | the same |
| `HostMemoryKept` | `Spec => ForeignKept` | the same |
| `TypeCorrect` | `Spec => []TypeOK` of Fpu | `IInv` of FpuProofs |
| `StickyFlagsCover` | `Spec => []StickyCovers` | the same |
| `FlagsDescribe` | `Spec => []FlagsDescribeLast` | the same |
| `OverflowsFromNaN` | `Spec => OverflowFromNaN` | the same |
| `ItypeRoundTrip` | opcode, registers and signed immediate survive `encode_itype` | `Digit`, `TwoDigits` |
| `RtypeRoundTrip` | the six fields survive `encode_rtype` | `RtypeIsItype`, the same |
| `JtypeRoundTrip` | the operand of a jump in region 0 survives `encode_jtype` | the same |
| `ExceptionRoundTrip` | opcode and function survive, whatever the code | the same |
| `RegimmFunction` | `decode_func` of a word of `encode_itype` is its immediate, modulo `FuncSize` | `ItypeFields` |
| `TypeCorrect` | `Spec => []TypeOK` of HiLo | `TypeOK` is inductive; `ToWordType`, `DivisionType` |
| `UpperStaysEmpty` | `Spec => UpperFromUpper` | `TypeOK`; what each handler makes of zero |
| `FormatsAlwaysAgree` | `Spec => []FormatsAgree` | `TypeOK`; truncation and saturation of a word |
| `AccumulatorImplemented` | `Spec => ImplementsAccumulator` | `TypeOK`, one lemma per kind of handler |
| `TypeCorrect` | `Spec => []TypeOK` of IntAlu | one of five kinds of step per handler |
| `WordsStayCanonical` | `Spec => []CanonicalWords` | the same |
| `FallbackAgrees` | `Spec => []FallbackAddsExactly` | `TypeOK`, the range of `Signed` |
| `TrapsKeepExact` | `Spec => NothingWraps` | `TypeOK`; numbers from bits (`LowBits`, `BitsExact`) |
| `TypeCorrect` | `Spec => []TypeOK` of LoadStore | `TypeOK` is inductive |
| `DoublewordsImplemented` | `Spec => ImplementsDoublewords` | `TypeOK`; `PartIs`, `StoredIs`, one lemma per kind of access |
| `TypeCorrect` | `Spec => []TypeOK` of Emulator | `CpuOK`, `SharedOK` |
| `AssemblyImplemented` | `Spec => ImplementsAssembly` | `CpuOK`, `SharedOK`, `Clean`, the round trips |

Those of R5900Flow hold for every word size that is a multiple of 64, every memory
map that satisfies `MapAssumption`, all sets of registers, values, displacements and
targets that satisfy `FlowAssumption`; those of TestRuns for any set of processes
and any bounds (`TestRunsAssumption`).  Each assumption is a fact of the
source: words are 32 bits, targets are 26 bits, areas are where `mmu.h` puts them.

Those of `Encoding` hold for fields of any size, those of the source included; each
field is a digit of the word, and `Digit` is the one fact about division they rest on.

The invariant of `R5900Flow` is `TypeOK` itself.  The refinement proof shows
first that the prologue leaves at `next_pc`, which is where the architecture's
`Reached` goes (`ReachedIsNextPc`), then that each way to leave the program
counters is a step in the architecture (`AdvanceIsSequential`, `JumpIsTransfer`,
`AnnulIsNullify`), and then that targets and links agree
(`JumpTargetIsRegionTarget`, `LinkIsReturnAddress`, which use the memory map).

`CleanBetweenRuns` is not inductive: it says nothing about states in which a run
is on.  `IInv` adds who is responsible for each dirty cell: as long as no process
was killed in a run, every cell that is not clean is one that some process will
erase (`Covered`, by the phase and progress of that process), and no process
writes beyond what it will erase (`Bounded`).  When no process is in a run,
nobody will erase anything, so nothing is dirty.

`UndisturbedRunsOwn` has an invariant of its own, `Shapes` and, for each process,
`Counted` and `Own`.  `Own` follows one run through its loops: what has been written so
far is in memory while the run writes, the whole program is while it ticks, and what
was executed is what was written, all as long as nobody disturbs it.  `Counted` is
why the type invariant needs more than types: `k` stays below the cells because the
extra instructions are at most the branches pushed in the runs so far.

The properties of `Mmu` are about the end of a sequence of calls and are not
inductive either.  `IInv` of `MmuProofs` relates the members to the addresses
(`Owned`: a member that is not null has an area of its own, and a placeholder
without a member is the trace of a failed view), says that the calls still to come
find their areas without memory (`Pending`), and that with asserts every call made
so far has had its effect (`Backed`).  At the last call, `Backed` is the complete
map (`CompleteMap`), which is why `MapComplete` holds and why a Debug build leaves a
guest no memory of the host at the address of an area: `HostIntact` at a store.  Of
the holes, the proof knows that they are no areas (`HolesAssumption`).  That nothing of the host is replaced or released (`HostMemoryKept`) follows from
`Owned` in each step: what the destructor gives back is where a member is not null, and
there is no memory of the host there.

`IInv` of `FpuProofs` is the conjunction of the three invariants; each needs the
type invariant only.  That the accumulator holds neither a signalling NaN nor the
pattern of all ones is what makes `OverflowsFromNaN` about the registers alone.
The theorems hold for any set of registers with 0 in it.

`HiLo`'s `TypeOK` is inductive.  What makes the proof long is arithmetic: that
quotients and remainders of words are words, the smallest number divided by -1
included, and that lanes put together again are.  `UpperFromUpper` is an action
property, proved from `TypeOK`: a shift or a move of zero is zero
(`ShiftsOfZero`, `FormatsOfZero`), and no handler of 64 bits has an upper
doubleword.  Both hold for every `WordSize` that is the square of an even `LaneSize`
and for any registers and factors that `LaneAssumption` allows, provided that words
have a bitwise OR (`BinaryAssumption`), as they have when sizes are powers of two.

`FormatsAgree` is a fact about every pair of words (`ClampFacts`, `LaneFits`), so the
type invariant is enough.  For `ImplementsAccumulator` two things had to be proved
about numbers.  One is that a bitwise OR with zero is the other word, which is what
makes MADD exact when `stray` is zero: two words that differ do so in a bit
(`BitsTell`), by induction over halves.  The other is that the quotient and remainder
the code computes satisfy the equation and the signs of a division that truncates
(`TruncatedDivision`), and fit, but for the one that the code treats by itself
(`QuotientLeaves`).

`IntAlu` has more than forty handlers and five ways to change the state: nothing, a
canonical result, a 64-bit result, a shift amount, and whatever another handler does.
Each handler is shown to be one of them once (`NextSteps`), and both invariants follow
from the five.  `FallbackAgrees` is then arithmetic (`AddFallbackExact`), and
`TrapsKeepExact` adds that a number survives being written as bits and read again when
it fits (`BitsExact`): a word through its sign extension (`WordExact`), a doubleword as
it is.  `SUB` and `DSUB` are in it for builds with intrinsics only.  The number that bits
make up is defined by recursion.  That a function with such a definition exists is
not free in TLA+; it is proved from the well-foundedness of `<` (`SetInduction`,
`Recursion`), and `UnsignedNext` is then the equation that the rest uses.  All of
them hold for every width of words and every register file.

`LoadStore` is about bytes and `Doublewords` about division.  `SplitNumber` says what
they have in common: the number of some bytes is that of the lower ones plus the
weighted one of the upper ones.  Splitting a doubleword twice gives a quotient's
remainder for what is loaded (`PartOf`) and a weighted difference for what is stored
(`ReplaceIn`).  The memory map enters through `Layout`: eight cells in order behind every
mapped doubleword, from `LoadStoreAssumption`.  So an access that is aligned stays in one
doubleword and is inside the map if its doubleword is (`AlignedReaches`), which is
where the misaligned ones would go wrong; LWR may need two (`FourReached`).  Since
`Location` may give several addresses the same doubleword, the theorem says that a
store through one view of main memory is loaded through the others.  It holds for
bytes of any number of values, any map that meets the assumption, any offsets and
any values left by other handlers.

`TypeOK` of `Emulator` falls into two parts, the processor (`CpuOK`) and what is
shared with a test process (`SharedOK`).  They do not say what is in memory, and the
refinement needs that: `Clean` says that, as long as no run has overlapped with the
program, what is in a cell is what `main` has put there, or else what the one run
that is on has written and will erase.  From that, the word fetched at `next_pc` is
the encoding of the instruction at the same place of the assembly program, and the
round trips give its fields back.  Then there is one lemma per
kind of instruction.  They rest on two assumptions: fields that
fill a word (`EncodingAssumption`), and programs that lie in memory, the memory in
one region (`EmulatorAssumption`).

Only model-checked: `ForwardEnds` of `Emulator`, and what the runs with a violation
show.  Out of the prover's reach are liveness under fairness, and ENABLED, which
`ForwardEnds` is about.  Induction over data with the library's theorems is, too;
the recursive functions of this project are over numbers, and for these the proofs
derive induction from the well-foundedness of `<`, as above.  No module here
declares a RECURSIVE operator.

## Modelling decisions

* Signed overflow in C is undefined; the compilers the build supports wrap.
* Encodings are left out where handlers take their fields as parameters: an action
  is given registers and immediates that fields of its instruction can hold.
  `Emulator` and the theorems about `Encoding` join the two.
* Test programs that jump are left out of `TestRuns`; the counter that such
  programs advance is there.

## Not modelled

* Logging (`core/log.*`): it formats and prints; no state depends on it, and nothing
  else reads what it keeps.
* The OS layer (`core/os.*`): an empty namespace and an empty file.  What the system
  calls of `mmu.cpp` do is part of `Mmu`.
* Instructions without a handler: SYSCALL, BREAK and SYNC, traps and branches of
  REGIMM, COP0, COP2, the groups MMI0 to MMI3 and the comparisons of the FPU are
  stubs in the source.  The modules say where they would be; there is nothing to
  model until they have an effect.

## Plan

Every component with an effect has its module, and every safety property and
refinement that a run checks is a theorem.  What is left:

1. Theorems about what the findings leave: in which operands `SubFallback` is wrong,
   and that nothing else differs between builds; that LW and LWU are the same.
2. More of the lemmas about numbers in common: `HiLoProofs`, `IntAluProofs` and
   `LoadStoreProofs` each have induction and division of their own.

A property that the code does not have is that register 0 reads as zero: no handler
keeps a write from it (`MIPS_REG_ZERO`, `mips_instr.h:10`), and no doc, comment or test is
about it, so no run claims it.
