------------------------------ MODULE Emulator ------------------------------
(***************************************************************************)
(* The application (src/src/app.cpp) from end to end: a program is         *)
(* assembled into words, the words are written to guest memory, and tick   *)
(* fetches, decodes and executes them for ever.  Memory is the section     *)
(* with a name that a test process may use at the same time                *)
(* (test/epcs2_r5900_isa_test.h); the fixture writes its program to the    *)
(* address of the application's and erases it after the run.               *)
(*                                                                         *)
(* The program is main's or another one, made of ADDI, the jumps and       *)
(* branches with an immediate or a target, and the instructions of         *)
(* exec_special that do nothing.  The actions of R5900Flow are the         *)
(* handlers; this module decides which of them a tick takes, and with      *)
(* which operands.                                                         *)
(***************************************************************************)
EXTENDS Encoding, Sequences

CONSTANTS MemorySize,  \* bytes of EE main memory
          Base,        \* where programs are written (0x00100000)
          Programs,    \* programs of the application
          TestProgram  \* the program of the test process

VARIABLES
    program,     \* the program of main
    memory,      \* the words of the section
    written,     \* words that main has copied
    pc, current_pc, next_pc, gpr, running,
    phase,       \* what the test process is doing
    k,           \* progress of its memcpy or memset
    disturbed    \* history: a run of the test process overlapped with main's

cpu == <<pc, current_pc, next_pc, gpr, running>>

test == <<phase, k>>

vars == <<program, memory, written, cpu, test, disturbed>>

\* The addresses of words, and of bytes.
Cells == {a \in 0 .. (MemorySize - 1) : a % 4 = 0}

Mapped == 0 .. (MemorySize - 1)

RegionSize == WordSize \div 16

RA == RegSize - 1

Flow == INSTANCE R5900Flow
        WITH Regs <- Registers, Entries <- {Base}, Results <- Double,
             Imms <- Immediates, Targets <- 0 .. (TargetSize - 1)
-----------------------------------------------------------------------------
(* Assembling.                                                             *)

Branches == {"BEQ", "BNE", "BLEZ", "BGTZ", "BEQL", "BNEL", "BLEZL", "BGTZL"}

Immediate == {"ADDI"} \cup Branches

Jumps == {"J", "JAL"}

Stubs ==
    [SYSCALL |-> MIPS_SPECIAL_SYSCALL, BREAK |-> MIPS_SPECIAL_BREAK,
     SYNC |-> MIPS_SPECIAL_SYNC]

\* What can be written in a program.  A target is the address of an
\* instruction in the region of the program.
Instructions ==
    [op : Immediate, rs : Registers, rt : Registers, imm : Immediates]
      \cup [op : Jumps, target : Cells]
      \cup [op : DOMAIN Stubs, code : Codes]
      \cup {[op |-> "NOP"]}

Opcode ==
    [ADDI |-> MIPS_OP_ADDI, J |-> MIPS_OP_J, JAL |-> MIPS_OP_JAL,
     BEQ |-> MIPS_OP_BEQ, BNE |-> MIPS_OP_BNE,
     BLEZ |-> MIPS_OP_BLEZ, BGTZ |-> MIPS_OP_BGTZ,
     BEQL |-> MIPS_OP_BEQL, BNEL |-> MIPS_OP_BNEL,
     BLEZL |-> MIPS_OP_BLEZL, BGTZL |-> MIPS_OP_BGTZL]

Assembled(i) ==
    CASE i.op \in Immediate -> encode_itype(Opcode[i.op], i.rs, i.rt, i.imm)
      [] i.op \in Jumps     -> encode_jtype(Opcode[i.op], i.target)
      [] i.op \in DOMAIN Stubs ->
           encode_exception(MIPS_OP_SPECIAL, i.code, Stubs[i.op])
      [] i.op = "NOP"       -> mips_nop

\* A program of main or of the fixture, the address of its last instruction
\* included, lies in memory.
FitsMemory(p) == Base + 4 * Len(p) <= MemorySize

ASSUME EmulatorAssumption ==
    /\ MemorySize \in Nat /\ MemorySize % 4 = 0
    /\ MemorySize + 8 <= RegionSize
    /\ Base \in Cells
    /\ \A p \in Programs \cup {TestProgram} :
         p \in Seq(Instructions) /\ p # <<>> /\ FitsMemory(p)
-----------------------------------------------------------------------------
(* The application.                                                        *)

Loaded == written = Len(program)

\* One word of the memcpy of MMU::write(0x00100000, program, sizeof(program)).
Write ==
    /\ ~ Loaded
    /\ memory' = [memory EXCEPT ![Base + 4 * written] = Assembled(program[written + 1])]
    /\ written' = written + 1
    /\ disturbed' = (disturbed \/ phase # "idle")
    /\ UNCHANGED <<program, cpu, test>>

\* The word at current_pc.
instruction == memory[pc]

\* The switch of tick; a NOP does not get there.
Case(op) ==
    /\ running
    /\ Flow!Fetchable(pc)
    /\ instruction # mips_nop
    /\ decode_opcode(instruction) = op

\* The NOP is skipped before the program counters have moved.
StuckNOP ==
    /\ running /\ Flow!Fetchable(pc) /\ instruction = mips_nop
    /\ current_pc' = pc
    /\ UNCHANGED <<pc, next_pc, gpr, running>>

NOP == running /\ Flow!Fetchable(pc) /\ instruction = mips_nop /\ Flow!NoResult

\* ADDI; the sum is stored unless it overflows.
ADDI ==
    LET rs  == decode_rs(instruction)
        rt  == decode_rt(instruction)
        sum == Signed(gpr[rs].lo) + decode_imm_i16(instruction)
    IN  /\ Case(MIPS_OP_ADDI)
        /\ IF -Half <= sum /\ sum < Half
           THEN Flow!Compute(rt, SignExtend(ToWord(sum)))
           ELSE Flow!NoResult

J == Case(MIPS_OP_J) /\ Flow!J(decode_target(instruction))

JAL == Case(MIPS_OP_JAL) /\ Flow!JAL(decode_target(instruction))

\* The operands of a branch.
Rs == decode_rs(instruction)
Rt == decode_rt(instruction)
Imm == decode_imm_i16(instruction)

BEQ == Case(MIPS_OP_BEQ) /\ Flow!BEQ(Rs, Rt, Imm)

BNE == Case(MIPS_OP_BNE) /\ Flow!BNE(Rs, Rt, Imm)

BLEZ == Case(MIPS_OP_BLEZ) /\ Flow!BLEZ(Rs, Imm)

BGTZ == Case(MIPS_OP_BGTZ) /\ Flow!BGTZ(Rs, Imm)

BEQL == Case(MIPS_OP_BEQL) /\ Flow!BEQL(Rs, Rt, Imm)

BNEL == Case(MIPS_OP_BNEL) /\ Flow!BNEL(Rs, Rt, Imm)

BLEZL == Case(MIPS_OP_BLEZL) /\ Flow!BLEZL(Rs, Imm)

BGTZL == Case(MIPS_OP_BGTZL) /\ Flow!BGTZL(Rs, Imm)

\* exec_special: SYSCALL, BREAK and SYNC are stubs.
Stub(func) ==
    /\ Case(MIPS_OP_SPECIAL)
    /\ decode_func(instruction) = func
    /\ Flow!NoResult

tick ==
    \/ NOP \/ ADDI \/ J \/ JAL
    \/ \E op \in DOMAIN Stubs : Stub(Stubs[op])
    \/ BEQ \/ BNE \/ BLEZ \/ BGTZ \/ BEQL \/ BNEL \/ BLEZL \/ BGTZL
    \/ Flow!Crash

\* for (;;) { r5900.tick(); }
Tick == Loaded /\ tick /\ UNCHANGED <<program, memory, written, test, disturbed>>
-----------------------------------------------------------------------------
(* The test process: run_program, any number of times.  Its ticks are on a *)
(* processor of its own; they take time between the writes and the erasure.*)

BeginRun ==
    /\ phase = "idle"
    /\ phase' = "writing"
    /\ k' = 0
    /\ disturbed' = (disturbed \/ written > 0)
    /\ UNCHANGED <<program, memory, written, cpu>>

\* One word of the memcpy.
TestWrite ==
    /\ phase = "writing"
    /\ k < Len(TestProgram)
    /\ memory' = [memory EXCEPT ![Base + 4 * k] = Assembled(TestProgram[k + 1])]
    /\ k' = k + 1
    /\ UNCHANGED <<program, written, cpu, phase, disturbed>>

\* The loop over tick is over.
BeginErase ==
    /\ phase = "writing"
    /\ k = Len(TestProgram)
    /\ phase' = "erasing"
    /\ k' = 0
    /\ UNCHANGED <<program, memory, written, cpu, disturbed>>

\* One word of the memset.
TestErase ==
    /\ phase = "erasing"
    /\ k < Len(TestProgram)
    /\ memory' = [memory EXCEPT ![Base + 4 * k] = mips_nop]
    /\ k' = k + 1
    /\ UNCHANGED <<program, written, cpu, phase, disturbed>>

EndRun ==
    /\ phase = "erasing"
    /\ k = Len(TestProgram)
    /\ phase' = "idle"
    /\ k' = 0
    /\ UNCHANGED <<program, memory, written, cpu, disturbed>>

\* The process is killed in the middle of a run; the section stays, because
\* the application holds it.
Die ==
    /\ phase \in {"writing", "erasing"}
    /\ phase' = "dead"
    /\ UNCHANGED <<program, memory, written, cpu, k, disturbed>>

Test == BeginRun \/ TestWrite \/ BeginErase \/ TestErase \/ EndRun \/ Die
-----------------------------------------------------------------------------
\* After set_pc, which main calls first; the application has created the
\* section, or no test has a run in it.
Init ==
    /\ program \in Programs
    /\ memory = [a \in Cells |-> mips_nop]
    /\ written = 0
    /\ Flow!Init
    /\ phase = "idle"
    /\ k = 0
    /\ disturbed = FALSE

Next == Write \/ Tick \/ Test

\* The thread of the application is scheduled; nothing is assumed of the test.
Fairness == WF_vars(Write) /\ WF_vars(Tick)

Spec == Init /\ [][Next]_vars

FairSpec == Spec /\ Fairness
-----------------------------------------------------------------------------
(* Properties.                                                             *)

\* Whatever the test process overwrites and whatever branches meet in delay
\* slots, words are fetched from whole words of memory.
TypeOK ==
    /\ program \in Programs
    /\ memory \in [Cells -> Word]
    /\ written \in 0 .. Len(program)
    /\ Flow!TypeOK
    /\ pc % 4 = 0 /\ next_pc % 4 = 0
    /\ phase \in {"idle", "writing", "erasing", "dead"}
    /\ k \in 0 .. Len(TestProgram)
    /\ disturbed \in BOOLEAN

Source == INSTANCE Assembly
          WITH Regs <- Registers, here <- pc, pending <- Flow!InFlight,
               reg <- gpr, lost <- disturbed

\* The application executes the program as it was written in assembly
\* language, unless a run of a test process overlaps with it: no field of an
\* instruction is lost between encoding and execution, and runs of the test
\* that were over before leave nothing behind.
ImplementsAssembly == Source!ASpec

\* No instruction of the program goes back.
ForwardOnly ==
    \A j \in 1 .. Len(program) :
        LET i == program[j] IN
        /\ i.op \in Branches => i.imm > 0
        /\ i.op \in Jumps => i.target > Base + 4 * (j - 1)

\* The loop of main is endless and BREAK does not stop it, but a program that
\* never goes back does not run for ever: it falls through the NOPs behind it
\* to the end of memory and the process dies there, whatever a test process
\* writes in between.
ForwardEnds == ForwardOnly => <>(~ running)

=============================================================================
