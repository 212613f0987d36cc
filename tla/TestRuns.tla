------------------------------ MODULE TestRuns ------------------------------
(***************************************************************************)
(* Test processes and the memory they share.  The constructor of MMU       *)
(* creates EE main memory as a section with a name, so a second process    *)
(* opens the memory of the first.  Each test executable runs test cases;   *)
(* each run of the fixture (run_program in test/epcs2_r5900_isa_test.h)    *)
(* copies a program to one fixed address, executes it, erases it, and then *)
(* the test case checks the registers.                                     *)
(*                                                                         *)
(* Memory is the cells from that address on, one instruction each; a       *)
(* program is a straight line of instructions that carry the process and   *)
(* the run they belong to.  What the REQUIREs of a test case see is        *)
(* determined by the instructions executed, which trace records.           *)
(***************************************************************************)
EXTENDS Naturals, Sequences, SequencesExt

CONSTANTS Procs,       \* the test executables
          MaxSize,     \* the longest program
          MaxBranches, \* calls of push_branch_inst before a run
          MaxRuns,     \* bound: runs of each process
          MayDie       \* whether a process can be killed

ASSUME TestRunsAssumption ==
    /\ MaxSize \in Nat \ {0}
    /\ MaxBranches \in Nat
    /\ MaxRuns \in Nat
    /\ MayDie \in BOOLEAN

VARIABLES
    mem,      \* the cells of the named section
    phase,    \* what each process is doing
    size,     \* instructions.size()
    extra,    \* extra_execution_instructions
    k,        \* progress of memcpy, of the loop over tick, of memset
    trace,    \* the instructions executed in this run
    runs,     \* runs begun
    disturbed, \* history: another process wrote to mem during this run
    died      \* history: a process was killed during a run

vars == <<mem, phase, size, extra, k, trace, runs, disturbed, died>>

\* An instruction word of zero, which no process put there.
NOP == << >>

\* A program can run over its end by the branches of all runs so far.
Cells == 0 .. (MaxSize + MaxBranches * MaxRuns - 1)

Instructions == Procs \X (1 .. MaxRuns) \X (0 .. (MaxSize - 1))

Phases == {"closed", "idle", "writing", "ticking", "erasing", "checking"}

\* The processes that hold a view of the section.
Holders == {p \in Procs : phase[p] # "closed"}

\* run_program is between its first write and the end of its last erase.
Running == {p \in Procs : phase[p] \in {"writing", "ticking", "erasing"}}

Instruction(p, i) == <<p, runs[p], i>>

Program(p) == [i \in 1 .. size[p] |-> Instruction(p, i - 1)]

\* A store of p to the section, as the others notice it.
Store(p, cell, value) ==
    /\ mem' = [mem EXCEPT ![cell] = value]
    /\ disturbed' = [q \in Procs |-> disturbed[q] \/ q # p]

Go(p, next) == phase' = [phase EXCEPT ![p] = next]
\* A fixture as its constructor leaves it.
NewFixture(p) ==
    /\ size' = [size EXCEPT ![p] = 0]
    /\ extra' = [extra EXCEPT ![p] = 0]
    /\ k' = [k EXCEPT ![p] = 0]
    /\ trace' = [trace EXCEPT ![p] = <<>>]
-----------------------------------------------------------------------------
\* CreateFileMapping with a name: the section exists while someone holds it,
\* and is zero when it is created.
Open(p) ==
    /\ phase[p] = "closed"
    /\ Go(p, "idle")
    /\ mem' = IF Holders = {} THEN [c \in Cells |-> NOP] ELSE mem
    /\ NewFixture(p)
    /\ UNCHANGED <<runs, disturbed, died>>

\* The test case is over, and its fixture gone; the next has a new fixture.
NewTestCase(p) ==
    /\ phase[p] = "idle"
    /\ NewFixture(p)
    /\ UNCHANGED <<mem, phase, runs, disturbed, died>>

\* The instructions are pushed and run_program is called.
BeginRun(p) ==
    /\ phase[p] = "idle"
    /\ runs[p] < MaxRuns
    /\ \E n \in 1 .. MaxSize : size' = [size EXCEPT ![p] = n]
    /\ \E b \in 0 .. MaxBranches : extra' = [extra EXCEPT ![p] = @ + b]
    /\ runs' = [runs EXCEPT ![p] = @ + 1]
    /\ trace' = [trace EXCEPT ![p] = <<>>]
    /\ disturbed' = [disturbed EXCEPT ![p] = FALSE]
    /\ k' = [k EXCEPT ![p] = 0]
    /\ Go(p, "writing")
    /\ UNCHANGED <<mem, died>>

\* The words of a copy or a fill that is given size() bytes.
CountedInBytes(p) == (size[p] + 3) \div 4

\* instructions.size() * sizeof(uint32_t), the bytes given to MMU::write.
Written(p) == size[p]

\* MMU::write, one word of its memcpy.
WriteWord(p) ==
    /\ phase[p] = "writing"
    /\ k[p] < Written(p)
    /\ Store(p, k[p], Instruction(p, k[p]))
    /\ k' = [k EXCEPT ![p] = @ + 1]
    /\ UNCHANGED <<phase, size, extra, trace, runs, died>>

\* set_pc, at the beginning of the program.
SetPc(p) ==
    /\ phase[p] = "writing"
    /\ k[p] = Written(p)
    /\ k' = [k EXCEPT ![p] = 0]
    /\ Go(p, "ticking")
    /\ UNCHANGED <<mem, size, extra, trace, runs, disturbed, died>>

\* The loop with <= for <.
TickOnceMore(p) ==
    /\ phase[p] = "ticking"
    /\ k[p] <= size[p] + extra[p]
    /\ trace' = [trace EXCEPT ![p] = Append(@, mem[k[p]])]
    /\ k' = [k EXCEPT ![p] = @ + 1]
    /\ UNCHANGED <<mem, phase, size, extra, runs, disturbed, died>>

\* One tick: whatever is in memory is executed.
Tick(p) ==
    /\ phase[p] = "ticking"
    /\ k[p] < size[p] + extra[p]
    /\ trace' = [trace EXCEPT ![p] = Append(@, mem[k[p]])]
    /\ k' = [k EXCEPT ![p] = @ + 1]
    /\ UNCHANGED <<mem, phase, size, extra, runs, disturbed, died>>

LoopEnds(p) ==
    /\ phase[p] = "ticking"
    /\ k[p] = size[p] + extra[p]
    /\ k' = [k EXCEPT ![p] = 0]
    /\ Go(p, "erasing")
    /\ UNCHANGED <<mem, size, extra, trace, runs, disturbed, died>>

\* The bytes given to MMU::erase.
Erased(p) == size[p]

\* MMU::erase, one word of its memset.
EraseWord(p) ==
    /\ phase[p] = "erasing"
    /\ k[p] < Erased(p)
    /\ Store(p, k[p], NOP)
    /\ k' = [k EXCEPT ![p] = @ + 1]
    /\ UNCHANGED <<phase, size, extra, trace, runs, died>>

\* instructions.clear(), and run_program returns to the test case.
EndRun(p) ==
    /\ phase[p] = "erasing"
    /\ k[p] = Erased(p)
    /\ Go(p, "checking")
    /\ UNCHANGED <<mem, size, extra, k, trace, runs, disturbed, died>>

\* The REQUIREs of the test case have looked at the registers.
Require(p) ==
    /\ phase[p] = "checking"
    /\ Go(p, "idle")
    /\ UNCHANGED <<mem, size, extra, k, trace, runs, disturbed, died>>

\* The destructor of MMU::self closes the section at the end of the process.
Exit(p) ==
    /\ phase[p] = "idle"
    /\ Go(p, "closed")
    /\ UNCHANGED <<mem, size, extra, k, trace, runs, disturbed, died>>

\* The process is killed; the system closes its handles.
Die(p) ==
    /\ MayDie
    /\ phase[p] # "closed"
    /\ died' = (died \/ p \in Running)
    /\ Go(p, "closed")
    /\ UNCHANGED <<mem, size, extra, k, trace, runs, disturbed>>
-----------------------------------------------------------------------------
Init ==
    /\ mem = [c \in Cells |-> NOP]
    /\ phase = [p \in Procs |-> "closed"]
    /\ size = [p \in Procs |-> 0]
    /\ extra = [p \in Procs |-> 0]
    /\ k = [p \in Procs |-> 0]
    /\ trace = [p \in Procs |-> <<>>]
    /\ runs = [p \in Procs |-> 0]
    /\ disturbed = [p \in Procs |-> FALSE]
    /\ died = FALSE

Next ==
    \E p \in Procs :
        \/ Open(p)
        \/ NewTestCase(p)
        \/ BeginRun(p)
        \/ WriteWord(p)
        \/ SetPc(p)
        \/ Tick(p)
        \/ LoopEnds(p)
        \/ EraseWord(p)
        \/ EndRun(p)
        \/ Require(p)
        \/ Exit(p)
        \/ Die(p)

Spec == Init /\ [][Next]_vars
-----------------------------------------------------------------------------
(* Properties.                                                             *)

\* Indices stay inside the cells, and the loop inside its count.
TypeOK ==
    /\ mem \in [Cells -> Instructions \cup {NOP}]
    /\ phase \in [Procs -> Phases]
    /\ size \in [Procs -> 0 .. MaxSize]
    /\ extra \in [Procs -> 0 .. (MaxBranches * MaxRuns)]
    /\ \A p \in Procs : k[p] \in 0 .. (size[p] + extra[p])
    /\ \A p \in Procs : Len(trace[p]) <= size[p] + extra[p]
    /\ runs \in [Procs -> 0 .. MaxRuns]
    /\ disturbed \in [Procs -> BOOLEAN]
    /\ died \in BOOLEAN

\* When a test case looks at the registers, exactly the program it pushed has
\* been executed: what every REQUIRE after run_program takes for granted.
OwnProgramRuns ==
    \A p \in Procs :
        phase[p] = "checking" =>
            SelectSeq(trace[p], LAMBDA i : i # NOP) = Program(p)

\* The same, of the instructions inside the program, for a run during which no
\* other process wrote to the shared memory: what other processes left there
\* before, dead in the middle of a run or not, does no harm.
UndisturbedRunsOwn ==
    \A p \in Procs :
        phase[p] = "checking" /\ ~ disturbed[p] =>
            IsPrefix(Program(p), trace[p])

\* However the runs of the processes overlap, memory is clean again when none
\* is in one, unless a process was killed during a run: every word written is
\* erased after the last write to it.
CleanBetweenRuns ==
    Running = {} /\ ~ died => \A c \in Cells : mem[c] = NOP

=============================================================================
