--------------------------- MODULE TestRunsProofs ---------------------------
(***************************************************************************)
(* Memory is clean between the runs of any number of test processes, with  *)
(* programs of any size, however their runs overlap in the shared section; *)
(* and a run that does not overlap executes its own program.               *)
(***************************************************************************)
EXTENDS TestRuns, TLAPS

\* The part of type correctness that the argument needs.
Typed ==
    /\ DOMAIN mem = Cells
    /\ phase \in [Procs -> Phases]
    /\ size \in [Procs -> Nat]
    /\ k \in [Procs -> Nat]
    /\ died \in BOOLEAN

\* The cells that p has written, or found written, and is going to erase.
WillErase(p, c) ==
    \/ phase[p] = "writing" /\ c < k[p]
    \/ phase[p] = "ticking" /\ c < size[p]
    \/ phase[p] = "erasing" /\ k[p] <= c /\ c < size[p]

\* memcpy stays inside the program.
Bounded == \A p \in Procs : phase[p] = "writing" => k[p] <= size[p]

\* Every cell that is not clean is one that a process in a run will erase.
Covered ==
    ~ died => \A c \in Cells : mem[c] # NOP => \E p \in Procs : WillErase(p, c)

IInv == Typed /\ Bounded /\ Covered

LEMMA InitIInv == Init => IInv
<1> SUFFICES ASSUME Init PROVE IInv
  OBVIOUS
<1>1. Typed
  BY DEF Init, Typed, Phases
<1>2. Bounded
  BY DEF Init, Bounded
<1>3. Covered
  BY DEF Init, Covered
<1> QED
  BY <1>1, <1>2, <1>3 DEF IInv

\* A step of p that stores nothing keeps memory covered if what p was going to
\* erase it is still going to erase.
LEMMA CoveredStep ==
    ASSUME Covered, NEW p \in Procs, mem' = mem, died' = died,
           \A q \in Procs : q # p => /\ phase'[q] = phase[q]
                                     /\ size'[q] = size[q]
                                     /\ k'[q] = k[q],
           \A c \in Cells : WillErase(p, c) => WillErase(p, c)'
    PROVE  Covered'
  BY DEF Covered, WillErase

LEMMA NextIInv == IInv /\ [Next]_vars => IInv'
<1> SUFFICES ASSUME IInv, [Next]_vars PROVE IInv'
  OBVIOUS
<1> USE DEF IInv, Typed, Phases
<1>1. ASSUME NEW p \in Procs, Open(p) PROVE IInv'
  <2>1. Typed' /\ Bounded'
    <3>1. DOMAIN mem' = Cells
      BY <1>1 DEF Open
    <3>2. phase' \in [Procs -> Phases]
      BY <1>1 DEF Open, Go
    <3>3. size' \in [Procs -> Nat] /\ k' \in [Procs -> Nat]
      BY <1>1 DEF Open, NewFixture
    <3>4. \A q \in Procs : phase'[q] = "writing" => k'[q] <= size'[q]
      BY <1>1 DEF Open, Go, NewFixture, Bounded
    <3> QED
      <4>1. died' \in BOOLEAN
        BY <1>1 DEF Open
      <4> QED
        BY <3>1, <3>2, <3>3, <3>4, <4>1 DEF Bounded
  <2>2. CASE Holders = {}
    <3>1. \A c \in Cells : mem'[c] = NOP
      BY <1>1, <2>2 DEF Open
    <3> QED
      BY <2>1, <3>1 DEF Covered
  <2>3. CASE Holders # {}
    <3>1. \A c \in Cells : ~ WillErase(p, c)
      BY <1>1 DEF Open, WillErase
    <3>2. mem' = mem /\ died' = died
      BY <1>1, <2>3 DEF Open
    <3> QED
      BY <1>1, <2>1, <3>1, <3>2, CoveredStep DEF Open, Go, NewFixture
  <2> QED
    BY <2>1, <2>2, <2>3
<1>2. ASSUME NEW p \in Procs, NewTestCase(p) PROVE IInv'
  <2>1. Typed' /\ Bounded'
    BY <1>2 DEF NewTestCase, NewFixture, Bounded
  <2>2. \A c \in Cells : ~ WillErase(p, c)
    BY <1>2 DEF NewTestCase, WillErase
  <2> QED
    BY <1>2, <2>1, <2>2, CoveredStep DEF NewTestCase, NewFixture
<1>3. ASSUME NEW p \in Procs, BeginRun(p) PROVE IInv'
  <2>1. Typed' /\ Bounded'
    BY <1>3, TestRunsAssumption DEF BeginRun, Go, Bounded
  <2>2. \A c \in Cells : ~ WillErase(p, c)
    BY <1>3 DEF BeginRun, WillErase
  <2> QED
    BY <1>3, <2>1, <2>2, CoveredStep DEF BeginRun, Go
<1>4. ASSUME NEW p \in Procs, WriteWord(p) PROVE IInv'
  <2>1. Typed' /\ Bounded'
    BY <1>4 DEF WriteWord, Written, Store, Bounded
  <2>2. ASSUME ~ died', NEW c \in Cells, mem'[c] # NOP
        PROVE  \E q \in Procs : WillErase(q, c)'
    <3>1. CASE c = k[p]
      <4>1. WillErase(p, c)'
        BY <1>4, <3>1 DEF WriteWord, WillErase
      <4> QED
        BY <4>1
    <3>2. CASE c # k[p]
      <4>1. PICK q \in Procs : WillErase(q, c)
        BY <1>4, <2>2, <3>2 DEF WriteWord, Store, Covered
      <4>2. c < k[q] => c < k'[q]
        BY <1>4 DEF WriteWord, Cells
      <4>3. q # p => k'[q] = k[q]
        BY <1>4 DEF WriteWord
      <4>4. q = p => phase[q] = "writing"
        BY <1>4 DEF WriteWord
      <4>5. WillErase(q, c)'
        BY <1>4, <4>1, <4>2, <4>3, <4>4 DEF WriteWord, WillErase
      <4> QED
        BY <4>5
    <3> QED
      BY <3>1, <3>2
  <2> QED
    BY <2>1, <2>2 DEF Covered
<1>5. ASSUME NEW p \in Procs, SetPc(p) PROVE IInv'
  <2>1. Typed' /\ Bounded'
    BY <1>5 DEF SetPc, Go, Bounded
  <2>2. \A c \in Cells : WillErase(p, c) => WillErase(p, c)'
    BY <1>5 DEF SetPc, Written, Go, WillErase
  <2> QED
    BY <1>5, <2>1, <2>2, CoveredStep DEF SetPc, Go
<1>6. ASSUME NEW p \in Procs, Tick(p) PROVE IInv'
  <2>1. Typed' /\ Bounded'
    BY <1>6 DEF Tick, Bounded
  <2>2. \A c \in Cells : WillErase(p, c) => WillErase(p, c)'
    BY <1>6 DEF Tick, WillErase
  <2> QED
    BY <1>6, <2>1, <2>2, CoveredStep DEF Tick
<1>7. ASSUME NEW p \in Procs, LoopEnds(p) PROVE IInv'
  <2>1. Typed' /\ Bounded'
    BY <1>7 DEF LoopEnds, Go, Bounded
  <2>2. \A c \in Cells : WillErase(p, c) => WillErase(p, c)'
    BY <1>7 DEF LoopEnds, Go, WillErase, Cells
  <2> QED
    BY <1>7, <2>1, <2>2, CoveredStep DEF LoopEnds, Go
<1>8. ASSUME NEW p \in Procs, EraseWord(p) PROVE IInv'
  <2>1. Typed' /\ Bounded'
    BY <1>8 DEF EraseWord, Erased, Store, Bounded
  <2>2. ASSUME ~ died', NEW c \in Cells, mem'[c] # NOP
        PROVE  \E q \in Procs : WillErase(q, c)'
    <3>1. c # k[p] /\ mem[c] # NOP /\ ~ died
      BY <1>8, <2>2 DEF EraseWord, Store
    <3>2. PICK q \in Procs : WillErase(q, c)
      BY <3>1 DEF Covered
    <3>3. q # p => k'[q] = k[q]
      BY <1>8 DEF EraseWord
    <3>4. q = p => phase[q] = "erasing" /\ k'[q] = k[q] + 1
      BY <1>8 DEF EraseWord
    <3>5. c \in Int
      BY DEF Cells
    <3>6. WillErase(q, c)'
      BY <1>8, <3>1, <3>2, <3>3, <3>4, <3>5 DEF EraseWord, WillErase
    <3> QED
      BY <3>6
  <2> QED
    BY <2>1, <2>2 DEF Covered
<1>9. ASSUME NEW p \in Procs, EndRun(p) PROVE IInv'
  <2>1. Typed' /\ Bounded'
    BY <1>9 DEF EndRun, Go, Bounded
  <2>2. \A c \in Cells : ~ WillErase(p, c)
    BY <1>9 DEF EndRun, Erased, WillErase, Cells
  <2> QED
    BY <1>9, <2>1, <2>2, CoveredStep DEF EndRun, Go
<1>10. ASSUME NEW p \in Procs, Require(p) \/ Exit(p) PROVE IInv'
  <2>1. Typed' /\ Bounded'
    BY <1>10 DEF Require, Exit, Go, Bounded
  <2>2. \A c \in Cells : ~ WillErase(p, c)
    BY <1>10 DEF Require, Exit, WillErase
  <2> QED
    BY <1>10, <2>1, <2>2, CoveredStep DEF Require, Exit, Go
<1>11. ASSUME NEW p \in Procs, Die(p) PROVE IInv'
  <2>1. Typed' /\ Bounded'
    BY <1>11 DEF Die, Go, Bounded
  <2>2. CASE died'
    BY <2>1, <2>2 DEF Covered
  <2>3. CASE ~ died'
    <3>1. \A c \in Cells : ~ WillErase(p, c)
      BY <1>11, <2>3 DEF Die, Running, WillErase
    <3>2. died' = died
      BY <1>11, <2>3 DEF Die
    <3> QED
      BY <1>11, <2>1, <3>1, <3>2, CoveredStep DEF Die, Go
  <2> QED
    BY <2>2, <2>3
<1>12. CASE UNCHANGED vars
  BY <1>12 DEF vars, Bounded, Covered, WillErase
<1> QED
  BY <1>1, <1>2, <1>3, <1>4, <1>5, <1>6, <1>7, <1>8, <1>9, <1>10, <1>11,
     <1>12 DEF Next

LEMMA IInvClean == IInv => CleanBetweenRuns
  BY DEF IInv, Covered, CleanBetweenRuns, Running, WillErase

\* MMU::erase at the end of run_program undoes everything that overlapping
\* runs have written, unless a process was killed during one.
THEOREM MemoryCleanBetweenRuns == Spec => []CleanBetweenRuns
<1>1. Init => IInv
  BY InitIInv
<1>2. IInv /\ [Next]_vars => IInv'
  BY NextIInv
<1>3. IInv => CleanBetweenRuns
  BY IInvClean
<1> QED
  BY <1>1, <1>2, <1>3, PTL DEF Spec
-----------------------------------------------------------------------------
(* What a run without overlap executes.                                    *)

Contents == Instructions \cup {NOP}

Busy(p) == phase[p] \in {"writing", "ticking", "erasing", "checking"}

\* The types of the variables, process by process.
Shapes ==
    /\ mem \in [Cells -> Contents]
    /\ phase \in [Procs -> Phases]
    /\ size \in [Procs -> 0 .. MaxSize]
    /\ extra \in [Procs -> Nat]
    /\ k \in [Procs -> Nat]
    /\ trace \in [Procs -> Seq(Contents)]
    /\ runs \in [Procs -> 0 .. MaxRuns]
    /\ disturbed \in [Procs -> BOOLEAN]
    /\ died \in BOOLEAN

\* The branches pushed and not yet forgotten are those of the runs so far, and
\* the index is that of the loop the process is in.
Counted(p) ==
    /\ extra[p] <= MaxBranches * runs[p]
    /\ k[p] <= size[p] + extra[p]
    /\ Len(trace[p]) <= size[p] + extra[p]
    /\ Busy(p) => runs[p] >= 1
    /\ phase[p] = "writing" => k[p] <= size[p] /\ Len(trace[p]) = 0
    /\ phase[p] = "ticking" => Len(trace[p]) = k[p]
    /\ phase[p] = "erasing" => k[p] <= size[p]
    /\ phase[p] \in {"erasing", "checking"} => Len(trace[p]) = size[p] + extra[p]

\* As long as nobody else writes, what p has written is there when p executes
\* it, and what p has executed is what it wrote.
Own(p) ==
    ~ disturbed[p] =>
        /\ phase[p] = "writing" =>
             \A c \in 0 .. (k[p] - 1) : mem[c] = Instruction(p, c)
        /\ phase[p] = "ticking" =>
             \A c \in 0 .. (size[p] - 1) : mem[c] = Instruction(p, c)
        /\ Busy(p) => \A j \in 1 .. Len(trace[p]) :
                          j <= size[p] => trace[p][j] = Instruction(p, j - 1)

Each == \A p \in Procs : Counted(p) /\ Own(p)

\* The branches of one process never run over the cells.
LEMMA BranchBound ==
    ASSUME NEW r \in 0 .. MaxRuns
    PROVE  /\ MaxBranches * r \in Nat
           /\ MaxBranches * r <= MaxBranches * MaxRuns
           /\ MaxBranches * (r + 1) = MaxBranches * r + MaxBranches
<1>1. MaxBranches \in Nat /\ MaxRuns \in Nat /\ MaxRuns - r \in Nat
  BY TestRunsAssumption
<1>2. MaxBranches * (MaxRuns - r) >= 0
  BY <1>1
<1>3. MaxBranches * (MaxRuns - r) = MaxBranches * MaxRuns - MaxBranches * r
  BY <1>1
<1> QED
  BY <1>1, <1>2, <1>3

LEMMA CellBound ==
    ASSUME Shapes, NEW p \in Procs, Counted(p), NEW c \in Nat, c < size[p] + extra[p]
    PROVE  c \in Cells
<1>1. runs[p] \in 0 .. MaxRuns /\ size[p] \in 0 .. MaxSize /\ extra[p] \in Nat
  BY DEF Shapes
<1>2. extra[p] <= MaxBranches * MaxRuns
  <2>1. /\ MaxBranches * runs[p] \in Nat /\ MaxBranches * MaxRuns \in Nat
        /\ MaxBranches * runs[p] <= MaxBranches * MaxRuns
    BY <1>1, BranchBound, TestRunsAssumption
  <2> QED
    BY <1>1, <2>1 DEF Counted
<1> QED
  BY <1>1, <1>2, BranchBound, TestRunsAssumption DEF Cells

LEMMA InstructionType ==
    ASSUME Shapes, NEW p \in Procs, runs[p] >= 1, NEW c \in Nat, c < size[p]
    PROVE  Instruction(p, c) \in Instructions
<1>1. runs[p] \in 1 .. MaxRuns /\ c \in 0 .. (MaxSize - 1)
  BY TestRunsAssumption DEF Shapes
<1> QED
  BY <1>1 DEF Instruction, Instructions

\* A step of another process leaves alone what q has, except memory, and then
\* q is disturbed.
LEMMA OthersKeep ==
    ASSUME NEW q \in Procs, Counted(q), Own(q),
           phase'[q] = phase[q], size'[q] = size[q], extra'[q] = extra[q],
           k'[q] = k[q], trace'[q] = trace[q], runs'[q] = runs[q],
           \/ disturbed'[q]
           \/ mem' = mem /\ disturbed'[q] = disturbed[q]
           \/ ~ Busy(q) /\ disturbed'[q] = disturbed[q]
    PROVE  Counted(q)' /\ Own(q)'
<1>1. Counted(q)'
  BY DEF Counted, Busy
<1>2. Own(q)'
  BY DEF Own, Busy, Instruction
<1> QED
  BY <1>1, <1>2

LEMMA InitOwn == Init => Shapes /\ Each
<1> SUFFICES ASSUME Init PROVE Shapes /\ Each
  OBVIOUS
<1>1. Shapes
  <2>1. /\ <<>> \in Seq(Contents) /\ NOP \in Contents
        /\ 0 \in 0 .. MaxSize /\ 0 \in 0 .. MaxRuns
    BY TestRunsAssumption DEF Contents
  <2> QED
    BY <2>1 DEF Init, Shapes, Phases
<1>2. \A p \in Procs : Counted(p)
  <2> TAKE p \in Procs
  <2>1. MaxBranches * 0 = 0
    BY TestRunsAssumption
  <2> QED
    BY <2>1 DEF Init, Counted, Busy
<1>3. \A p \in Procs : Own(p)
  BY DEF Init, Own, Busy
<1> QED
  BY <1>1, <1>2, <1>3 DEF Each

\* What the other processes do not notice of a step of p, or notice at once.
Elsewhere(p) ==
    \A q \in Procs \ {p} :
        /\ phase'[q] = phase[q] /\ size'[q] = size[q] /\ extra'[q] = extra[q]
        /\ k'[q] = k[q] /\ trace'[q] = trace[q] /\ runs'[q] = runs[q]
        /\ \/ disturbed'[q]
           \/ mem' = mem /\ disturbed'[q] = disturbed[q]
           \/ ~ Busy(q) /\ disturbed'[q] = disturbed[q]

LEMMA EachAfter ==
    ASSUME Each, NEW p \in Procs, Elsewhere(p), Counted(p)', Own(p)'
    PROVE  Each'
<1> SUFFICES ASSUME NEW q \in Procs PROVE Counted(q)' /\ Own(q)'
  BY DEF Each
<1>1. CASE q = p
  BY <1>1
<1>2. CASE q # p
  <2>1. Counted(q) /\ Own(q)
    BY DEF Each
  <2> QED
    BY <1>2, <2>1, OthersKeep DEF Elsewhere
<1> QED
  BY <1>1, <1>2

\* The steps between runs.
LEMMA IdleStep ==
    ASSUME Shapes, Each, NEW p \in Procs,
           \/ Open(p) \/ NewTestCase(p) \/ Require(p) \/ Exit(p) \/ Die(p)
    PROVE  Shapes' /\ Each'
<1> USE DEF Go, NewFixture
<1>1. Shapes' /\ Elsewhere(p)
  <2>1. CASE Open(p)
    <3>1. mem' = mem \/ (Holders = {} /\ mem' = [c \in Cells |-> NOP])
      BY <2>1 DEF Open
    <3>2. mem' \in [Cells -> Contents]
      BY <3>1 DEF Shapes, Contents
    <3>3. <<>> \in Seq(Contents) /\ 0 \in 0 .. MaxSize
      BY TestRunsAssumption
    <3>4. Shapes'
      BY <2>1, <3>2, <3>3 DEF Open, Shapes, Phases
    <3>5. Holders = {} => \A q \in Procs : ~ Busy(q)
      BY DEF Holders, Busy
    <3> QED
      BY <2>1, <3>1, <3>4, <3>5 DEF Open, Elsewhere, Shapes
  <2>2. CASE NewTestCase(p)
    <3>1. <<>> \in Seq(Contents) /\ 0 \in 0 .. MaxSize
      BY TestRunsAssumption
    <3> QED
      BY <2>2, <3>1 DEF NewTestCase, Shapes, Elsewhere
  <2>3. CASE Require(p) \/ Exit(p)
    BY <2>3 DEF Require, Exit, Shapes, Phases, Elsewhere
  <2>4. CASE Die(p)
    BY <2>4 DEF Die, Shapes, Phases, Elsewhere
  <2> QED
    BY <2>1, <2>2, <2>3, <2>4
<1>2. ~ Busy(p)'
  BY DEF Open, NewTestCase, Require, Exit, Die, Busy, Shapes
<1>3. /\ runs'[p] = runs[p]
      /\ \/ size'[p] = size[p] /\ extra'[p] = extra[p] /\ k'[p] = k[p] /\ trace'[p] = trace[p]
         \/ size'[p] = 0 /\ extra'[p] = 0 /\ k'[p] = 0 /\ trace'[p] = <<>>
  BY DEF Open, NewTestCase, Require, Exit, Die, Shapes
<1>4. MaxBranches * runs[p] >= 0
  BY BranchBound DEF Shapes
<1>5. Counted(p)'
  BY <1>2, <1>3, <1>4 DEF Counted, Each, Busy
<1>6. Own(p)'
  BY <1>2 DEF Own, Busy
<1> QED
  BY <1>1, <1>5, <1>6, EachAfter

LEMMA BeginStep ==
    ASSUME Shapes, Each, NEW p \in Procs, BeginRun(p)
    PROVE  Shapes' /\ Each'
<1> USE DEF Go
<1>1. PICK n \in 1 .. MaxSize, b \in 0 .. MaxBranches :
          /\ size' = [size EXCEPT ![p] = n]
          /\ extra' = [extra EXCEPT ![p] = @ + b]
  BY DEF BeginRun
<1>2. /\ size'[p] = n /\ extra'[p] = extra[p] + b /\ k'[p] = 0
      /\ trace'[p] = <<>> /\ runs'[p] = runs[p] + 1 /\ runs[p] < MaxRuns
      /\ phase'[p] = "writing"
  BY <1>1 DEF BeginRun, Shapes
<1>3. /\ runs[p] \in 0 .. MaxRuns /\ extra[p] \in Nat
      /\ b \in Nat /\ b <= MaxBranches /\ n \in Nat /\ MaxBranches \in Nat
  BY TestRunsAssumption DEF Shapes
<1>4. Shapes'
  <2>1. size' \in [Procs -> 0 .. MaxSize] /\ extra' \in [Procs -> Nat]
    BY <1>1, <1>3 DEF Shapes
  <2>2. runs' \in [Procs -> 0 .. MaxRuns]
    BY TestRunsAssumption DEF BeginRun, Shapes
  <2>3. <<>> \in Seq(Contents)
    OBVIOUS
  <2> QED
    BY <2>1, <2>2, <2>3 DEF BeginRun, Shapes, Phases
<1>5. Elsewhere(p)
  BY <1>1 DEF BeginRun, Elsewhere, Shapes
<1>6. Counted(p)'
  <2>1. MaxBranches * (runs[p] + 1) = MaxBranches * runs[p] + MaxBranches
    BY <1>3, BranchBound
  <2>2. MaxBranches * runs[p] \in Nat
    BY <1>3, BranchBound
  <2>3. extra[p] <= MaxBranches * runs[p]
    BY DEF Each, Counted
  <2>4. extra[p] + b <= MaxBranches * (runs[p] + 1)
    BY <1>3, <2>1, <2>2, <2>3
  <2> QED
    BY <1>2, <1>3, <2>4 DEF Counted, Busy
<1>7. Own(p)'
  BY <1>2 DEF Own, Busy
<1> QED
  BY <1>4, <1>5, <1>6, <1>7, EachAfter

\* One word of memcpy is there, whatever the cell held.
LEMMA WriteStep ==
    ASSUME Shapes, Each, NEW p \in Procs, WriteWord(p)
    PROVE  Shapes' /\ Each'
<1>1. Counted(p) /\ Own(p) /\ phase[p] = "writing" /\ k[p] < size[p] /\ k[p] \in Nat
      /\ size[p] \in Nat /\ extra[p] \in Nat
  BY DEF Each, WriteWord, Written, Shapes
<1>2. k[p] \in Cells
  BY <1>1, CellBound
<1>3. Instruction(p, k[p]) \in Contents
  BY <1>1, InstructionType DEF Counted, Busy, Contents
<1>4. Shapes'
  <2>1. mem' \in [Cells -> Contents]
    BY <1>3 DEF WriteWord, Store, Shapes
  <2>2. k' \in [Procs -> Nat]
    BY DEF WriteWord, Shapes
  <2>3. disturbed' \in [Procs -> BOOLEAN]
    BY DEF WriteWord, Store, Shapes
  <2> QED
    BY <2>1, <2>2, <2>3 DEF WriteWord, Shapes
<1>5. Elsewhere(p)
  BY DEF WriteWord, Store, Elsewhere, Shapes
<1>6. /\ k'[p] = k[p] + 1 /\ mem' = [mem EXCEPT ![k[p]] = Instruction(p, k[p])]
      /\ disturbed'[p] = disturbed[p] /\ UNCHANGED <<phase, size, extra, trace, runs>>
  BY DEF WriteWord, Store, Shapes
<1>7. Counted(p)'
  BY <1>1, <1>6 DEF Counted, Busy
<1>8. Own(p)'
  <2> SUFFICES ASSUME ~ disturbed[p] PROVE Own(p)'
    BY <1>6 DEF Own
  <2>1. ASSUME NEW c \in 0 .. k[p] PROVE mem'[c] = Instruction(p, c)
    BY <1>1, <1>2, <1>6 DEF Own, Shapes
  <2>2. Instruction(p, 0)' = Instruction(p, 0) /\ \A c : Instruction(p, c)' = Instruction(p, c)
    BY <1>6 DEF Instruction
  <2> QED
    BY <1>1, <1>6, <2>1, <2>2 DEF Own, Counted
<1> QED
  BY <1>4, <1>5, <1>7, <1>8, EachAfter

\* A tick executes what memory holds.
LEMMA TickStep ==
    ASSUME Shapes, Each, NEW p \in Procs, Tick(p)
    PROVE  Shapes' /\ Each'
<1>1. /\ Counted(p) /\ Own(p) /\ phase[p] = "ticking" /\ k[p] < size[p] + extra[p]
      /\ k[p] \in Nat /\ size[p] \in Nat /\ extra[p] \in Nat /\ trace[p] \in Seq(Contents)
  BY DEF Each, Tick, Shapes
<1>2. k[p] \in Cells /\ mem[k[p]] \in Contents
  BY <1>1, CellBound DEF Shapes
<1>3. /\ k'[p] = k[p] + 1 /\ trace'[p] = Append(trace[p], mem[k[p]])
      /\ UNCHANGED <<mem, phase, size, extra, runs, disturbed>>
  BY DEF Tick, Shapes
<1>4. Append(trace[p], mem[k[p]]) \in Seq(Contents)
  BY <1>1, <1>2
<1>5. Shapes'
  BY <1>1, <1>4 DEF Tick, Shapes
<1>6. Elsewhere(p)
  BY DEF Tick, Elsewhere
<1>7. Len(trace'[p]) = Len(trace[p]) + 1 /\ Len(trace[p]) = k[p]
  BY <1>1, <1>2, <1>3 DEF Counted
<1>8. Counted(p)'
  BY <1>1, <1>3, <1>7 DEF Counted, Busy
<1>9. Own(p)'
  <2> SUFFICES ASSUME ~ disturbed[p] PROVE Own(p)'
    BY <1>3 DEF Own
  <2>1. \A c : Instruction(p, c)' = Instruction(p, c)
    BY <1>3 DEF Instruction
  <2>2. ASSUME NEW j \in 1 .. (k[p] + 1), j <= size[p]
        PROVE  trace'[p][j] = Instruction(p, j - 1)
    <3>1. CASE j <= k[p]
      <4>1. trace'[p][j] = trace[p][j]
        BY <1>1, <1>2, <1>3, <1>7, <3>1
      <4> QED
        BY <1>1, <1>7, <2>2, <3>1, <4>1 DEF Own, Busy
    <3>2. CASE j = k[p] + 1
      <4>1. trace'[p][j] = mem[k[p]]
        BY <1>1, <1>2, <1>3, <1>7, <3>2
      <4>2. mem[k[p]] = Instruction(p, k[p])
        BY <1>1, <2>2, <3>2 DEF Own
      <4> QED
        BY <1>1, <3>2, <4>1, <4>2
    <3> QED
      BY <1>1, <3>1, <3>2
  <2> QED
    BY <1>1, <1>3, <1>7, <2>1, <2>2 DEF Own
<1> QED
  BY <1>5, <1>6, <1>8, <1>9, EachAfter

\* The steps from one loop to the next, and the erasure, which nobody reads.
LEMMA LoopStep ==
    ASSUME Shapes, Each, NEW p \in Procs,
           SetPc(p) \/ LoopEnds(p) \/ EraseWord(p) \/ EndRun(p)
    PROVE  Shapes' /\ Each'
<1> USE DEF Go
<1>1. /\ Counted(p) /\ Own(p) /\ k[p] \in Nat /\ size[p] \in Nat
      /\ extra[p] \in Nat /\ trace[p] \in Seq(Contents)
  BY DEF Each, Shapes
<1>2. Shapes' /\ Elsewhere(p)
  <2>1. CASE EraseWord(p)
    <3>1. mem' \in [Cells -> Contents]
      BY <2>1 DEF EraseWord, Store, Shapes, Contents
    <3>2. k' \in [Procs -> Nat]
      BY <2>1 DEF EraseWord, Shapes
    <3>3. disturbed' \in [Procs -> BOOLEAN]
      BY <2>1 DEF EraseWord, Store, Shapes
    <3>4. Shapes'
      BY <2>1, <3>1, <3>2, <3>3 DEF EraseWord, Shapes
    <3>5. Elsewhere(p)
      BY <2>1 DEF EraseWord, Store, Elsewhere, Shapes
    <3> QED
      BY <3>4, <3>5
  <2>2. CASE SetPc(p)
    BY <2>2 DEF SetPc, Shapes, Phases, Elsewhere
  <2>3. CASE LoopEnds(p)
    BY <2>3 DEF LoopEnds, Shapes, Phases, Elsewhere
  <2>4. CASE EndRun(p)
    BY <2>4 DEF EndRun, Shapes, Phases, Elsewhere
  <2> QED
    BY <2>1, <2>2, <2>3, <2>4
<1>4. UNCHANGED <<size, extra, trace, runs>> /\ disturbed'[p] = disturbed[p]
  BY DEF SetPc, LoopEnds, EraseWord, EndRun, Store, Shapes
<1>5. Counted(p)' /\ Own(p)'
  <2>1. CASE SetPc(p)
    <3>1. k'[p] = 0 /\ phase'[p] = "ticking" /\ mem' = mem /\ k[p] = size[p]
          /\ phase[p] = "writing"
      BY <2>1 DEF SetPc, Written, Shapes
    <3> QED
      BY <1>1, <1>4, <3>1 DEF Counted, Own, Busy, Instruction
  <2>2. CASE LoopEnds(p)
    <3>1. k'[p] = 0 /\ phase'[p] = "erasing" /\ k[p] = size[p] + extra[p]
          /\ phase[p] = "ticking"
      BY <2>2 DEF LoopEnds, Shapes
    <3> QED
      BY <1>1, <1>4, <3>1 DEF Counted, Own, Busy, Instruction
  <2>3. CASE EraseWord(p)
    <3>1. k'[p] = k[p] + 1 /\ phase'[p] = "erasing" /\ k[p] < size[p]
          /\ phase[p] = "erasing"
      BY <2>3 DEF EraseWord, Erased, Shapes
    <3> QED
      BY <1>1, <1>4, <3>1 DEF Counted, Own, Busy, Instruction
  <2>4. CASE EndRun(p)
    <3>1. k'[p] = k[p] /\ phase'[p] = "checking" /\ phase[p] = "erasing"
      BY <2>4 DEF EndRun, Shapes
    <3> QED
      BY <1>1, <1>4, <3>1 DEF Counted, Own, Busy, Instruction
  <2> QED
    BY <2>1, <2>2, <2>3, <2>4
<1> QED
  BY <1>2, <1>5, EachAfter

LEMMA NextOwn == Shapes /\ Each /\ [Next]_vars => Shapes' /\ Each'
<1> SUFFICES ASSUME Shapes, Each, [Next]_vars PROVE Shapes' /\ Each'
  OBVIOUS
<1>1. CASE Next
  BY <1>1, IdleStep, BeginStep, WriteStep, TickStep, LoopStep DEF Next
<1>2. CASE UNCHANGED vars
  BY <1>2 DEF vars, Shapes, Each, Counted, Own, Busy, Instruction
<1> QED
  BY <1>1, <1>2

\* Indices stay inside the cells and loops inside their counts, however the
\* branches of several runs add up and whatever dies.
THEOREM TypeCorrect == Spec => []TypeOK
<1>1. Init => Shapes /\ Each
  BY InitOwn
<1>2. Shapes /\ Each /\ [Next]_vars => Shapes' /\ Each'
  BY NextOwn
<1>3. Shapes /\ Each => TypeOK
  <2> SUFFICES ASSUME Shapes, Each PROVE TypeOK
    OBVIOUS
  <2>1. \A p \in Procs : extra[p] \in 0 .. (MaxBranches * MaxRuns)
    <3> TAKE p \in Procs
    <3>1. extra[p] \in Nat /\ runs[p] \in 0 .. MaxRuns /\ extra[p] <= MaxBranches * runs[p]
      BY DEF Shapes, Each, Counted
    <3>2. /\ MaxBranches * runs[p] \in Nat /\ MaxBranches * MaxRuns \in Nat
          /\ MaxBranches * runs[p] <= MaxBranches * MaxRuns
      <4>1. MaxRuns \in 0 .. MaxRuns
        BY TestRunsAssumption
      <4> QED
        BY <3>1, <4>1, BranchBound
    <3> QED
      BY <3>1, <3>2
  <2>2. \A p \in Procs : k[p] \in 0 .. (size[p] + extra[p])
    BY DEF Shapes, Each, Counted
  <2>3. \A p \in Procs : Len(trace[p]) <= size[p] + extra[p]
    BY DEF Each, Counted
  <2> QED
    BY <2>1, <2>2, <2>3 DEF Shapes, TypeOK, Contents
<1> QED
  BY <1>1, <1>2, <1>3, PTL DEF Spec

LEMMA OwnTrace == Shapes /\ Each => UndisturbedRunsOwn
<1> SUFFICES ASSUME Shapes, Each, NEW p \in Procs,
                    phase[p] = "checking", ~ disturbed[p]
             PROVE  IsPrefix(Program(p), trace[p])
  BY DEF UndisturbedRunsOwn
<1>1. /\ size[p] \in Nat /\ extra[p] \in Nat /\ trace[p] \in Seq(Contents)
      /\ Len(trace[p]) = size[p] + extra[p]
  BY DEF Shapes, Each, Counted
<1>2. \A j \in 1 .. size[p] : trace[p][j] = Instruction(p, j - 1)
  <2>1. Own(p) /\ Busy(p)
    BY DEF Each, Busy
  <2> QED
    BY <1>1, <2>1 DEF Own
<1> DEFINE s == Program(p)
<1>3. Len(s) = size[p] /\ \A j \in 1 .. size[p] : s[j] = Instruction(p, j - 1)
  BY <1>1 DEF Program
<1>4. SubSeq(s, 1, size[p]) = [j \in 1 .. size[p] |-> s[j]]
  BY <1>1, <1>3
<1>5. SubSeq(trace[p], 1, size[p]) = [j \in 1 .. size[p] |-> trace[p][j]]
  BY <1>1
<1>6. Len(s) <= Len(trace[p]) /\ SubSeq(s, 1, Len(s)) = SubSeq(trace[p], 1, Len(s))
  <2> HIDE DEF s
  <2> QED
    BY <1>1, <1>2, <1>3, <1>4, <1>5
<1> QED
  BY <1>6 DEF IsPrefix

\* A run that no other process writes into executes the program it was given,
\* whatever was in memory before: the dirt of a killed process is overwritten
\* before the loop over tick reads it.
THEOREM UndisturbedRuns == Spec => []UndisturbedRunsOwn
<1>1. Init => Shapes /\ Each
  BY InitOwn
<1>2. Shapes /\ Each /\ [Next]_vars => Shapes' /\ Each'
  BY NextOwn
<1>3. Shapes /\ Each => UndisturbedRunsOwn
  BY OwnTrace
<1> QED
  BY <1>1, <1>2, <1>3, PTL DEF Spec

=============================================================================
