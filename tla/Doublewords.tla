---------------------------- MODULE Doublewords ----------------------------
(***************************************************************************)
(* What loads and stores promise: registers and memory are numbers, memory *)
(* is an array of doublewords that guest addresses select (several may     *)
(* select one), and an access that is naturally aligned is a division or a *)
(* replacement inside one doubleword.  An access that is not aligned has   *)
(* no effect; one outside memory is the end.  A word that was loaded is    *)
(* zero-extended.                                                          *)
(***************************************************************************)
EXTENDS Bytes

CONSTANTS Regs,       \* the general-purpose registers
          FRegs,      \* the floating-point registers
          Offsets,    \* signed immediates
          Location,   \* the doubleword that each doubleword address selects
          Numbers     \* what other instructions leave in a register

VARIABLES dword, reg, freg, alive

dvars == <<dword, reg, freg, alive>>

AddressSize == Weight[4]

Address(rs, offset) == (reg[rs] + offset) % AddressSize

Aligned(a, n) == a % n = 0

\* The doubleword of an address, if there is one.
Base(a) == a - (a % 8)

Present(a) == Base(a) \in DOMAIN Location

\* The n bytes at an aligned address, as a number.
Part(a, n) == (dword[Location[Base(a)]] \div Weight[a % 8]) % Weight[n]

\* Four bytes at any address.
FourBytes(a) ==
    Part(a, 1) + Weight[1] * Part(a + 1, 1) + Weight[2] * Part(a + 2, 1)
               + Weight[3] * Part(a + 3, 1)

\* The doubleword with the n bytes at an aligned address replaced.
Replaced(a, n, v) ==
    LET d == dword[Location[Base(a)]]
    IN  d + Weight[a % 8] * ((v % Weight[n]) - Part(a, n))

Nothing == UNCHANGED dvars

Fault == alive' = FALSE /\ UNCHANGED <<dword, reg, freg>>

Access(a, n) ==
    \/ ~ Aligned(a, n) /\ Nothing
    \/ Aligned(a, n) /\ ~ Present(a) /\ Fault

Load(a, n, rt) ==
    /\ Aligned(a, n) /\ Present(a)
    /\ reg' = [reg EXCEPT ![rt] = Part(a, n)]
    /\ UNCHANGED <<dword, freg, alive>>

LoadRight(a, rt) ==
    IF Present(a) /\ Present(a + 3)
    THEN /\ reg' = [reg EXCEPT ![rt] = FourBytes(a)]
         /\ UNCHANGED <<dword, freg, alive>>
    ELSE Fault

LoadFloat(a, rt) ==
    /\ Aligned(a, 4) /\ Present(a)
    /\ freg' = [freg EXCEPT ![rt] = Part(a, 4)]
    /\ UNCHANGED <<dword, reg, alive>>

Store(a, n, v) ==
    /\ Aligned(a, n) /\ Present(a)
    /\ dword' = [dword EXCEPT ![Location[Base(a)]] = Replaced(a, n, v)]
    /\ UNCHANGED <<reg, freg, alive>>

DInit ==
    /\ \A d \in DOMAIN dword : dword[d] = 0
    /\ reg = [r \in Regs |-> 0]
    /\ freg = [f \in FRegs |-> 0]
    /\ alive = TRUE

DNext ==
    /\ alive
    /\ \/ \E rs \in Regs, offset \in Offsets :
            LET a == Address(rs, offset) IN
            \/ \E n \in {1, 2, 4, 8}, rt \in Regs :
                 Access(a, n) \/ Load(a, n, rt) \/ Store(a, n, reg[rt])
            \/ \E rt \in Regs : LoadRight(a, rt)
            \/ \E ft \in FRegs : LoadFloat(a, ft) \/ Store(a, 4, freg[ft])
       \/ /\ \E r \in Regs, v \in Numbers : reg' = [reg EXCEPT ![r] = v]
          /\ UNCHANGED <<dword, freg, alive>>
       \/ /\ \E f \in FRegs, v \in Numbers :
               freg' = [freg EXCEPT ![f] = v % AddressSize]
          /\ UNCHANGED <<dword, reg, alive>>

DSpec == DInit /\ [][DNext]_dvars

=============================================================================
