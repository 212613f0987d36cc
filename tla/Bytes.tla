------------------------------- MODULE Bytes -------------------------------
(***************************************************************************)
(* Bytes and the numbers that several of them are, least significant       *)
(* first, as in registers and memory of the build's machine.               *)
(***************************************************************************)
EXTENDS Integers

CONSTANT ByteSize   \* the number of values of a byte (256)

ASSUME ByteAssumption == ByteSize \in Nat /\ ByteSize > 1

Byte == 0 .. (ByteSize - 1)

Power[n \in Nat] == IF n = 0 THEN 1 ELSE ByteSize * Power[n - 1]

\* The weights of the bytes of a register, and of what is above it.
Weight == [n \in 0 .. 8 |-> Power[n]]

\* The number in the first n bytes.
Number(b, n) ==
    LET below[k \in 0 .. n] ==
            IF k = 0 THEN 0 ELSE below[k - 1] + Weight[k - 1] * b[k - 1]
    IN  below[n]

=============================================================================
