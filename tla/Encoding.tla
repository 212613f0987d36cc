------------------------------ MODULE Encoding ------------------------------
(***************************************************************************)
(* The formats of instructions (src/src/mips_instr.h): what the encode     *)
(* functions of a caller that assembles a program put into a word, and     *)
(* what the decode functions of tick take out of it.  A field of the word  *)
(* is a digit: it is the number of its values that counts and not its      *)
(* width, so a shift by the width of a field is a division and a mask a    *)
(* remainder, and joining fields that fit with | is a sum.                 *)
(***************************************************************************)
EXTENDS Words

CONSTANTS RegSize,  \* values of a register field (32 in the source)
          SaSize,   \* values of sa (32)
          FuncSize  \* values of func (64)

\* Values of the opcode field, of the 16-bit immediate and of the 26-bit target.
OpcodeSize == 64

ImmSize == RegSize * (SaSize * FuncSize)

TargetSize == RegSize * (RegSize * ImmSize)

ASSUME EncodingAssumption ==
    /\ RegSize \in Nat \ {0}
    /\ SaSize \in Nat \ {0}
    /\ FuncSize \in Nat /\ FuncSize > 15 /\ FuncSize % 2 = 0
    /\ WordSize = OpcodeSize * TargetSize

Opcodes   == 0 .. (OpcodeSize - 1)
Registers == 0 .. (RegSize - 1)
Amounts   == 0 .. (SaSize - 1)
Functions == 0 .. (FuncSize - 1)
Codes     == 0 .. (RegSize * (RegSize * (RegSize * SaSize)) - 1)

\* int16_t
Immediates == -(ImmSize \div 2) .. (ImmSize \div 2 - 1)

MIPS_OP_SPECIAL == 0
MIPS_OP_J       == 2
MIPS_OP_JAL     == 3
MIPS_OP_BEQ     == 4
MIPS_OP_BNE     == 5
MIPS_OP_BLEZ    == 6
MIPS_OP_BGTZ    == 7
MIPS_OP_ADDI    == 8
MIPS_OP_BEQL    == 20
MIPS_OP_BNEL    == 21
MIPS_OP_BLEZL   == 22
MIPS_OP_BGTZL   == 23

\* SYSCALL, BREAK and SYNC.
MIPS_SPECIAL_SYSCALL == 12
MIPS_SPECIAL_BREAK   == 13
MIPS_SPECIAL_SYNC    == 15

mips_nop == 0

mips_break0 == 13
-----------------------------------------------------------------------------
(* Decoding.                                                               *)

decode_opcode(i) == i \div TargetSize

decode_rs(i) == (i \div (RegSize * ImmSize)) % RegSize

decode_rt(i) == (i \div ImmSize) % RegSize

decode_rd(i) == (i \div (SaSize * FuncSize)) % RegSize

decode_sa(i) == (i \div FuncSize) % SaSize

decode_func(i) == i % FuncSize

decode_imm_u16(i) == i % ImmSize

decode_imm_i16(i) ==
    LET u == decode_imm_u16(i) IN IF 2 * u >= ImmSize THEN u - ImmSize ELSE u

decode_target(i) == i % TargetSize
-----------------------------------------------------------------------------
(* Encoding.  The parameter immediate is a uint16_t; what does not fit in   *)
(* any other field would reach into the next.                              *)

encode_itype(opcode, rs, rt, immediate) ==
    opcode * TargetSize
      + (rs * (RegSize * ImmSize) + (rt * ImmSize + (immediate % ImmSize)))

encode_rtype(opcode, rs, rt, rd, sa, func) ==
    opcode * TargetSize
      + (rs * (RegSize * ImmSize)
          + (rt * ImmSize + (rd * (SaSize * FuncSize) + (sa * FuncSize + func))))

\* target is a byte address.
encode_jtype(opcode, target) == opcode * TargetSize + ((target \div 4) % TargetSize)

encode_exception(opcode, code, func) == opcode * TargetSize + (code * FuncSize + func)

=============================================================================
