---------------------------- MODULE MCR5900Flow ----------------------------
(***************************************************************************)
(* An address space of 256 bytes: 16 regions of four instructions each.    *)
(* The words at 0 and 4, and at 32 and 36, are mapped; everything else     *)
(* faults.                                                                 *)
(***************************************************************************)
EXTENDS R5900Flow

\* Two areas of eight bytes, as EE main memory and one of its mirrors.
MCMapped == (0 .. 7) \cup (32 .. 39)

\* An address in memory, a misaligned one, the last instruction of the
\* address space (a negative number), and a positive number whose low word is
\* zero.  Zero is there from the beginning.
MCResults ==
    { ZeroExtend(32), ZeroExtend(1), SignExtend(WordSize - 4),
      [lo |-> 0, hi |-> 1] }

\* The second is in the region that set_pc strips (0x20000000).
MCEntries == {0, 36}

MCImms == {-2, 1, 2}
=============================================================================
