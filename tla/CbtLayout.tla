------------------------------ MODULE CbtLayout ------------------------------
(***************************************************************************)
(* How a byte range of a disk maps to the blocks of its change bitmap.     *)
(*                                                                         *)
(* The go2cbt driver cuts a disk into blocks of CBT_BLOCK_SIZE bytes and   *)
(* keeps one bit per block (go2cbt/bitmap.c).  MarkRange is the arithmetic *)
(* of MarkBlockChanged (go2cbt/go2cbt.h), done in unsigned integers of     *)
(* limited width; Touched is the reference: the blocks that hold at least  *)
(* one written byte.                                                       *)
(***************************************************************************)
EXTENDS Integers

CONSTANTS
    DiskSize,   \* bytes of the disk: GPT/MBR partition length of partition 0
    BlockSize,  \* CBT_BLOCK_SIZE
    Wrap        \* 2^64: ULONGLONG arithmetic is modulo Wrap

ASSUME LayoutAssumption ==
    /\ DiskSize \in Nat \ {0}
    /\ BlockSize \in Nat \ {0}
    /\ Wrap \in Nat \ {0}

\* InitCbtState: totalBits = (diskSizeBytes + CBT_BLOCK_SIZE - 1) / CBT_BLOCK_SIZE
TotalBits == (DiskSize + BlockSize - 1) \div BlockSize

Blocks == 0 .. TotalBits - 1

-----------------------------------------------------------------------------
(* The code. *)

StartBlock(off) == off \div BlockSize

\* (offset + length - 1) / CBT_BLOCK_SIZE, then clamped to the last block
EndBlockRaw(off, len) == ((off + len - 1) % Wrap) \div BlockSize

\* Mutant: the length is added without the "- 1".
EndBlockNoMinusOne(off, len) ==
    LET e == ((off + len) % Wrap) \div BlockSize
    IN  IF e >= TotalBits THEN TotalBits - 1 ELSE e

\* Mutant: the clamp to the last block is missing.
EndBlockUnclamped(off, len) == EndBlockRaw(off, len)

EndBlock(off, len) ==
    IF EndBlockRaw(off, len) >= TotalBits THEN TotalBits - 1
                                          ELSE EndBlockRaw(off, len)

\* Mutant: the last block is taken for an exclusive bound.
MarkRangeShort(off, len) ==
    IF off >= TotalBits * BlockSize THEN {}
    ELSE StartBlock(off) .. (EndBlock(off, len) - 1)

\* The bits RtlSetBits is asked to set; empty when MarkBlockChanged returns
\* early because the offset is past the last block or the range is empty.
MarkRange(off, len) ==
    IF off >= TotalBits * BlockSize THEN {}
    ELSE StartBlock(off) .. EndBlock(off, len)

-----------------------------------------------------------------------------
(* The reference. *)

\* The blocks of the disk that hold a byte of [off, off + len).
Touched(off, len) ==
    {b \in Blocks : \E x \in off .. (off + len - 1) : x \div BlockSize = b}

=============================================================================
