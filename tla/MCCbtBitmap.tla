----------------------------- MODULE MCCbtBitmap -----------------------------
(***************************************************************************)
(* CbtBitmap for TLC: three threads, a disk of four blocks of two bytes    *)
(* (the last one half used) in two words of two bits.                      *)
(***************************************************************************)
EXTENDS CbtBitmap, TLC

CONSTANTS p1, p2, p3

MCProcs == {p1, p2, p3}

\* one block, two blocks across a word boundary, the end of the disk, past
\* it, and the zero-length write at offset 0 that wraps around
MCWrites ==
    {[off |-> 1, len |-> 1], [off |-> 3, len |-> 2], [off |-> 5, len |-> 4],
     [off |-> 8, len |-> 1], [off |-> 0, len |-> 0]}

Symmetry == Permutations(MCProcs)

=============================================================================
