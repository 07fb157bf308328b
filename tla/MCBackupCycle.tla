---------------------------- MODULE MCBackupCycle ----------------------------
(***************************************************************************)
(* BackupCycle for TLC: two blocks, of two contents, in a byte of three    *)
(* bits that the disk does not fill.                                       *)
(***************************************************************************)
EXTENDS BackupCycle, TLC

CONSTANTS x, y

MCData == {x, y}

Symmetry == Permutations(MCData)

=============================================================================
