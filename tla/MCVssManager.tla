---------------------------- MODULE MCVssManager ----------------------------
(* Two volumes on a disk with up to two partitions, three backups in a row. *)
EXTENDS VssManager

CONSTANTS u, v

MCVolumes == <<u, v>>
=============================================================================
