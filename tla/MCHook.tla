------------------------------- MODULE MCHook -------------------------------
(* Two devices of one driver, one device each of two others (one of them   *)
(* past the limit of the hook table), and a device created after the scan. *)
EXTENDS Hook, TLC

CONSTANTS d1, d2, d3, x1, x2, y, z, late

MCDriverOf == (x1 :> d1) @@ (x2 :> d1) @@ (late :> d1) @@ (y :> d2) @@ (z :> d3)
MCScan == <<x1, y, x2, z>>
=============================================================================
