---------------------------- MODULE MCHostBridge ----------------------------
(* HostBridge with two wired interfaces that nothing tells apart. *)
EXTENDS HostBridge

WiredSymmetry == Permutations(Wired)
=============================================================================
