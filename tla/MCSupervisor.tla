---------------------------- MODULE MCSupervisor ----------------------------
EXTENDS Supervisor, TLC

CONSTANTS c1, c2, v1, v2, u1

\* Two versions of bocker that write the same unit file.
Two == (c1 :> [bin |-> v1, unit |-> u1]) @@ (c2 :> [bin |-> v2, unit |-> u1])
=============================================================================
