------------------------------ MODULE HostsMap ------------------------------
(***************************************************************************)
(* What bocker promises about /etc/hosts: a map from container names to    *)
(* addresses that changes one name at a time, of which power loss may undo *)
(* only what was never made stable.                                        *)
(***************************************************************************)
CONSTANTS Names, Addrs, NoAddr

VARIABLES entry,   \* the address a container's domain resolves to
          stable   \* the map a power loss cannot go behind

vars == <<entry, stable>>

Entries == [Names -> Addrs \cup {NoAddr}]

Init == entry \in Entries /\ stable = entry

\* updateHosts or removeHostsLine takes effect.
Put(n, x) == entry' = [entry EXCEPT ![n] = x] /\ UNCHANGED stable

Stabilise == stable' = entry /\ UNCHANGED entry

PowerLoss == entry' \in {entry, stable} /\ stable' = entry'

Next == \/ \E n \in Names, x \in Addrs \cup {NoAddr} : Put(n, x)
        \/ Stabilise
        \/ PowerLoss

Spec == Init /\ [][Next]_vars
=============================================================================
