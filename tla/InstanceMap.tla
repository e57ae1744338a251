---------------------------- MODULE InstanceMap ----------------------------
(***************************************************************************)
(* What bocker promises about the configuration of containers: a map from  *)
(* names to configurations in which each command changes one setting of    *)
(* the container as it is, never of the container as it was, and in which  *)
(* the mounts of a container that runs stay as they are.                   *)
(***************************************************************************)
CONSTANTS Names, HostPorts, ContainerPorts, MountKeys, Modes, None

VARIABLES conf,    \* per container, its settings, None when there is none
          running  \* the containers that run

vars == <<conf, running>>

Conf == [auto : BOOLEAN, mode : Modes,
         ports : [HostPorts -> ContainerPorts \cup {None}],
         mounts : [MountKeys -> {"none", "ro", "rw"}]]

Init == conf \in [Names -> Conf \cup {None}] /\ running \subseteq Names

Edits(n) ==
  LET c == conf[n] IN
       {[c EXCEPT !.auto = b] : b \in BOOLEAN}
  \cup {[c EXCEPT !.mode = m] : m \in Modes}
  \cup {[c EXCEPT !.ports[h] = x] : h \in HostPorts, x \in ContainerPorts \cup {None}}
  \cup IF n \in running THEN {}
       ELSE {[c EXCEPT !.mounts[k] = x] : k \in MountKeys, x \in {"none", "ro", "rw"}}

Edit(n) ==
  /\ conf[n] # None
  /\ \E c \in Edits(n) : conf' = [conf EXCEPT ![n] = c]
  /\ UNCHANGED running

Create(n) ==
  /\ conf[n] = None
  /\ conf'[n] \in Conf /\ conf' = [conf EXCEPT ![n] = conf'[n]]
  /\ UNCHANGED running

Delete(n) ==
  /\ n \notin running
  /\ conf' = [conf EXCEPT ![n] = None]
  /\ UNCHANGED running

Start(n) == conf[n] # None /\ running' = running \cup {n} /\ UNCHANGED conf
Stop(n) == running' = running \ {n} /\ UNCHANGED conf

Next == \E n \in Names : Edit(n) \/ Create(n) \/ Delete(n) \/ Start(n) \/ Stop(n)

Spec == Init /\ [][Next]_vars
=============================================================================
