------------------------- MODULE MCContainerLifecycle -------------------------
(* Small instances of ContainerLifecycle: the regimes, and the symmetry of  *)
(* the addresses and of the commands that only run beside another.          *)
EXTENDS ContainerLifecycle, TLC

CONSTANTS p1, p2, p3, n1, n2

LifecycleSymmetry == Permutations(Actors \ {p1}) \cup Permutations(Addrs)

\* One command at a time, on two containers, and nothing fails.
InSequence ==
  [busy |-> {p1}, commands |-> Requests, calls |-> 5, on |-> {n1, n2},
   failing |-> {}, leaving |-> {}]

\* One command at a time, any step up to the rollbacks may fail, and the
\* container may power itself off.
WithFaults ==
  [busy |-> {p1}, commands |-> Requests \ {"restart"}, calls |-> 4, on |-> {n1},
   failing |-> {"read", "create", "reread", "list", "route", "domain", "hosts",
                "ports", "halt", "delete", "unhost"},
   leaving |-> {n1}]

\* Three commands at once race for one name, which nobody removes.
Racing ==
  [busy |-> {p1, p2, p3}, commands |-> {"start", "stop", "install", "run"}, calls |-> 3,
   on |-> {n1}, failing |-> {"hosts"}, leaving |-> {}]

\* A start that fails within the launch.
FailingBoot ==
  [busy |-> {p1}, commands |-> {"run", "install"}, calls |-> 2, on |-> {n1},
   failing |-> {"boot"}, leaving |-> {}]

Ordinary == {InSequence, WithFaults, Racing}
HardBoot == {FailingBoot}
=============================================================================
