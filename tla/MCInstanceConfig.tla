-------------------------- MODULE MCInstanceConfig --------------------------
(* The commands of InstanceConfig on small instances, in four groups: ports, *)
(* mounts, networks and imports.                                             *)
EXTENDS InstanceConfig, TLC

CONSTANTS c1, c2, h1, h2, x1, x2, a1, a2, m1, m2, m3, src1, src2, dst1, dst2, dst3

MCMountKeys == {<<src1, dst1>>, <<src2, dst1>>, <<src1, dst2>>, <<src2, dst3>>}
MCTaken == {dst2}
MCInherited == [k \in MCMountKeys |-> IF k = <<src2, dst3>> THEN "ro" ELSE "none"]

Ask(verb, n, key, value) == [verb |-> verb, name |-> n, key |-> key, value |-> value]
Plain(verbs, ns) == {Ask(v, n, None, None) : v \in verbs, n \in ns}

NoPorts == [h \in HostPorts |-> None]
NoMounts == [k \in MCMountKeys |-> "none"]
Fresh == [run |-> FALSE, boots |-> 0, addr |-> None, secure |-> FALSE, auto |-> FALSE,
          mode |-> "nat", mac |-> m1, ports |-> NoPorts, mounts |-> NoMounts]
Old == [Fresh EXCEPT !.secure = TRUE, !.ports[h1] = [to |-> x1, at |-> a1, dual |-> FALSE]]

Legacy == [managed |-> TRUE, v4 |-> "default", dns |-> FALSE, v6 |-> ""]
Ready == [Legacy EXCEPT !.dns = TRUE, !.v6 = "own"]
Given == [Legacy EXCEPT !.dns = TRUE, !.v6 = "custom1"]
Foreign == [Legacy EXCEPT !.managed = FALSE]
Nets(nat, bridge) == [m \in Modes |-> IF m = "nat" THEN nat ELSE bridge]

Base == [inst |-> [n \in Names |-> IF n = c1 THEN Old ELSE None],
         backup |-> None, origin |-> c1, nets |-> Nets(Ready, None), wifi |-> FALSE,
         requests |-> {}, envs |-> {NoEnv}, calls |-> 4, faults |-> 1]

PortWork ==
  [Base EXCEPT !.requests = Plain({"start", "stop", "remove"}, {c1})
     \cup {Ask("run", c1, None, "nat"), Ask("autostart", c1, None, "on"),
           Ask("unport", c1, h1, None)}
     \cup {Ask("port", c1, h, x2) : h \in HostPorts}]

MountWork ==
  [Base EXCEPT !.inst[c1].ports = NoPorts,
     !.requests = Plain({"start", "stop"}, {c1})
       \cup {Ask("mount", c1, k, "rw") : k \in MCMountKeys}
       \cup {Ask("unmount", c1, <<src1, dst1>>, None), Ask("remount", c1, <<src1, dst1>>, "ro")}]

NetWork(nat, bridge, wifi) ==
  [Base EXCEPT !.inst[c1] = Fresh, !.nets = Nets(nat, bridge), !.wifi = wifi,
     !.requests = Plain({"start", "stop"}, {c1})
       \cup {Ask("network", c1, None, m) : m \in Modes},
     !.envs = {NoEnv, [v4 |-> "other", v6 |-> "custom2"], [v4 |-> "default", v6 |-> "none"]},
     !.calls = 3, !.faults = 0]

ImportWork(b) ==
  [Base EXCEPT !.inst = [n \in Names |-> None], !.backup = b, !.calls = 3,
     !.requests = {Ask("import", None, None, None), Ask("import", c2, None, "bridge"),
                   Ask("run", c2, None, "nat"), Ask("run", c1, None, "bridge")}
                  \cup Plain({"export", "start"}, {c1, c2})]

Alike == Permutations(Actors) \cup Permutations({m2, m3})

MCRegimes ==
  {PortWork, MountWork, ImportWork(Fresh),
   NetWork(None, None, FALSE), NetWork(Legacy, None, FALSE),
   NetWork(Given, Legacy, TRUE), NetWork(Foreign, None, TRUE)}
=============================================================================
