--------------------------- MODULE InstanceConfig ---------------------------
(***************************************************************************)
(* The commands that change the configuration of containers                *)
(* (src/internal/bocker: cmd_set.go, cmd_port.go, mount.go, network.go,    *)
(* and of cmd_lifecycle.go and incus.go what start, import and export do   *)
(* to it).  Each one reads the instance with its ETag, changes the copy    *)
(* and puts it back with that ETag; a start is a chain of such edits, an   *)
(* import another.  The managed networks behind NAT and behind bridge mode *)
(* on Wi-Fi are made ready by the same pattern.                            *)
(*                                                                         *)
(* Incus is external.  Its ETag is a digest of the configuration, in which *)
(* it records each start under names it draws - here, the number of the    *)
(* start - and forgets them at the stop; the lease is not in it.  A port stands for its number and         *)
(* protocol, a mount's device is named after its source and target.        *)
(***************************************************************************)
EXTENDS Naturals, Sequences, FiniteSets

CONSTANTS
  Actors,                     \* commands in progress
  Names,                      \* container names
  HostPorts, ContainerPorts,
  MountKeys,                  \* <<source, target>> of bocker's mounts
  Taken,                      \* targets under another disk device
  Inherited,                  \* mounts of the profile, with their mode
  Addrs, MACs,
  Regimes,                    \* what a behaviour starts from, see Regime
  MaxCalls, MaxFaults,        \* bounds: commands and refusals
  None

Modes == {"bridge", "nat"}
MountModes == {"ro", "rw"}
Ports == [HostPorts -> [to : ContainerPorts, at : Addrs, dual : BOOLEAN] \cup {None}]
Mounts == [MountKeys -> MountModes \cup {"none"}]

Instance == [run : BOOLEAN, boots : Nat, addr : Addrs \cup {None},
             secure : BOOLEAN, auto : BOOLEAN, mode : Modes, mac : MACs,
             ports : Ports, mounts : Mounts]

\* A managed network; "own" is an IPv6 subnet that Incus drew, a custom one the
\* operator gave, and a network of bocker 1.0 has neither DNS nor IPv6.
Net == [managed : BOOLEAN, v4 : {"default", "other"}, dns : BOOLEAN,
        v6 : {"", "none", "own", "custom1", "custom2"}]
Env == [v4 : {"default", "other"}, v6 : {"unset", "auto", "none", "custom1", "custom2"}]

\* What a command line says: the container it names, the port or mount it is
\* about, and what to make of it.
Asking(verbs, ns, keys, values) == [verb : verbs, name : ns, key : keys, value : values]
Request ==
  Asking({"start", "stop", "remove", "export"}, Names, {None}, {None})
  \cup Asking({"run", "network"}, Names, {None}, Modes)
  \cup Asking({"import"}, Names \cup {None}, {None}, Modes \cup {None})
  \cup Asking({"autostart"}, Names, {None}, {"on", "off"})
  \cup Asking({"port"}, Names, HostPorts, ContainerPorts)
  \cup Asking({"unport"}, Names, HostPorts, {None})
  \cup Asking({"mount", "remount"}, Names, MountKeys, MountModes)
  \cup Asking({"unmount"}, Names, MountKeys, {None})

\* The containers and networks at the beginning, a backup file or None and the
\* name in it, whether the uplink is Wi-Fi, the commands that are given, the
\* environments they are given in (BOCKER_NAT_CIDR, BOCKER_NAT_IPV6_CIDR), and how
\* many there are and how many requests are refused.
Regime == [inst : [Names -> Instance \cup {None}], backup : Instance \cup {None},
           origin : Names, nets : [Modes -> Net \cup {None}], wifi : BOOLEAN,
           requests : SUBSET Request, envs : SUBSET Env,
           calls : 0 .. MaxCalls, faults : 0 .. MaxFaults]

\* The disk devices of an instance, the profile's among them, mount no target twice.
OneDevice(i) ==
  \A j, k \in MountKeys :
    LET used(m) == i.mounts[m] # "none" \/ Inherited[m] # "none"
    IN /\ j[2] = k[2] /\ used(j) /\ used(k) => j = k
       /\ i.mounts[k] # "none" => k[2] \notin Taken

\* What a user sets of a container.
Setting == [auto : BOOLEAN, mode : Modes, ports : [HostPorts -> ContainerPorts \cup {None}],
            mounts : Mounts]

ASSUME InstanceConfigAssumption ==
  /\ Regimes \subseteq Regime
  /\ Inherited \in Mounts
  /\ \A j, k \in MountKeys :
       j[2] = k[2] /\ Inherited[j] # "none" /\ Inherited[k] # "none" => j = k
  /\ MaxCalls \in Nat /\ MaxFaults \in Nat
  /\ None \notin Names \cup Addrs \cup ContainerPorts \cup Modes \cup Instance \cup Net
                \cup Setting \cup [to : ContainerPorts, at : Addrs, dual : BOOLEAN]

\* A behaviour starts from containers as Incus keeps them: one that does not run
\* has no address, nor has a backup.
ASSUME RegimeAssumption ==
  \A r \in Regimes :
    /\ \A n \in Names : r.inst[n] # None =>
         /\ OneDevice(r.inst[n])
         /\ r.inst[n].boots = 0 /\ (r.inst[n].addr # None => r.inst[n].run)
    /\ \A m, n \in Names : r.inst[m] # None /\ r.inst[n] # None /\ r.inst[m].mac = r.inst[n].mac
                         => m = n
    /\ r.backup # None =>
         OneDevice(r.backup) /\ ~r.backup.run /\ r.backup.addr = None /\ r.backup.boots = 0

VARIABLES
  regime,
  inst,      \* the instances of Incus
  starts,    \* how often it has started one
  nets,      \* its managed networks, by the mode they serve
  backup, origin,  \* the backup file: an instance and its name
  calls, faults,
  req,       \* the command each actor gives
  todo,      \* the stages it still has to go through
  pc,        \* where it is in the first of them
  name,      \* the container it is about
  want,      \* the network mode it means to set
  snap,      \* the instance as it read it
  seen, env, \* the network as it read it, and its environment
  names,     \* the containers an import found before it began
  made,      \* history: the containers this command made
  refreshed  \* history: containers whose ports were refreshed since they run

work == <<req, todo, pc, name, want, snap, seen, env, names, made>>
vars == <<regime, inst, starts, nets, backup, origin, calls, faults, work, refreshed>>

Stages == {"look", "mode", "security", "soft", "boot", "refresh", "halt",
           "delete", "edit", "renet", "ensure", "create", "names", "import",
           "find", "export", "await"}

NoRequest == [verb |-> "start", name |-> None, key |-> None, value |-> None]

TypeOK ==
  /\ regime \in Regimes
  /\ inst \in [Names -> Instance \cup {None}] /\ starts \in Nat
  /\ nets \in [Modes -> Net \cup {None}]
  /\ backup \in Instance \cup {None} /\ origin \in Names
  /\ calls \in 0 .. MaxCalls /\ faults \in 0 .. MaxFaults
  /\ req \in [Actors -> Request \cup {NoRequest}] /\ todo \in [Actors -> Seq(Stages)]
  /\ pc \in [Actors -> {"idle", "read", "net", "netput", "put"}]
  /\ name \in [Actors -> Names \cup {None}] /\ want \in [Actors -> Modes \cup {None}]
  /\ snap \in [Actors -> Instance \cup {None}]
  /\ seen \in [Actors -> Net \cup {None}] /\ env \in [Actors -> Env]
  /\ names \in [Actors -> SUBSET Names] /\ made \in [Actors -> SUBSET Names]
  /\ refreshed \subseteq Names

NoEnv == [v4 |-> "default", v6 |-> "unset"]

Init ==
  /\ regime \in Regimes
  /\ inst = regime.inst /\ starts = 0 /\ nets = regime.nets
  /\ backup = regime.backup /\ origin = regime.origin
  /\ calls = 0 /\ faults = 0
  /\ req = [p \in Actors |-> NoRequest] /\ todo = [p \in Actors |-> <<>>]
  /\ pc = [p \in Actors |-> "idle"]
  /\ name = [p \in Actors |-> None] /\ want = [p \in Actors |-> None]
  /\ snap = [p \in Actors |-> None] /\ seen = [p \in Actors |-> None]
  /\ env = [p \in Actors |-> NoEnv]
  /\ names = [p \in Actors |-> {}] /\ made = [p \in Actors |-> {}]
  /\ refreshed = {}

Existing == {n \in Names : inst[n] # None}
\* A MAC drawn at random is not one that is in use.
FreeMACs == {m \in MACs : \A n \in Existing : inst[n].mac # m}
Stage(p) == Head(todo[p])
Mine(p) == inst[name[p]]
At(p, step, stage) == pc[p] = step /\ Stage(p) = stage
Set(n, i) == inst' = [inst EXCEPT ![n] = i]

---------------------------------------------------------------------------
(* The course of a command                                                 *)

\* An import without a name has to find out which it made, and one without a
\* mode keeps that of the backup.
ImportPlan(r) ==
  CASE r.name = None /\ r.value = None ->
         <<"names", "import", "find", "mode", "renet", "security">>
    [] r.name = None /\ r.value # None -> <<"names", "import", "find", "renet", "security">>
    [] r.name # None /\ r.value = None -> <<"import", "mode", "renet", "security">>
    [] r.name # None /\ r.value # None -> <<"import", "renet", "security">>

\* Mutant: a start trusts whoever made the container with the policy.
MutStartPlan == <<"look", "mode", "soft", "boot", "await", "refresh">>

\* A start brings container and network up to what this version wants of them.
StartPlan == <<"look", "mode", "security", "soft", "boot", "await", "refresh">>

\* What each command does, stage by stage.  Every `container set` looks at the
\* container first.
Plan(r) ==
  CASE r.verb = "start" -> StartPlan
    [] r.verb = "stop" -> <<"halt">>
    [] r.verb = "remove" -> <<"halt", "delete">>
    [] r.verb = "run" -> <<"ensure", "create", "mode", "security", "soft", "boot">>
    [] r.verb = "export" -> <<"export">>
    [] r.verb = "import" -> ImportPlan(r)
    [] r.verb = "network" -> <<"look", "renet">>
    [] OTHER -> <<"look", "edit">>

\* The command is over, and forgets.
Finish(p) ==
  /\ pc' = [pc EXCEPT ![p] = "idle"] /\ todo' = [todo EXCEPT ![p] = <<>>]
  /\ req' = [req EXCEPT ![p] = NoRequest] /\ name' = [name EXCEPT ![p] = None]
  /\ want' = [want EXCEPT ![p] = None] /\ snap' = [snap EXCEPT ![p] = None]
  /\ seen' = [seen EXCEPT ![p] = None] /\ env' = [env EXCEPT ![p] = NoEnv]
  /\ names' = [names EXCEPT ![p] = {}] /\ made' = [made EXCEPT ![p] = {}]

\* On to the stages ss, about container n and mode m.
Proceed(p, ss, n, m) ==
  \/ ss = <<>> /\ Finish(p)
  \/ /\ ss # <<>>
     /\ pc' = [pc EXCEPT ![p] = "read"] /\ todo' = [todo EXCEPT ![p] = ss]
     /\ name' = [name EXCEPT ![p] = n] /\ want' = [want EXCEPT ![p] = m]
     /\ snap' = [snap EXCEPT ![p] = None] /\ seen' = [seen EXCEPT ![p] = None]
     /\ UNCHANGED <<req, env, names, made>>

Continue(p) == Proceed(p, Tail(todo[p]), name[p], want[p])

Begin(p, r, e) ==
  /\ pc[p] = "idle" /\ calls < regime.calls
  /\ r.verb = "import" => backup # None
  /\ calls' = calls + 1
  /\ pc' = [pc EXCEPT ![p] = "read"] /\ todo' = [todo EXCEPT ![p] = Plan(r)]
  /\ req' = [req EXCEPT ![p] = r] /\ env' = [env EXCEPT ![p] = e]
  /\ name' = [name EXCEPT ![p] =
       IF r.verb = "import" /\ r.name = None THEN origin ELSE r.name]
  /\ want' = [want EXCEPT ![p] = IF r.value \in Modes THEN r.value ELSE None]
  /\ UNCHANGED <<regime, inst, starts, nets, backup, origin, faults, snap, seen, names,
                 made, refreshed>>

\* A request that Incus refuses for reasons of its own, or a wait that ends.
Refused(p) ==
  /\ pc[p] # "idle" /\ faults < regime.faults
  /\ faults' = faults + 1
  /\ Finish(p)
  /\ UNCHANGED <<regime, inst, starts, nets, backup, origin, calls, refreshed>>

fixed == <<regime, calls, faults, starts>>

\* CmdSet and CmdStart read the container before anything else.  A container
\* that runs is not started again, and its network is not to be changed.
Look(p) ==
  /\ At(p, "read", "look") /\ Mine(p) # None
  /\ \/ /\ req[p].verb = "start" /\ Mine(p).run
        /\ Proceed(p, <<"await", "refresh">>, name[p], want[p])
     \/ (req[p].verb = "network" /\ Mine(p).run) /\ Finish(p)
     \/ ~(req[p].verb \in {"start", "network"} /\ Mine(p).run) /\ Continue(p)
  /\ UNCHANGED <<fixed, inst, nets, backup, origin, refreshed>>

\* Every stage begins with a request that fails for want of the container.
Missing(p) ==
  /\ pc[p] = "read" /\ Stage(p) \notin {"ensure", "create", "names", "import", "find"}
  /\ Mine(p) = None
  /\ Finish(p)
  /\ UNCHANGED <<fixed, inst, nets, backup, origin, refreshed>>

\* networkModeFromContainer
ReadMode(p) ==
  /\ At(p, "read", "mode") /\ Mine(p) # None
  /\ Proceed(p, Tail(todo[p]), name[p], Mine(p).mode)
  /\ UNCHANGED <<fixed, inst, nets, backup, origin, refreshed>>

---------------------------------------------------------------------------
(* Edits of an instance                                                    *)

\* Mutant: only a device of the same name counts.
MutMountable(i, k, mode) == i.mounts[k] # mode

\* AddMount: the target is free or has this very mount, in the container and
\* not in a profile, with another mode.
Mountable(i, k, mode) ==
  /\ k[2] \notin Taken
  /\ \A j \in MountKeys \ {k} : j[2] = k[2] => i.mounts[j] = "none" /\ Inherited[j] = "none"
  /\ i.mounts[k] # "none" \/ Inherited[k] = "none"
  /\ i.mounts[k] # mode

\* What each edit makes of instance i: nothing if it refuses to.
SetAutostart(i, on) == {[i EXCEPT !.auto = on]}
AddPort(i, h, to) ==
  IF i.addr = None THEN {}
  ELSE {[i EXCEPT !.ports[h] = [to |-> to, at |-> i.addr, dual |-> TRUE]]}
RemovePort(i, h) == IF i.ports[h] = None THEN {} ELSE {[i EXCEPT !.ports[h] = None]}
AddMount(i, k, mode) ==
  IF i.run \/ ~Mountable(i, k, mode) THEN {} ELSE {[i EXCEPT !.mounts[k] = mode]}
RemoveMount(i, k) ==
  IF i.run \/ i.mounts[k] = "none" THEN {} ELSE {[i EXCEPT !.mounts[k] = "none"]}
UpdateMount(i, k, mode) ==
  IF i.run \/ i.mounts[k] = "none" THEN {} ELSE {[i EXCEPT !.mounts[k] = mode]}

EditedBy(r, i) ==
  CASE r.verb = "autostart" -> SetAutostart(i, r.value = "on")
    [] r.verb = "port" -> AddPort(i, r.key, r.value)
    [] r.verb = "unport" -> RemovePort(i, r.key)
    [] r.verb = "mount" -> AddMount(i, r.key, r.value)
    [] r.verb = "unmount" -> RemoveMount(i, r.key)
    [] r.verb = "remount" -> UpdateMount(i, r.key, r.value)

\* Mutants: a container that has lost its address is not left alone; and only the
\* single-stack listeners of before are rewritten.
MutRefresh(i) ==
  [i EXCEPT !.ports = [h \in HostPorts |->
     IF i.ports[h] = None THEN None ELSE [to |-> i.ports[h].to, at |-> i.addr, dual |-> TRUE]]]
MutRefreshLegacy(i) ==
  IF i.addr = None THEN i
  ELSE [i EXCEPT !.ports = [h \in HostPorts |->
          IF i.ports[h] = None \/ i.ports[h].dual THEN i.ports[h]
          ELSE [to |-> i.ports[h].to, at |-> i.addr, dual |-> TRUE]]]

\* RefreshPortMappings; a container without an address is left alone.
Refresh(i) ==
  IF i.addr = None THEN i
  ELSE [i EXCEPT !.ports = [h \in HostPorts |->
          IF i.ports[h] = None THEN None
          ELSE [to |-> i.ports[h].to, at |-> i.addr, dual |-> TRUE]]]

\* SetContainerNetwork draws another MAC when it is told to and names one only
\* for a NIC on the wire; else the container keeps the one Incus gave it.
Edited(p, i) ==
  CASE Stage(p) = "edit" -> EditedBy(req[p], i)
    [] Stage(p) = "security" -> {[i EXCEPT !.secure = TRUE]}
    [] Stage(p) = "refresh" -> {Refresh(i)}
    [] Stage(p) = "soft" -> {[i EXCEPT !.mode = want[p]]}
    [] Stage(p) = "renet" ->
         {[i EXCEPT !.mode = want[p], !.mac = m] :
            m \in IF want[p] = "bridge" /\ ~regime.wifi THEN FreeMACs ELSE {i.mac}}

\* UpdateMount and RefreshPortMappings write nothing when nothing changes.
Idle(p, i) ==
  \/ Stage(p) = "refresh" /\ Refresh(i) = i
  \/ Stage(p) = "edit" /\ req[p].verb = "remount" /\ EditedBy(req[p], i) = {i}

Read(p) ==
  /\ pc[p] = "read" /\ Stage(p) \in {"edit", "security", "refresh", "soft", "renet"}
  /\ Mine(p) # None
  /\ \/ /\ Idle(p, Mine(p)) /\ Continue(p)
        /\ refreshed' = IF Stage(p) = "refresh" /\ Mine(p).addr # None
                         THEN refreshed \cup {name[p]} ELSE refreshed
     \/ /\ Stage(p) = "edit" /\ EditedBy(req[p], Mine(p)) = {} /\ Finish(p)
        /\ UNCHANGED refreshed
     \/ /\ ~Idle(p, Mine(p))
        /\ Stage(p) = "edit" => EditedBy(req[p], Mine(p)) # {}
        /\ pc' = [pc EXCEPT ![p] = IF Stage(p) \in {"soft", "renet"} THEN "net" ELSE "put"]
        /\ snap' = [snap EXCEPT ![p] = Mine(p)]
        /\ UNCHANGED <<req, todo, name, want, seen, env, names, made, refreshed>>
  /\ UNCHANGED <<fixed, inst, nets, backup, origin>>

\* Mutant: the write goes without the ETag.
MutSame(i, j) == i # None

ETag(i) == [i EXCEPT !.addr = None, !.boots = IF i.run THEN @ ELSE 0]
Same(i, j) == i # None /\ ETag(i) = ETag(j)

\* updateInstance
Put(p) ==
  /\ pc[p] = "put"
  /\ \/ /\ Same(Mine(p), snap[p])
        /\ \E i \in Edited(p, snap[p]) :
             Set(name[p], [i EXCEPT !.addr = Mine(p).addr, !.boots = Mine(p).boots])
        /\ Continue(p)
        /\ refreshed' = IF Stage(p) = "refresh" THEN refreshed \cup {name[p]} ELSE refreshed
     \/ /\ ~Same(Mine(p), snap[p]) /\ Finish(p)
        /\ UNCHANGED <<inst, refreshed>>
  /\ UNCHANGED <<fixed, nets, backup, origin>>

---------------------------------------------------------------------------
(* EnsureNetworkMode                                                       *)

Explicit(v6) == v6 \notin {"unset", "auto"}

Drawn(v6) == IF Explicit(v6) THEN v6 ELSE "own"

\* ensureNATNetwork and ensureBridgeNetwork: a subnet that is there is kept
\* unless the environment names another.
Desired(n, e) ==
  IF n = None THEN [managed |-> TRUE, v4 |-> e.v4, dns |-> TRUE, v6 |-> Drawn(e.v6)]
  ELSE [n EXCEPT !.v4 = e.v4, !.dns = TRUE,
                 !.v6 = IF Explicit(e.v6) \/ n.v6 \in {"", "none"}
                        THEN Drawn(e.v6) ELSE n.v6]

\* The network is ready: what is left of the stage.
Ensured(p) ==
  \/ Stage(p) = "ensure" /\ Continue(p)
  \/ Stage(p) = "soft" /\ snap[p].mode = want[p] /\ Continue(p)
  \/ /\ Stage(p) = "renet" \/ (Stage(p) = "soft" /\ snap[p].mode # want[p])
     /\ pc' = [pc EXCEPT ![p] = "put"]
     /\ seen' = [seen EXCEPT ![p] = None]
     /\ UNCHANGED <<req, todo, name, want, snap, env, names, made>>

\* Bridge mode on a wired uplink needs no network; one that Incus does not
\* manage under this name is not touched.
ReadNet(p) ==
  /\ pc[p] = "net" \/ At(p, "read", "ensure")
  /\ LET n == nets[want[p]] IN
     \/ (want[p] = "bridge" /\ ~regime.wifi) /\ Ensured(p)
     \/ /\ want[p] = "nat" \/ regime.wifi
        /\ \/ (n # None /\ ~n.managed) /\ Finish(p)
           \/ (n # None /\ n.managed /\ Desired(n, env[p]) = n) /\ Ensured(p)
           \/ /\ n # None => n.managed /\ Desired(n, env[p]) # n
              /\ pc' = [pc EXCEPT ![p] = "netput"]
              /\ seen' = [seen EXCEPT ![p] = n]
              /\ UNCHANGED <<req, todo, name, want, snap, env, names, made>>
  /\ UNCHANGED <<fixed, inst, nets, backup, origin, refreshed>>

\* Mutant: the update goes without the ETag.
MutPutNet(p) ==
  /\ pc[p] = "netput"
  /\ nets' = [nets EXCEPT ![want[p]] = Desired(seen[p], env[p])]
  /\ Ensured(p)
  /\ UNCHANGED <<fixed, inst, backup, origin, refreshed>>

\* CreateNetwork refuses a name that exists, UpdateNetwork another ETag.
PutNet(p) ==
  /\ pc[p] = "netput"
  /\ \/ /\ nets[want[p]] = seen[p]
        /\ nets' = [nets EXCEPT ![want[p]] = Desired(seen[p], env[p])]
        /\ Ensured(p)
     \/ nets[want[p]] # seen[p] /\ Finish(p) /\ UNCHANGED nets
  /\ UNCHANGED <<fixed, inst, backup, origin, refreshed>>

---------------------------------------------------------------------------
(* Other requests                                                          *)

\* Incus refuses to start what runs.  The container has an address when a DHCP
\* server gave it one.
Boot(p) ==
  /\ At(p, "read", "boot") /\ Mine(p) # None
  /\ \/ /\ ~Mine(p).run
        /\ \E a \in Addrs \cup {None} :
             Set(name[p], [Mine(p) EXCEPT !.run = TRUE, !.boots = starts + 1, !.addr = a])
        /\ starts' = starts + 1
        /\ Continue(p)
     \/ Mine(p).run /\ Finish(p) /\ UNCHANGED <<inst, starts>>
  /\ UNCHANGED <<regime, calls, faults, nets, backup, origin, refreshed>>

Lease(n) ==
  /\ inst[n] # None /\ inst[n].run /\ inst[n].addr = None
  /\ \E a \in Addrs : Set(n, [inst[n] EXCEPT !.addr = a])
  /\ UNCHANGED <<regime, starts, nets, backup, origin, calls, faults, work, refreshed>>

\* waitForIP gives up after thirty seconds.
Await(p) ==
  /\ At(p, "read", "await") /\ Mine(p) # None
  /\ \/ Mine(p).addr # None /\ Continue(p)
     \/ Mine(p).addr = None /\ Finish(p)
  /\ UNCHANGED <<fixed, inst, nets, backup, origin, refreshed>>

Halt(p) ==
  /\ At(p, "read", "halt") /\ Mine(p) # None
  /\ Set(name[p], [Mine(p) EXCEPT !.run = FALSE, !.addr = None])
  /\ refreshed' = refreshed \ {name[p]}
  /\ Continue(p)
  /\ UNCHANGED <<fixed, nets, backup, origin>>

Delete(p) ==
  /\ At(p, "read", "delete") /\ Mine(p) # None
  /\ \/ ~Mine(p).run /\ Set(name[p], None) /\ Continue(p)
     \/ Mine(p).run /\ Finish(p) /\ UNCHANGED inst
  /\ UNCHANGED <<fixed, nets, backup, origin, refreshed>>

\* The request to create instance i as n, which Incus refuses if n exists.
Make(p, n, i) ==
  \/ /\ inst[n] = None /\ Set(n, i)
     /\ todo' = [todo EXCEPT ![p] = Tail(todo[p])]
     /\ made' = [made EXCEPT ![p] = @ \cup {n}]
     /\ UNCHANGED <<pc, req, name, want, snap, seen, env, names>>
  \/ inst[n] # None /\ Finish(p) /\ UNCHANGED inst

\* LaunchLocalImage... with the policy and the network it has just ensured.
Create(p) ==
  /\ At(p, "read", "create")
  /\ \E m \in FreeMACs :
       Make(p, name[p],
            [run |-> FALSE, boots |-> 0, addr |-> None, secure |-> TRUE, auto |-> FALSE,
             mode |-> want[p], mac |-> m, ports |-> [h \in HostPorts |-> None],
             mounts |-> [k \in MountKeys |-> "none"]])
  /\ UNCHANGED <<fixed, nets, backup, origin, refreshed>>

\* containerNameSet
ListNames(p) ==
  /\ At(p, "read", "names")
  /\ todo' = [todo EXCEPT ![p] = Tail(todo[p])]
  /\ names' = [names EXCEPT ![p] = Existing]
  /\ UNCHANGED <<fixed, inst, nets, backup, origin, pc, req, name, want, snap, seen, env,
                 made, refreshed>>

\* Mutant: the import keeps the MAC of the backup.
MutImportBackup(p) ==
  /\ At(p, "read", "import")
  /\ Make(p, name[p], backup)
  /\ UNCHANGED <<fixed, nets, backup, origin, refreshed>>

\* Import overrides the MAC of the backup in the request itself.
ImportBackup(p) ==
  /\ At(p, "read", "import")
  /\ \E m \in FreeMACs : Make(p, name[p], [backup EXCEPT !.mac = m])
  /\ UNCHANGED <<fixed, nets, backup, origin, refreshed>>

\* Mutant: it takes the first new name it meets.
MutFindImported(p) ==
  /\ At(p, "read", "find")
  /\ \/ \E n \in Existing \ names[p] : Proceed(p, Tail(todo[p]), n, want[p])
     \/ Existing \ names[p] = {} /\ Finish(p)
  /\ UNCHANGED <<fixed, inst, nets, backup, origin, refreshed>>

\* findImportedContainerName: the one name that was not there, or an error.
FindImported(p) ==
  /\ At(p, "read", "find")
  /\ \/ \E n \in Names : /\ Existing \ names[p] = {n}
                        /\ Proceed(p, Tail(todo[p]), n, want[p])
     \/ (\A n \in Names : Existing \ names[p] # {n}) /\ Finish(p)
  /\ UNCHANGED <<fixed, inst, nets, backup, origin, refreshed>>

Export(p) ==
  /\ At(p, "read", "export") /\ Mine(p) # None
  /\ backup' = [Mine(p) EXCEPT !.run = FALSE, !.addr = None, !.boots = 0]
  /\ origin' = name[p]
  /\ Continue(p)
  /\ UNCHANGED <<fixed, inst, nets, refreshed>>

Step(p) ==
  \/ Look(p) \/ Missing(p) \/ ReadMode(p) \/ Read(p) \/ Put(p) \/ ReadNet(p)
  \/ PutNet(p) \/ Boot(p) \/ Await(p) \/ Halt(p) \/ Delete(p) \/ Create(p) \/ ListNames(p)
  \/ ImportBackup(p) \/ FindImported(p) \/ Export(p) \/ Refused(p)

Next ==
  \/ \E p \in Actors :
       \/ \E r \in regime.requests, e \in regime.envs : Begin(p, r, e)
       \/ Step(p)
  \/ \E n \in Names : Lease(n)

Spec == Init /\ [][Next]_vars

---------------------------------------------------------------------------
(* Properties                                                              *)

Settings(n) ==
  IF inst[n] = None THEN None
  ELSE [auto |-> inst[n].auto, mode |-> inst[n].mode, mounts |-> inst[n].mounts,
        ports |-> [h \in HostPorts |->
                     IF inst[n].ports[h] = None THEN None ELSE inst[n].ports[h].to]]

Map == INSTANCE InstanceMap WITH
         conf <- [n \in Names |-> Settings(n)],
         running <- {n \in Existing : inst[n].run}

\* However the commands interleave, each changes the one setting it is about,
\* in the container as it is: no edit is lost under another, and none of the
\* mounts of a running container changes (updateInstance's ETag, read together
\* with what requireMountStopped looks at).
ImplementsInstanceMap == Map!Spec

\* Once a start has refreshed the ports of a container, and until it is stopped,
\* every mapping leads to the address the container has, old single-stack ones
\* and ones that others add meanwhile included (RefreshPortMappings).
PortsCurrent ==
  \A n \in refreshed : inst[n] # None =>
    \A h \in HostPorts : inst[n].ports[h] # None =>
      inst[n].ports[h].at = inst[n].addr /\ inst[n].ports[h].dual

\* No target in a container ever has two disk devices, whoever added them: bocker
\* itself, a profile or somebody else (AddMount).
OneMountPerTarget == \A n \in Existing : OneDevice(inst[n])

\* Two containers never have the same MAC, a container and its import included,
\* at no moment of the import (Import, SetContainerNetwork).
UniqueMAC == \A m, n \in Existing : inst[m].mac = inst[n].mac => m = n

\* A container that runs was given the runtime policy, whoever made it and from
\* what, and the network of its mode is there (Start, EnsureNetworkMode).
RunsPrepared ==
  \A n \in Existing : inst[n].run =>
    /\ inst[n].secure
    /\ (inst[n].mode = "nat" \/ regime.wifi) =>
         nets[inst[n].mode] # None /\ nets[inst[n].mode].managed

\* An import configures the container it made and no other, also when it has to
\* find out its name while others make containers (findImportedContainerName).
\* Commands that remove containers are left out: they can mislead it.
ImportOwn ==
  (\A r \in regime.requests : r.verb # "remove") =>
    \A p \in Actors : req[p].verb = "import" /\ pc[p] # "idle"
                     /\ Stage(p) \in {"mode", "renet", "security"} => name[p] \in made[p]

\* An IPv6 subnet that the operator gave a managed network is replaced only by
\* what a command was told - another subnet, or none -, never by one that had
\* read the network before or was left to choose (applyNATIPv6Config and its
\* callers).
OperatorSubnetKept ==
  [][\A m \in Modes : nets[m] # None /\ nets[m].v6 \in {"custom1", "custom2"} =>
       /\ nets'[m] # None
       /\ \/ nets'[m].v6 = nets[m].v6
          \/ \E p \in Actors : /\ pc[p] = "netput" /\ Explicit(env[p].v6)
                             /\ nets'[m].v6 = env[p].v6]_vars
=============================================================================
