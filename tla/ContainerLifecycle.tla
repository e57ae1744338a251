-------------------------- MODULE ContainerLifecycle --------------------------
(***************************************************************************)
(* The commands that create, start, stop and delete containers             *)
(* (internal/bocker/cmd_lifecycle.go, cmd_install.go, cmd_set.go and the   *)
(* end of cmd_build.go), and what they keep in step on the host: the       *)
(* domain lines of /etc/hosts and the /32 routes to bridge containers.     *)
(*                                                                         *)
(* A command is a chain of requests to Incus and of changes to the host;   *)
(* others run between any two of them, and what it read stays as it read   *)
(* it.  updateHosts and removeHostsLine are atomic here: HostsFile shows   *)
(* that they are.  Ports, images and the host's shim link are abstracted   *)
(* to requests that may fail.                                              *)
(***************************************************************************)
EXTENDS Naturals, FiniteSets

CONSTANTS
  Actors,        \* commands in progress
  Names, Addrs,  \* container names and IPv4 addresses
  Bridged,       \* names of the containers in bridge network mode
  Regimes,       \* the circumstances a behaviour may run under, see Regime
  MaxCalls,      \* bound: commands issued in all
  NoAddr, NoName, Absent

VARIABLES
  regime,    \* the circumstances of this behaviour; they do not change
  inst,      \* the container of each name, as Incus knows it
  born,      \* containers created so far
  hosts,     \* the address in the line of /etc/hosts for each name
  routes,    \* addresses with a /32 route through the shim
  calls,     \* commands issued so far
  pc, cmd, name,  \* where each command stands, what it does, and to whom
  snap,      \* the container as the command read it
  ip, dom,   \* the address it found, and whether there is a domain to map
  made,      \* the container it created, or 0
  targets,   \* addresses AutoConfigureHostBridge is to route
  outcome    \* what it reported

callVars == <<cmd, name, snap, ip, dom, made, targets>>
hostVars == <<hosts, routes>>
vars == <<regime, inst, born, hostVars, calls, pc, callVars, outcome>>

Instance == [id : 1..MaxCalls, running : BOOLEAN, ip : Addrs \cup {NoAddr}, domain : BOOLEAN]

Requests == {"start", "stop", "restart", "remove", "install", "run",
             "set-domain", "unset-domain"}

\* A restart is a stop that a start follows.
Verbs == Requests \cup {"stop-then-start"}

Steps == {"idle", "read", "create", "boot", "reread", "wait", "list", "route",
          "domain", "hosts", "ports", "halt", "delete", "unhost", "unroute",
          "undo-hosts", "undo-halt", "undo-delete"}

\* Who issues which commands, how many and on which names, which steps may fail,
\* and which containers may power themselves off.
Regime == [busy : SUBSET Actors, commands : SUBSET Requests, calls : 0..MaxCalls,
           on : SUBSET Names, failing : SUBSET Steps, leaving : SUBSET Names]

ASSUME LifecycleAssumption ==
  /\ Bridged \subseteq Names
  /\ Regimes \subseteq Regime
  /\ NoAddr \notin Addrs /\ NoName \notin Names /\ Absent \notin Instance
  /\ MaxCalls \in Nat

TypeOK ==
  /\ regime \in Regimes
  /\ inst \in [Names -> Instance \cup {Absent}]
  /\ born \in 0..MaxCalls /\ calls \in 0..MaxCalls
  /\ hosts \in [Names -> Addrs \cup {NoAddr}] /\ routes \subseteq Addrs
  /\ pc \in [Actors -> Steps] /\ cmd \in [Actors -> Verbs]
  /\ name \in [Actors -> Names \cup {NoName}]
  /\ snap \in [Actors -> Instance \cup {Absent}]
  /\ ip \in [Actors -> Addrs \cup {NoAddr}] /\ dom \in [Actors -> BOOLEAN]
  /\ made \in [Actors -> 0..MaxCalls] /\ targets \in [Actors -> SUBSET Addrs]
  /\ outcome \in [Actors -> {"none", "ok", "failed"}]
  /\ \A n \in Names : inst[n] # Absent /\ inst[n].ip # NoAddr => inst[n].running
  /\ \A p \in Actors : pc[p] # "idle" => name[p] # NoName

Init ==
  /\ regime \in Regimes
  /\ inst = [n \in Names |-> Absent] /\ born = 0 /\ calls = 0
  /\ hosts = [n \in Names |-> NoAddr] /\ routes = {}
  /\ pc = [p \in Actors |-> "idle"] /\ cmd = [p \in Actors |-> "start"]
  /\ name = [p \in Actors |-> NoName]
  /\ snap = [p \in Actors |-> Absent]
  /\ ip = [p \in Actors |-> NoAddr] /\ dom = [p \in Actors |-> FALSE]
  /\ made = [p \in Actors |-> 0] /\ targets = [p \in Actors |-> {}]
  /\ outcome = [p \in Actors |-> "none"]

Mine(p) == inst[name[p]]
Exists(n)  == inst[n] # Absent
Running(n) == Exists(n) /\ inst[n].running
At(p, step) == pc[p] = step
Goto(p, step) == pc' = [pc EXCEPT ![p] = step] /\ UNCHANGED outcome
SetInst(p, i) == inst' = [inst EXCEPT ![name[p]] = i]

Succeed(p) ==
  /\ pc' = [pc EXCEPT ![p] = "idle"]
  /\ outcome' = [outcome EXCEPT ![p] = "ok"]

GiveUp(p) ==
  /\ pc' = [pc EXCEPT ![p] = "idle"]
  /\ outcome' = [outcome EXCEPT ![p] = "failed"]

\* Mutant: the rollback of a run is in place before the container is created.
MutFail(p) ==
  IF cmd[p] = "run" THEN Goto(p, "undo-hosts")
  ELSE IF pc[p] \in {"read", "create", "boot"} \/ cmd[p] # "install" THEN GiveUp(p)
  ELSE Goto(p, "undo-halt")

\* An error.  The rollbacks are in place once the launch has returned.
Fail(p) ==
  IF pc[p] \in {"read", "create", "boot"} \/ cmd[p] \notin {"run", "install"} THEN GiveUp(p)
  ELSE Goto(p, IF cmd[p] = "run" THEN "undo-hosts" ELSE "undo-halt")

Failure(p) == pc[p] \in regime.failing /\ Fail(p)

\* The container's status as snapshots show it.
Look(p) ==
  /\ snap' = [snap EXCEPT ![p] = Mine(p)]
  /\ ip' = [ip EXCEPT ![p] = Mine(p).ip]
  /\ dom' = [dom EXCEPT ![p] = Mine(p).domain]

-----------------------------------------------------------------------------
Begin(p, c, n) ==
  /\ At(p, "idle") /\ calls < regime.calls
  /\ calls' = calls + 1
  /\ pc' = [pc EXCEPT ![p] = IF c = "install" THEN "create" ELSE "read"]
  /\ cmd' = [cmd EXCEPT ![p] = c] /\ name' = [name EXCEPT ![p] = n]
  /\ snap' = [snap EXCEPT ![p] = Absent] /\ ip' = [ip EXCEPT ![p] = NoAddr]
  /\ \E d \in (IF c = "run" THEN BOOLEAN ELSE {FALSE}) : dom' = [dom EXCEPT ![p] = d]
  /\ made' = [made EXCEPT ![p] = 0] /\ targets' = [targets EXCEPT ![p] = {}]
  /\ outcome' = [outcome EXCEPT ![p] = "none"]
  /\ UNCHANGED <<inst, born, hostVars>>

\* CmdRestart: a stop if the container runs, and a start.
ReadRestart(p) ==
  /\ At(p, "read") /\ cmd[p] = "restart"
  /\ \/ /\ Exists(name[p])
        /\ cmd' = [cmd EXCEPT ![p] = IF Mine(p).running THEN "stop-then-start" ELSE "start"]
        /\ UNCHANGED <<pc, outcome>>
     \/ /\ ~Exists(name[p]) \/ "read" \in regime.failing
        /\ GiveUp(p)
        /\ UNCHANGED cmd
  /\ UNCHANGED <<inst, born, hostVars, calls, name, snap, ip, dom, made, targets>>

\* runFromBuiltImage: the name must be free, and the ports and mounts valid.
ReadFree(p) ==
  /\ At(p, "read") /\ cmd[p] = "run"
  /\ \/ ~Exists(name[p]) /\ Goto(p, "create")
     \/ (Exists(name[p]) \/ "read" \in regime.failing) /\ GiveUp(p)
  /\ UNCHANGED <<inst, born, hostVars, calls, callVars>>

\* GetContainer at the head of the other commands.
Read(p) ==
  /\ At(p, "read") /\ cmd[p] \notin {"run", "restart"}
  /\ \/ /\ Exists(name[p]) /\ Look(p)
        /\ \/ cmd[p] = "start" /\ Goto(p, IF Mine(p).running THEN "wait" ELSE "boot")
           \/ cmd[p] \in {"stop", "stop-then-start", "remove"} /\ Goto(p, "halt")
           \/ cmd[p] = "set-domain" /\ Goto(p, "domain")
           \/ cmd[p] = "unset-domain" /\ Mine(p).domain /\ Goto(p, "domain")
           \/ cmd[p] = "unset-domain" /\ ~Mine(p).domain /\ Succeed(p)
     \/ /\ ~Exists(name[p]) \/ "read" \in regime.failing
        /\ GiveUp(p)
        /\ UNCHANGED <<snap, ip, dom>>
  /\ UNCHANGED <<inst, born, hostVars, calls, cmd, name, made, targets>>

\* CreateInstance.
Create(p) ==
  /\ At(p, "create")
  /\ \/ /\ ~Exists(name[p]) /\ born < MaxCalls
        /\ SetInst(p, [id |-> born + 1, running |-> FALSE, ip |-> NoAddr, domain |-> FALSE])
        /\ born' = born + 1 /\ made' = [made EXCEPT ![p] = born + 1]
        /\ Goto(p, "boot")
     \/ /\ (Exists(name[p]) /\ Fail(p)) \/ Failure(p)
        /\ UNCHANGED <<inst, born, made>>
  /\ UNCHANGED <<hostVars, calls, cmd, name, snap, ip, dom, targets>>

\* Start: it can fail before the container runs, and after.
Boot(p) ==
  /\ At(p, "boot")
  /\ \/ /\ Exists(name[p]) /\ ~Running(name[p])
        /\ SetInst(p, [Mine(p) EXCEPT !.running = TRUE])
        /\ Goto(p, IF cmd[p] = "start" THEN "reread" ELSE "wait") \/ Failure(p)
     \/ /\ ((~Exists(name[p]) \/ Running(name[p])) /\ Fail(p)) \/ Failure(p)
        /\ UNCHANGED inst
  /\ UNCHANGED <<born, hostVars, calls, callVars>>

Reread(p) ==
  /\ At(p, "reread")
  /\ \/ Exists(name[p]) /\ Look(p) /\ Goto(p, "wait")
     \/ /\ (~Exists(name[p]) /\ Fail(p)) \/ Failure(p)
        /\ UNCHANGED <<snap, ip, dom>>
  /\ UNCHANGED <<inst, born, hostVars, calls, cmd, name, made, targets>>

\* waitForIP, unless the snapshot has the address already.
HasAddr(p) == ip[p] # NoAddr \/ (Exists(name[p]) /\ Mine(p).ip # NoAddr)

WaitForIP(p) ==
  /\ At(p, "wait") /\ HasAddr(p)
  /\ ip' = [ip EXCEPT ![p] = IF @ # NoAddr THEN @ ELSE Mine(p).ip]
  /\ Goto(p, IF cmd[p] = "set-domain" THEN "hosts"
             ELSE IF cmd[p] = "start" /\ name[p] \notin Bridged THEN "ports"
             ELSE "list")
  /\ UNCHANGED <<inst, born, hostVars, calls, cmd, name, snap, dom, made, targets>>

\* A run without DOMAIN and EXPOSE does without an address, and a new domain is
\* left for the next start.
WaitTimesOut(p) ==
  /\ At(p, "wait") /\ ~HasAddr(p)
  /\ \/ cmd[p] # "set-domain" /\ Fail(p)
     \/ cmd[p] = "run" /\ ~dom[p] /\ Goto(p, "ports")
     \/ cmd[p] = "set-domain" /\ Succeed(p)
  /\ UNCHANGED <<inst, born, hostVars, calls, callVars>>

-----------------------------------------------------------------------------
(* AutoConfigureHostBridge: the running bridge containers are listed, and  *)
(* then routed one by one.  A listing that fails counts as an empty one.   *)

ListTargets(p) ==
  /\ At(p, "list")
  /\ \/ targets' = [targets EXCEPT ![p] =
                      {inst[n].ip : n \in {m \in Bridged : Running(m)}} \ {NoAddr}]
     \/ "list" \in regime.failing /\ targets' = [targets EXCEPT ![p] = {}]
  /\ Goto(p, "route")
  /\ UNCHANGED <<inst, born, hostVars, calls, cmd, name, snap, ip, dom, made>>

AddRoutes(p) ==
  /\ At(p, "route")
  /\ \/ /\ routes' = routes \cup targets[p]
        /\ \/ cmd[p] = "install" /\ Succeed(p)
           \/ cmd[p] = "start" /\ Goto(p, "ports")
           \/ cmd[p] = "run" /\ Goto(p, IF dom[p] THEN "domain" ELSE "ports")
     \/ Failure(p) /\ \E T \in SUBSET targets[p] : routes' = routes \cup T
  /\ UNCHANGED <<inst, born, hosts, calls, callVars>>

\* SetDomain and UnsetDomain: the container's configuration.
ChangeDomain(p) ==
  /\ At(p, "domain")
  /\ \/ /\ Exists(name[p])
        /\ SetInst(p, [Mine(p) EXCEPT !.domain = cmd[p] # "unset-domain"])
        /\ \/ cmd[p] = "run" /\ Goto(p, "hosts")
           \/ cmd[p] = "unset-domain" /\ Goto(p, "unhost")
           \/ cmd[p] = "set-domain" /\ snap[p].running /\ Goto(p, "wait")
           \/ cmd[p] = "set-domain" /\ ~snap[p].running /\ Succeed(p)
     \/ /\ (~Exists(name[p]) /\ Fail(p)) \/ Failure(p)
        /\ UNCHANGED inst
  /\ UNCHANGED <<born, hostVars, calls, callVars>>

\* updateHosts.
UpdateHosts(p) ==
  /\ At(p, "hosts")
  /\ \/ /\ hosts' = [hosts EXCEPT ![name[p]] = ip[p]]
        /\ IF cmd[p] = "run" THEN Goto(p, "ports") ELSE Succeed(p)
     \/ Failure(p) /\ UNCHANGED hosts
  /\ UNCHANGED <<inst, born, routes, calls, callVars>>

\* RefreshPortMappings, and AddPortMapping for a run that exposes ports.
Ports(p) ==
  /\ At(p, "ports")
  /\ \/ /\ Exists(name[p]) \/ cmd[p] = "run"
        /\ IF cmd[p] = "start" /\ dom[p] THEN Goto(p, "hosts") ELSE Succeed(p)
     \/ ~Exists(name[p]) /\ Fail(p)
     \/ Failure(p)
  /\ UNCHANGED <<inst, born, hostVars, calls, callVars>>

-----------------------------------------------------------------------------
(* CmdStop, CmdRemoveContainer.                                            *)

\* A container after it stopped, as Incus reports it.
Stopped(i) == [i EXCEPT !.running = FALSE, !.ip = NoAddr]

\* Mutant: nothing is left to do for a container that is stopped already.
MutHalt(p) ==
  /\ At(p, "halt")
  /\ \/ /\ Exists(name[p]) /\ SetInst(p, Stopped(Mine(p)))
        /\ IF Running(name[p]) THEN Goto(p, IF cmd[p] = "remove" THEN "delete" ELSE "unhost")
                             ELSE Succeed(p)
     \/ /\ (~Exists(name[p]) /\ Fail(p)) \/ Failure(p)
        /\ UNCHANGED inst
  /\ UNCHANGED <<born, hostVars, calls, callVars>>

\* Stop; a container that is stopped already is no error.
Halt(p) ==
  /\ At(p, "halt")
  /\ \/ /\ Exists(name[p]) /\ SetInst(p, Stopped(Mine(p)))
        /\ Goto(p, IF cmd[p] = "remove" THEN "delete" ELSE "unhost")
     \/ /\ (~Exists(name[p]) /\ Fail(p)) \/ Failure(p)
        /\ UNCHANGED inst
  /\ UNCHANGED <<born, hostVars, calls, callVars>>

\* Delete: Incus refuses while the container runs.
Delete(p) ==
  /\ At(p, "delete")
  /\ \/ /\ Exists(name[p]) /\ ~Running(name[p]) /\ SetInst(p, Absent)
        /\ Goto(p, "unhost")
     \/ /\ ((~Exists(name[p]) \/ Running(name[p])) /\ Fail(p)) \/ Failure(p)
        /\ UNCHANGED inst
  /\ UNCHANGED <<born, hostVars, calls, callVars>>

\* removeHostsLine.
RemoveHostsLine(p) ==
  /\ At(p, "unhost")
  /\ \/ /\ hosts' = [hosts EXCEPT ![name[p]] = NoAddr]
        /\ IF cmd[p] = "unset-domain" THEN Succeed(p) ELSE Goto(p, "unroute")
     \/ Failure(p) /\ UNCHANGED hosts
  /\ UNCHANGED <<inst, born, routes, calls, callVars>>

\* Mutant: the address is read again, now that the container has stopped.
MutRemoveRoute(p) ==
  /\ At(p, "unroute")
  /\ routes' = IF Exists(name[p]) THEN routes \ {Mine(p).ip} ELSE routes
  /\ IF cmd[p] = "stop-then-start"
       THEN Goto(p, "read") /\ cmd' = [cmd EXCEPT ![p] = "start"]
       ELSE Succeed(p) /\ UNCHANGED cmd
  /\ UNCHANGED <<inst, born, hosts, calls, name, snap, ip, dom, made, targets>>

\* removeHostBridgeRoute, of the address read before the container stopped.
RemoveRoute(p) ==
  /\ At(p, "unroute")
  /\ routes' = IF name[p] \in Bridged THEN routes \ {snap[p].ip} ELSE routes
  /\ IF cmd[p] = "stop-then-start"
       THEN Goto(p, "read") /\ cmd' = [cmd EXCEPT ![p] = "start"]
       ELSE Succeed(p) /\ UNCHANGED cmd
  /\ UNCHANGED <<inst, born, hosts, calls, name, snap, ip, dom, made, targets>>

-----------------------------------------------------------------------------
(* The rollbacks of a run and of an install, whose own errors are ignored. *)

UndoHosts(p) ==
  /\ At(p, "undo-hosts")
  /\ \/ hosts' = [hosts EXCEPT ![name[p]] = NoAddr]
     \/ "undo-hosts" \in regime.failing /\ UNCHANGED hosts
  /\ Goto(p, "undo-halt")
  /\ UNCHANGED <<inst, born, routes, calls, callVars>>

\* Stop, and StopForce if that fails.
UndoHalt(p) ==
  /\ At(p, "undo-halt")
  /\ \/ Exists(name[p]) /\ SetInst(p, Stopped(Mine(p)))
     \/ /\ ~Exists(name[p]) \/ "undo-halt" \in regime.failing
        /\ UNCHANGED inst
  /\ Goto(p, "undo-delete")
  /\ UNCHANGED <<born, hostVars, calls, callVars>>

\* Mutant: the container is stopped but left.
MutUndoDelete(p) ==
  /\ At(p, "undo-delete")
  /\ GiveUp(p)
  /\ UNCHANGED <<inst, born, hostVars, calls, callVars>>

UndoDelete(p) ==
  /\ At(p, "undo-delete")
  /\ \/ Exists(name[p]) /\ ~Running(name[p]) /\ SetInst(p, Absent)
     \/ /\ ~Exists(name[p]) \/ Running(name[p]) \/ "undo-delete" \in regime.failing
        /\ UNCHANGED inst
  /\ GiveUp(p)
  /\ UNCHANGED <<born, hostVars, calls, callVars>>

-----------------------------------------------------------------------------
(* The network gives an address, and a container powers itself off.        *)

Lease(n) ==
  /\ Running(n) /\ inst[n].ip = NoAddr
  /\ \E x \in Addrs \ {inst[m].ip : m \in {l \in Names : Exists(l)}} :
       inst' = [inst EXCEPT ![n].ip = x]
  /\ UNCHANGED <<born, hostVars, calls, pc, callVars, outcome>>

PowersOff(n) ==
  /\ n \in regime.leaving /\ Running(n)
  /\ inst' = [inst EXCEPT ![n] = Stopped(@)]
  /\ UNCHANGED <<born, hostVars, calls, pc, callVars, outcome>>

Step(p) ==
  \/ ReadRestart(p) \/ ReadFree(p) \/ Read(p) \/ Create(p) \/ Boot(p) \/ Reread(p)
  \/ WaitForIP(p) \/ WaitTimesOut(p) \/ ListTargets(p) \/ AddRoutes(p)
  \/ ChangeDomain(p) \/ UpdateHosts(p) \/ Ports(p)
  \/ Halt(p) \/ Delete(p) \/ RemoveHostsLine(p) \/ RemoveRoute(p)
  \/ UndoHosts(p) \/ UndoHalt(p) \/ UndoDelete(p)

Next ==
  /\ \/ \E p \in regime.busy :
          \/ \E c \in regime.commands, n \in regime.on : Begin(p, c, n)
          \/ Step(p)
     \/ \E n \in Names : Lease(n) \/ PowersOff(n)
  /\ UNCHANGED regime

Spec == Init /\ [][Next]_vars

-----------------------------------------------------------------------------
(* Properties.                                                             *)

Quiet == \A p \in Actors : pc[p] = "idle"

\* One command at a time, all of whose steps succeed.
Serial == \A p, q \in regime.busy : p = q
Smooth == Serial /\ regime.failing = {} /\ regime.leaving = {}

\* Leads to a running container of that address.
Reachable(n, x) == Running(n) /\ inst[n].ip = x

\* Between commands, a line of /etc/hosts leads to a running container that has
\* a domain.
NoStaleLine ==
  Smooth /\ Quiet => \A n \in Names : hosts[n] # NoAddr =>
                       Reachable(n, hosts[n]) /\ inst[n].domain

\* Between commands, a /32 route leads to a running bridge container.
NoStaleRoute ==
  Smooth /\ Quiet => \A x \in routes : \E n \in Bridged : Reachable(n, x)

\* A start or a run that reports success leaves a container with a domain
\* reachable by it and, in bridge mode, by a route.
StartMakesReachable ==
  Smooth /\ Quiet => \A p \in Actors :
    outcome[p] = "ok" /\ cmd[p] \in {"start", "run"} /\ inst[name[p]].domain =>
      /\ hosts[name[p]] = inst[name[p]].ip
      /\ (name[p] \in Bridged => inst[name[p]].ip \in routes)

\* Between commands the host's state is that of the containers: its lines and
\* routes lead to running ones, and those that a command made reachable have them.
HostAgrees == NoStaleLine /\ NoStaleRoute /\ StartMakesReachable

\* After a stop or a removal that reports success, the domain no longer
\* resolves to the offline container, whatever failed in earlier attempts.
StopCleansHosts ==
  Serial /\ Quiet => \A p \in Actors :
    outcome[p] = "ok" /\ cmd[p] \in {"stop", "remove"} /\ ~Running(name[p])
      => hosts[name[p]] = NoAddr

\* A run or an install that reports an error leaves no container behind: once
\* the container has been started, and unless the rollback fails itself.
FailedRunLeavesNothing ==
  Serial => \A p \in Actors :
    outcome[p] = "failed" /\ made[p] # 0
      => \A n \in Names : ~(Exists(n) /\ inst[n].id = made[p])

\* A rollback deletes no container but the one its command created, unless
\* containers are removed meanwhile.
RollbackOwn ==
  [][\A n \in Names : Exists(n) /\ inst'[n] = Absent =>
       \/ "remove" \in regime.commands
       \/ \E p \in Actors :
            pc[p] = "undo-delete" /\ name[p] = n /\ made[p] = inst[n].id]_vars
=============================================================================
