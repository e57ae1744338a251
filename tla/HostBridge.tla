----------------------------- MODULE HostBridge -----------------------------
(***************************************************************************)
(* The host's side of bridge networking (src/internal/bocker/              *)
(* cmd_hostnet.go): the macvlan shim bocker-shim0 that lets the host reach *)
(* bridge containers, with its address, routes, neighbours and sysctls,    *)
(* the earlier shim under the name bocker-br0, and the managed network of  *)
(* the same name that stands in for macvlan behind a Wi-Fi uplink          *)
(* (network.go, ensureBridgeNetwork).                                      *)
(*                                                                         *)
(* A command starts a container and configures the shim for all that run,  *)
(* one `ip` command or sysctl at a time, or stops one and drops its route. *)
(* The addresses of the LAN are 1..LastHost, the host number of each; a        *)
(* container behind the managed network has its own name for an address,   *)
(* and an IPv6 address is named by its container.  The kernel's tables and *)
(* the DHCP server of the LAN are external.                                *)
(***************************************************************************)
EXTENDS Naturals, Sequences, FiniteSets, SequencesExt

CONSTANTS
  Procs,             \* commands in progress
  Containers,        \* containers in bridge mode
  Six,               \* those with a global IPv6 address
  Wired, Wireless,   \* physical interfaces that may be the uplink
  LastHost,              \* the largest host number of the LAN (a /24 has 254)
  HostAddr, Gateway, \* the host's own address and the router's
  Leases,            \* addresses the DHCP server gives to containers
  Overrides,         \* values of BOCKER_HOST_SHIM_CIDR; None: it is not set
  MaxFaults,         \* bound on failing steps
  MaxMoves,          \* bound on changes of the uplink
  None, Managed

LAN == 1 .. LastHost
Addresses == LAN \cup Containers
Uplinks == Wired \cup Wireless

\* The shim's five sysctls stand together as one, and so do the uplink's two.
Shim == "shim"

ASSUME HostBridgeAssumption ==
  /\ LastHost \in Nat /\ MaxFaults \in Nat /\ MaxMoves \in Nat
  /\ Leases \subseteq LAN /\ Overrides \subseteq LAN \cup {None}
  /\ HostAddr \in LAN /\ Gateway \in LAN \cup {None}
  /\ {HostAddr, Gateway} \cap Leases = {} /\ Containers \cap LAN = {}
  /\ Six \subseteq Containers /\ Wired \cap Wireless = {}
  /\ None \notin Addresses \cup Uplinks \cup Procs
  /\ Managed \notin Uplinks \cup {None} /\ Shim \notin Uplinks

VARIABLES
  concurrent,  \* whether commands overlap; then nothing fails, stops or moves
  override,    \* BOCKER_HOST_SHIM_CIDR; both are fixed when the behaviour begins
  uplink,    \* the interface of the default route
  nic,       \* per container, the macvlan's parent, or Managed; None: not created
  addr,      \* per container, its IPv4 address while it runs
  link,      \* the parent of bocker-shim0, None when there is no such link
  addrs,     \* its addresses, oldest first
  up,        \* whether it is up
  isolated,  \* interfaces whose ARP sysctls keep their addresses apart
  routes,    \* addresses with a host route through the shim
  neigh,     \* per address, the container its static neighbour entry names
  legacy,    \* bocker-br0: "none", "shim" (the old macvlan) or "bridge"
  place, subject,    \* where each command is, and the container it is about
  family,    \* 4 or 6: the half of AutoConfigureHostBridge it is in
  targets,   \* the addresses it listed, None for those left out
  parent,    \* the uplink it found
  pick,      \* the address it chose for the shim, or the one it will unroute
  created,   \* whether the shim was missing when it looked
  saved,     \* the sysctls it has set, and those of them that were set before
  todo,      \* targets it has yet to route
  before,    \* history: what it found when this half of its work began, and how
             \* often the uplink had moved when it listed the containers
  reached,   \* history: containers that a call which reported success listed
  faults, moves

host == <<link, addrs, up, isolated, routes, neigh, legacy>>
world == <<uplink, nic, addr>>
work == <<subject, family, targets, parent, pick, created, saved, todo, before>>
fixed == <<concurrent, override>>
bridgeVars == <<fixed, world, host, place, work, reached, faults, moves>>

Places == {"idle", "list", "parent", "address", "exists", "ensure", "add",
          "isolate", "isolate2", "addr", "up", "route", "neigh",
          "undo", "undo2", "unroute"}

BridgeTypeOK ==
  /\ concurrent \in BOOLEAN /\ override \in Overrides
  /\ uplink \in Uplinks
  /\ nic \in [Containers -> Uplinks \cup {Managed, None}]
  /\ addr \in [Containers -> Addresses \cup {None}]
  /\ link \in Wired \cup {None} /\ addrs \in Seq(LAN) /\ up \in BOOLEAN
  /\ isolated \subseteq Wired \cup {Shim}
  /\ routes \subseteq Addresses \X {4, 6}
  /\ neigh \in [Addresses \X {4, 6} -> Containers \cup {None}]
  /\ legacy \in {"none", "shim", "bridge"}
  /\ place \in [Procs -> Places]
  /\ subject \in [Procs -> Containers \cup {None}]
  /\ family \in [Procs -> {4, 6}]
  /\ targets \in [Procs -> [Containers -> Addresses \cup {None}]]
  /\ parent \in [Procs -> Uplinks \cup {None}]
  /\ pick \in [Procs -> Addresses \cup {None}]
  /\ created \in [Procs -> BOOLEAN]
  /\ saved \in [Procs -> [set : SUBSET (Wired \cup {Shim}), was : SUBSET (Wired \cup {Shim})]]
  /\ todo \in [Procs -> SUBSET Containers]
  /\ before \in [Procs -> [link : Wired \cup {None}, isolated : SUBSET (Wired \cup {Shim}),
                        moves : 0 .. MaxMoves]]
  /\ reached \subseteq Containers
  /\ faults \in 0 .. MaxFaults /\ moves \in 0 .. MaxMoves

Nothing == [c \in Containers |-> None]
Unsaved == [set |-> {}, was |-> {}]
Unseen == [link |-> None, isolated |-> {}, moves |-> 0]

BridgeInit ==
  /\ concurrent \in BOOLEAN /\ override \in Overrides
  /\ uplink \in Uplinks
  /\ nic = Nothing /\ addr = Nothing
  /\ link = None /\ addrs = <<>> /\ up = FALSE /\ isolated = {}
  /\ routes = {} /\ neigh = [a \in Addresses \X {4, 6} |-> None]
  /\ legacy \in {"none", "shim"}
  /\ place = [p \in Procs |-> "idle"] /\ subject = [p \in Procs |-> None]
  /\ family = [p \in Procs |-> 4]
  /\ targets = [p \in Procs |-> Nothing]
  /\ parent = [p \in Procs |-> None] /\ pick = [p \in Procs |-> None]
  /\ created = [p \in Procs |-> FALSE] /\ saved = [p \in Procs |-> Unsaved]
  /\ todo = [p \in Procs |-> {}]
  /\ before = [p \in Procs |-> Unseen]
  /\ reached = {} /\ faults = 0 /\ moves = 0

At(p, step) == place[p] = step
Enter(p, step) == place' = [place EXCEPT ![p] = step]
Fault == ~concurrent /\ faults < MaxFaults /\ faults' = faults + 1
InUse == {addr[c] : c \in Containers} \cap LAN
Listed(p) == {c \in Containers : targets[p][c] # None}
ListedSix(p) == Listed(p) \cap Six

\* A serial behaviour runs one command at a time, all by the same process.
MayBegin(p) ==
  /\ At(p, "idle")
  /\ concurrent \/ p = CHOOSE q \in Procs : TRUE

\* The command ends and what it knew is gone.
End(p) ==
  /\ Enter(p, "idle")
  /\ subject' = [subject EXCEPT ![p] = None] /\ family' = [family EXCEPT ![p] = 4]
  /\ targets' = [targets EXCEPT ![p] = Nothing]
  /\ parent' = [parent EXCEPT ![p] = None] /\ pick' = [pick EXCEPT ![p] = None]
  /\ created' = [created EXCEPT ![p] = FALSE] /\ saved' = [saved EXCEPT ![p] = Unsaved]
  /\ todo' = [todo EXCEPT ![p] = {}]
  /\ before' = [before EXCEPT ![p] = Unseen]

\* A call that returned nil: what it listed and still runs counts as reached,
\* unless the uplink moved meanwhile.
Steady(p) == before[p].moves = moves
Succeed(p) ==
  /\ End(p)
  /\ reached' = IF Steady(p) THEN reached \cup {c \in Listed(p) : addr[c] = targets[p][c]}
                ELSE reached

\* The IPv6 half follows when a target has an IPv6 address.
HalfDone(p) ==
  \/ /\ family[p] = 6 \/ ListedSix(p) = {}
     /\ Succeed(p)
  \/ /\ family[p] = 4 /\ ListedSix(p) # {}
     /\ Enter(p, "parent")
     /\ family' = [family EXCEPT ![p] = 6]
     /\ saved' = [saved EXCEPT ![p] = Unsaved]
     /\ UNCHANGED <<subject, targets, parent, pick, created, todo, before, reached>>

---------------------------------------------------------------------------
(* Containers                                                              *)

\* The start of a container, created first if need be, up to its address.
\* Behind a Wi-Fi uplink the managed network must exist, and Incus cannot
\* create it over an interface of its name.
Launch(p, c) ==
  /\ MayBegin(p) /\ addr[c] = None
  /\ \A q \in Procs : subject[q] # c
  /\ uplink \in Wireless => legacy # "shim"
  /\ legacy' = IF uplink \in Wireless THEN "bridge" ELSE legacy
  /\ nic' = [nic EXCEPT ![c] = IF @ # None THEN @
                              ELSE IF uplink \in Wireless THEN Managed ELSE uplink]
  /\ \E a \in IF nic'[c] = Managed THEN {c} ELSE Leases \ InUse :
       addr' = [addr EXCEPT ![c] = a]
  /\ Enter(p, "list") /\ subject' = [subject EXCEPT ![p] = c]
  /\ UNCHANGED <<fixed, uplink, link, addrs, up, isolated, routes, neigh, family,
                 targets, parent, pick, created, saved, todo, before, reached,
                 faults, moves>>

\* A stop reads the address before it asks Incus.
Stop(p, c) ==
  /\ MayBegin(p) /\ addr[c] # None /\ ~concurrent
  /\ Enter(p, "unroute") /\ subject' = [subject EXCEPT ![p] = c]
  /\ pick' = [pick EXCEPT ![p] = addr[c]]
  /\ addr' = [addr EXCEPT ![c] = None]
  /\ reached' = reached \ {c}
  /\ UNCHANGED <<fixed, uplink, nic, host, family, targets, parent, created, saved,
                 todo, before, faults, moves>>

\* removeHostBridgeRoute and removeHostBridgeIPv6Route report nothing.
Unroute(p) ==
  /\ At(p, "unroute")
  /\ \/ /\ routes' = routes \ {<<pick[p], 4>>, <<subject[p], 6>>}
        /\ neigh' = [neigh EXCEPT ![<<subject[p], 6>>] = None]
        /\ UNCHANGED faults
     \/ Fault /\ UNCHANGED <<routes, neigh>>
  /\ End(p)
  /\ UNCHANGED <<fixed, world, link, addrs, up, isolated, legacy, reached, moves>>

PowerOff(c) ==
  /\ ~concurrent /\ addr[c] # None
  /\ addr' = [addr EXCEPT ![c] = None]
  /\ reached' = reached \ {c}
  /\ UNCHANGED <<fixed, uplink, nic, host, place, work, faults, moves>>

\* A cable is plugged or pulled: the default route changes.
MoveUplink ==
  /\ ~concurrent /\ moves < MaxMoves
  /\ \E u \in Uplinks \ {uplink} : uplink' = u
  /\ reached' = {} /\ moves' = moves + 1
  /\ UNCHANGED <<fixed, nic, addr, host, place, work, faults>>

---------------------------------------------------------------------------
(* AutoConfigureHostBridge                                                 *)

outside == <<fixed, world, legacy, subject, targets, moves>>

\* A listing that fails counts as an empty one.
List(p) ==
  /\ At(p, "list")
  /\ \/ /\ targets' = [targets EXCEPT ![p] = addr]
        /\ addr # Nothing /\ Enter(p, "parent")
        /\ before' = [before EXCEPT ![p].moves = moves]
        /\ UNCHANGED <<subject, family, parent, pick, created, saved, todo, faults>>
     \/ addr = Nothing /\ End(p) /\ UNCHANGED faults
     \/ Fault /\ End(p)
  /\ UNCHANGED <<fixed, world, host, reached, moves>>

\* detectBridgeParent.  Behind Wi-Fi there is nothing to do.
FindParent(p) ==
  /\ At(p, "parent")
  /\ \/ uplink \in Wireless /\ HalfDone(p) /\ UNCHANGED faults
     \/ /\ uplink \in Wired
        /\ Enter(p, IF family[p] = 4 THEN "address" ELSE "exists")
        /\ parent' = [parent EXCEPT ![p] = uplink]
        /\ before' = [before EXCEPT ![p] = [@ EXCEPT !.link = link, !.isolated = isolated]]
        /\ UNCHANGED <<subject, family, targets, pick, created, saved, todo, reached, faults>>
     \/ Fault /\ End(p) /\ UNCHANGED reached
  /\ UNCHANGED <<fixed, world, host, moves>>

Reserved(p) == {targets[p][c] : c \in Listed(p)}

\* existingShimCIDR: the first address of the shim or else of the old shim,
\* which was chosen from the same end of the network.
Existing ==
  IF addrs # <<>> THEN {Head(addrs)}
  ELSE IF legacy = "shim" THEN {LastHost} ELSE {}

\* pickHostShimIP, with the addresses that answered its ping.
Candidates(p, answering) ==
  LAN \ ({HostAddr, Gateway} \cup Reserved(p) \cup answering)

\* autoHostShimCIDR: the administrator's choice, the address there is, or the
\* highest one that is free.  A host without ping sees no address in use.
ShimAddresses(p) ==
  IF override # None THEN {override} \ Reserved(p)
  ELSE IF Existing \ Reserved(p) # {} THEN Existing
  ELSE UNION {{a \in Candidates(p, answering) : \A b \in Candidates(p, answering) : b <= a} :
                answering \in {InUse, {}}}

ChooseAddress(p) ==
  /\ At(p, "address")
  /\ \/ /\ \E a \in ShimAddresses(p) : pick' = [pick EXCEPT ![p] = a]
        /\ Enter(p, "exists")
        /\ UNCHANGED <<family, parent, created, saved, todo, before, subject, targets>>
     \/ ShimAddresses(p) = {} /\ End(p)
  /\ UNCHANGED <<fixed, world, host, reached, faults, moves>>

\* Mutant: it looks for the shim once it has made sure of it.
MutLookForShim(p) ==
  /\ At(p, "exists")
  /\ created' = [created EXCEPT ![p] = FALSE]
  /\ Enter(p, "ensure")
  /\ UNCHANGED <<outside, link, addrs, up, isolated, routes, neigh, family, parent,
                 pick, saved, todo, before, reached, faults>>

\* created := !linkExists(defaultHostShimName)
LookForShim(p) ==
  /\ At(p, "exists")
  /\ created' = [created EXCEPT ![p] = link = None]
  /\ Enter(p, "ensure")
  /\ UNCHANGED <<outside, link, addrs, up, isolated, routes, neigh, family, parent,
                 pick, saved, todo, before, reached, faults>>

\* What goes with the link.
DeleteLink ==
  /\ link' = None /\ addrs' = <<>> /\ up' = FALSE
  /\ isolated' = isolated \ {Shim}
  /\ routes' = {} /\ neigh' = [a \in Addresses \X {4, 6} |-> None]

\* Mutant: any macvlan of that name will do.
MutEnsureShim(p) ==
  /\ At(p, "ensure")
  /\ \/ link # None /\ Enter(p, "isolate") /\ UNCHANGED <<work, faults>>
     \/ link = None /\ Enter(p, "add") /\ UNCHANGED <<work, faults>>
     \/ Fault /\ End(p)
  /\ UNCHANGED <<fixed, world, host, reached, moves>>

\* ensureHostBridge, first half: a shim on another parent has to go.
EnsureShim(p) ==
  /\ At(p, "ensure")
  /\ \/ /\ link = parent[p] /\ Enter(p, "isolate")
        /\ UNCHANGED <<link, addrs, up, isolated, routes, neigh, work, faults>>
     \/ /\ link = None /\ Enter(p, "add")
        /\ UNCHANGED <<link, addrs, up, isolated, routes, neigh, work, faults>>
     \/ /\ link \notin {None, parent[p]} /\ DeleteLink /\ Enter(p, "add")
        /\ UNCHANGED <<work, faults>>
     \/ /\ Fault /\ End(p)
        /\ UNCHANGED <<link, addrs, up, isolated, routes, neigh>>
  /\ UNCHANGED <<fixed, world, legacy, reached, moves>>

\* The kernel refuses a second link of one name.
AddLink(p) ==
  /\ At(p, "add")
  /\ \/ /\ link = None /\ link' = parent[p] /\ Enter(p, "isolate")
        /\ UNCHANGED <<work, faults>>
     \/ link # None /\ End(p) /\ UNCHANGED <<link, faults>>
     \/ Fault /\ End(p) /\ UNCHANGED link
  /\ UNCHANGED <<fixed, world, addrs, up, isolated, routes, neigh, legacy, reached, moves>>

\* Mutant: it writes the kernel's defaults back.
MutRestored(p) == isolated \ saved[p].set

\* What the closure that configureHostBridgeIsolation returns writes back; a
\* setting of a link that is gone is passed over.
Restored(p) ==
  (isolated \ saved[p].set) \cup {k \in saved[p].was : k = Shim => link # None}

\* configureHostBridgeIsolation, the uplink's settings and then the shim's.  A
\* setting that cannot be read ends the call as it stands, one that cannot be
\* written after what was set has been restored; the caller's rollback is not
\* in place yet.
Isolate(p) ==
  /\ place[p] \in {"isolate", "isolate2"}
  /\ LET key == IF At(p, "isolate") THEN parent[p] ELSE Shim
     IN \/ /\ IF key = Shim /\ link = None THEN UNCHANGED <<isolated, saved>>
              ELSE /\ isolated' = isolated \cup {key}
                   /\ saved' = [saved EXCEPT ![p] = [set |-> @.set \cup {key},
                                     was |-> @.was \cup ({key} \cap isolated)]]
           /\ Enter(p, IF At(p, "isolate") THEN "isolate2"
                      ELSE IF family[p] = 4 THEN "addr" ELSE "up")
           /\ UNCHANGED <<subject, family, targets, parent, pick, created, todo, before, faults>>
        \/ Fault /\ End(p) /\ UNCHANGED isolated
        \/ Fault /\ End(p) /\ isolated' = Restored(p)
  /\ UNCHANGED <<fixed, world, link, addrs, up, routes, neigh, legacy, reached, moves>>

\* From here on a failure is rolled back.
Abort(p) == Enter(p, "undo") /\ UNCHANGED work

SetAddress(p) ==
  /\ At(p, "addr")
  /\ \/ /\ link # None /\ Enter(p, "up")
        /\ addrs' = IF pick[p] \in ToSet(addrs) THEN addrs ELSE Append(addrs, pick[p])
        /\ UNCHANGED <<work, faults>>
     \/ link = None /\ Abort(p) /\ UNCHANGED <<addrs, faults>>
     \/ Fault /\ Abort(p) /\ UNCHANGED addrs
  /\ UNCHANGED <<fixed, world, link, up, isolated, routes, neigh, legacy, reached, moves>>

LinkUp(p) ==
  /\ At(p, "up")
  /\ \/ /\ link # None /\ up' = TRUE /\ Enter(p, "route")
        /\ todo' = [todo EXCEPT ![p] = IF family[p] = 4 THEN Listed(p) ELSE ListedSix(p)]
        /\ UNCHANGED <<subject, family, targets, parent, pick, created, saved, before, faults>>
     \/ link = None /\ Abort(p) /\ UNCHANGED <<up, faults>>
     \/ Fault /\ Abort(p) /\ UNCHANGED up
  /\ UNCHANGED <<fixed, world, link, addrs, isolated, routes, neigh, legacy, reached, moves>>

\* The target at hand; Incus lists the containers in one order.
Target(p) == CHOOSE c \in todo[p] : TRUE
Address(p) == IF family[p] = 4 THEN <<targets[p][Target(p)], 4>> ELSE <<Target(p), 6>>

\* The kernel wants the link up and the source address on it.
Routable(p) == up /\ (family[p] = 4 => pick[p] \in ToSet(addrs))

ReplaceRoute(p) ==
  /\ At(p, "route") /\ todo[p] # {}
  /\ \/ /\ Routable(p) /\ Enter(p, "neigh")
        /\ routes' = routes \cup {Address(p)}
        /\ UNCHANGED <<work, faults>>
     \/ ~Routable(p) /\ Abort(p) /\ UNCHANGED <<routes, faults>>
     \/ Fault /\ Abort(p) /\ UNCHANGED routes
  /\ UNCHANGED <<fixed, world, link, addrs, up, isolated, neigh, legacy, reached, moves>>

\* The static neighbour on the host and, for IPv6, inside the container, whose
\* failure counts; the IPv4 one inside is best effort.
ReplaceNeighbour(p) ==
  /\ At(p, "neigh")
  /\ \/ /\ link # None
        /\ neigh' = [neigh EXCEPT ![Address(p)] = Target(p)]
        /\ \/ /\ family[p] = 4 \/ addr[Target(p)] # None
              /\ Enter(p, "route")
              /\ todo' = [todo EXCEPT ![p] = @ \ {Target(p)}]
              /\ UNCHANGED <<subject, family, targets, parent, pick, created, saved, before>>
           \/ family[p] = 6 /\ addr[Target(p)] = None /\ Abort(p)
        /\ UNCHANGED faults
     \/ link = None /\ Abort(p) /\ UNCHANGED <<neigh, faults>>
     \/ Fault /\ Abort(p) /\ UNCHANGED neigh
  /\ UNCHANGED <<fixed, world, link, addrs, up, isolated, routes, legacy, reached, moves>>

\* removeLegacyHostShim tells the old macvlan from the managed network.
RemoveLegacyShim(p) ==
  /\ At(p, "route") /\ todo[p] = {}
  /\ legacy' = IF legacy = "shim" THEN "none" ELSE legacy
  /\ HalfDone(p)
  /\ UNCHANGED <<fixed, world, link, addrs, up, isolated, routes, neigh, faults, moves>>

\* The deferred rollback: the sysctls, and the link if it was missing before.
Undo(p) ==
  /\ At(p, "undo")
  /\ isolated' = Restored(p)
  /\ Enter(p, "undo2")
  /\ UNCHANGED <<fixed, world, link, addrs, up, routes, neigh, legacy, work, reached,
                 faults, moves>>

UndoLink(p) ==
  /\ At(p, "undo2")
  /\ IF created[p] THEN DeleteLink
     ELSE UNCHANGED <<link, addrs, up, isolated, routes, neigh>>
  /\ End(p)
  /\ UNCHANGED <<fixed, world, legacy, reached, faults, moves>>

Configure(p) ==
  \/ List(p) \/ FindParent(p) \/ ChooseAddress(p) \/ LookForShim(p)
  \/ EnsureShim(p) \/ AddLink(p) \/ Isolate(p) \/ SetAddress(p) \/ LinkUp(p)
  \/ ReplaceRoute(p) \/ ReplaceNeighbour(p) \/ RemoveLegacyShim(p)
  \/ Undo(p) \/ UndoLink(p)

BridgeNext ==
  \/ \E p \in Procs, c \in Containers : Launch(p, c) \/ Stop(p, c)
  \/ \E p \in Procs : Configure(p) \/ Unroute(p)
  \/ \E c \in Containers : PowerOff(c)
  \/ MoveUplink

BridgeSpec == BridgeInit /\ [][BridgeNext]_bridgeVars

---------------------------------------------------------------------------
(* Properties                                                              *)

Routed(a, c) == a \in routes /\ neigh[a] = c

\* A container that a successful call listed, on the present uplink, stays
\* reachable from the host until it stops or the uplink changes, whatever later
\* calls do and wherever they fail (AutoConfigureHostBridge), except for one
\* that leases an address of the shim.
Reachable ==
  \A c \in reached : nic[c] = uplink /\ addr[c] \notin ToSet(addrs) =>
    /\ link = uplink /\ up /\ {uplink, Shim} \subseteq isolated
    /\ Routed(<<addr[c], 4>>, c)
    /\ c \in Six => Routed(<<c, 6>>, c)

\* The comment of AutoConfigureHostBridge (cmd_hostnet.go:20) says that it lets
\* the host reach the bridge containers that run: on the present uplink or
\* behind the managed network, which a route through the shim would hide.
BridgeContainersReachable ==
  \A c \in reached :
    /\ nic[c] = uplink => addr[c] \notin ToSet(addrs)
    /\ nic[c] = Managed => <<addr[c], 4>> \notin routes

\* A rollback that runs alone leaves the sysctls as they were and no link where
\* there was none (the deferred function of ensureHostBridgeConnectivity and of
\* its IPv6 twin).
RollbackRestores ==
  [][\A p \in Procs : ~concurrent /\ At(p, "undo2") /\ place'[p] = "idle" =>
       /\ before[p].link = None => link' = None
       /\ before[p].link = link' => isolated' = before[p].isolated]_bridgeVars

\* A shim that is up with an address and its parent never answer ARP for each
\* other (configureHostBridgeIsolation), but while a rollback is between its two
\* steps and after one that undid the isolation of a shim it has to leave: one
\* it had put in the place of the shim of another parent, or one that an earlier
\* call made and could not isolate.
NoFlux ==
  up /\ addrs # <<>> /\ (faults = 0 \/ faults + moves <= 1)
     /\ (\A p \in Procs : ~At(p, "undo2")) =>
    {link, Shim} \subseteq isolated
=============================================================================
