# A TLA+ model of bocker

bocker manages Incus system containers with a Docker-like command line. One
static Go binary is the CLI, the root daemon (which embeds and supervises
`incusd`) and the per-command child process the daemon spawns. A Flutter GUI
drives the CLI. This directory models the parts of `src/internal/bocker` and of
`src/gui` in which several processes, requests, system calls or answers
interleave, checks them with TLC and proves the most important facts with TLAPS.

`PROJECT.json` lists components, runs, mutants, findings, hazards and theorems,
and maps every definition to the source lines it stands for.

## Inventory

| Component (source) | State it keeps | Operations | What makes it hard | What makes it correct | Module |
|---|---|---|---|---|---|
| Control broker (`control_linux.go`) | sockets, the `connections` semaphore, one child process group and three or four goroutines per session | dial, admit or refuse, read request, start, copy output, forward input, kill, reap, reply | goroutines of a session race with the child, its descendants, the client and write deadlines | a request runs at most once and is answered at most once; success is truthful and complete; only abandoned commands are killed, and those always; tokens come back | `ControlBroker`, `RemoteCommand` |
| `/etc/hosts` (`cmd_hosts.go`) | the file, its directory entry, the lock | `updateHosts`, `removeHostsLine` | processes race, die, lose power; other programs append | one line per container, nobody else's line lost, a call is atomic | `HostsFile`, `HostsMap` |
| Image store (`incus.go`) | aliases and images in Incus | `PublishImage`, `DeleteImageByAlias`, `image run` | chains of requests with other commands between any two, lost answers | an alias keeps an image, an image keeps an alias | `ImageStore` |
| Container lifecycle (`cmd_lifecycle.go`, `cmd_install.go`, `cmd_set.go`, end of `cmd_build.go`) | instances in Incus, lines in `/etc/hosts`, `/32` routes | start, stop, restart, remove, install, run, domain, export, import | stale snapshots, failing steps, rollbacks by name | host state agrees with what runs; a failed command leaves nothing | `ContainerLifecycle`, `InstanceConfig` |
| Daemon supervisor (`embedded_daemon_linux.go`) | extracted runtime and its marker, daemon lock, `incusd`, `lxcfs`, pid file, systemd unit | extract, start, serve, shut down; install and restart the unit; wait for the daemon | crashes between steps, two supervisors, escalating timeouts, versions | one daemon on a complete runtime; nothing left; calls and stops end | `Supervisor` |
| Host bridge (`cmd_hostnet.go`) | the macvlan shim link, addresses, sysctls, routes, neighbour entries, the link of older versions | configure (IPv4, IPv6), roll back, remove a route, replace the legacy link | concurrent processes share one link; rollback covers part of the steps; the uplink and leases change | what was made reachable stays so; a rollback leaves nothing; ARP stays apart | `HostBridge` |
| Ports (`cmd_port.go`) | proxy devices of an instance | add, remove, refresh at start | ETag read-modify-write, devices of older versions | mappings lead to the address the container has | `InstanceConfig`, `InstanceMap` |
| Mounts (`mount.go`) | disk devices of an instance | add, update, remove | status is not covered by the ETag, profiles | one disk per target, changes on stopped containers only | `InstanceConfig`, `InstanceMap` |
| Network modes (`network.go`, `incus.go`) | Incus networks, NIC devices | ensure NAT or bridge, switch a container | networks of older versions, operator's subnets, stale reads | the network of a running container's mode is there; an operator's subnet stays | `InstanceConfig` |
| Build (`cmd_build.go`) | stage containers | stages in sequence, clean-up, publish | a failure or a kill at any step | stage containers go, only whole images are published | `ImageBuild` |
| Stage copy (`CopyBetweenContainers`) | a pipe, two exec operations, a goroutine | copy | two remote processes, a goroutine and three channels wait on each other | it ends, and a cut copy is an error | `ImageBuild` |
| GUI (`gui/lib/main.dart`) | section, lists, loading flag, generation counter, active processes | refresh, run a command, settings, exec, change section, cancel | answers out of order | shows the section's newest answer; comes to rest | `GuiHome` |
| Incusfile (`incusfile*.go`, `build_args.go`) | none | parse, resolve arguments | mutual references, defaults, overrides | resolution is total and order-free | - |
| Listing, menus, dispatch, validation, packaging | none of their own | formatting, pass-through | - | - | - |

Interactions. The unprivileged CLI reaches the daemon through the control
broker, which runs the same binary as root. The first command brings the
supervisor and `incusd` up. The child executes the lifecycle, image and build
commands as chains of requests to `incusd`, edits `/etc/hosts` under a file lock
shared by all children, and changes links and routes on the host with `ip`.
Nothing above the single Incus request (whose ETag guards one object) and the
hosts lock is serialised: two children that work on the same container or alias
interleave freely. The models compose by abstraction: `ContainerLifecycle`
changes `hosts` in one step, which `HostsFile` implements (`ImplementsHostsMap`),
and adds and removes `/32` routes in one step, which `HostBridge` takes apart;
`ImageBuild` publishes in one step, which `ImageStore` takes apart; the settings
that `ContainerLifecycle` leaves inside its steps are those of `InstanceConfig`,
which implements `InstanceMap`.

## Modules

| Module | Models | Proofs |
|---|---|---|
| `RemoteCommand` | the promise: a command runs at most once and is answered at most once | |
| `ControlBroker` | client, server, goroutines and child of each session; instantiates `RemoteCommand` | `ControlBrokerProofs` |
| `HostsMap` | the promise: a map from names to addresses | |
| `HostsFile` | the edits of `/etc/hosts`, system call by system call; instantiates `HostsMap` | `HostProofs` |
| `ImageStore` | publish, remove and run of images, request by request | `ImageStoreProofs` |
| `ContainerLifecycle` | container commands over instances, hosts lines and routes | `ContainerLifecycleProofs` |
| `Supervisor` | callers, supervisors, `incusd`, `lxcfs` and systemd | `SupervisorProofs` |
| `HostBridge` | the shim, one `ip` command or sysctl at a time | `HostProofs` |
| `InstanceMap` | the promise: a command changes one setting of the container as it is | |
| `InstanceConfig` | the commands that edit instances and networks under ETags; instantiates `InstanceMap` | `InstanceConfigProofs` |
| `ImageBuild` | one build, with the four parties of a copy between stages | `ImageBuildProofs` |
| `GuiHome` | the calls of the window that wait for a process | `GuiHomeProofs` |

`MC*` modules add instances and symmetry sets only. The operators named `Mut*`
are seeded faults, used by no specification: each is the definition after it as
a plausible bug would have it, and the property named in `PROJECT.json` must
then fail.

Several modules have a variable that is chosen in `Init` and never changes
(`regime` in `ControlBroker`, `ContainerLifecycle` and `InstanceConfig`, `shared`
in `HostsFile`, `managed` in `Supervisor`, `concurrent` and `override` in
`HostBridge`, `plan` in `ImageBuild`). It says which circumstances a behaviour is
about, so that one run covers all of them and a property can name those in which
the code keeps it.

### ControlBroker and RemoteCommand

One session is one connection. `handler` is the program counter of
`handleBockerControlConnection`; `forwarder` and `copier` are those of the
goroutines of `runBockerPipeCommand` or, in a regime with a terminal, of
`runBockerTerminalCommand`; `slots` are the tokens in `connections`; `wire` is
the socket's buffer towards the client, `pipe` and `stdin` those of the child.
`helper` is a descendant of the command that keeps its pipes open after it.
A write either fits, fails because the client is gone, or meets its deadline on
a full socket with part or none of the reply written (`SendTimesOut`).
Requests are abstracted to accepted (`StartCommand`) or not (`Refuse`, which
also stands for the request timeout and for a command that cannot be started).
The bytes of a chunk, the environment and the terminal's size are left out.
A descendant is taken to stay in the command's process group, which is what the
group kill reaches; one that leaves it by `setsid` is not modelled. That a
`write` needs the kernel to have seen the client's close is abstracted: `Leave`
empties the socket at once.

`RemoteCommand` knows of a session only its caller, its command and what was
written and shown. `Promise` instantiates it with `Caller`, which takes a client
that has connected, or left before its request went out, for one that has not
asked yet. So a command starts once, for a caller that asked and was not
answered; it is killed only when its caller left or was told of a failure, or
together with a reply that could not be delivered; what is shown had been
written; and a success is reported for a command that ended with zero, after all
its output, which nothing follows.

### HostsFile and HostsMap

A file is a set of lines and the one line that no newline ends. `Load` computes
the contents that replace those read, `WriteTemp` and `FlushTemp` stand for the
system calls on the temporary file, each of which may fail (`Fail`), `Rename`
and `SyncDir` for the last two. `PowerLoss` leaves the old or the new directory
entry unless the directory was synced, and nothing of a file that was not.
`AppendLine` is another program adding a line and a newline without the lock, in the
behaviours where the file is `shared`.
Mode, owner and the line order are left out. The mutex within the process and
the lock between processes are one lock here. Temporary files that a crash
leaves behind have unique names, are read by nobody and are left out.

`HostsMap` has one variable that a call changes at one name, and what a power
loss falls back to. `Promise` instantiates it with the address in the line of
each name; where others append, nothing is promised and the map stands still.

### ImageStore

`aliases` and `images` are Incus's; the other variables are one call's locals.
Every disjunct of an action is one outcome of the request: done, refused, or,
for a call in `Unreliable`, an error without effect or an effect whose answer is
lost. Incus compares ETags (`SwitchAlias` requires the target read) and deletes an
image's aliases with it (`DropImage`). A new image's fingerprint is new: a
publish of identical contents is refused by Incus before any alias is touched.
No bocker command gives an image a second alias; another Incus client that does
is not modelled.

### ContainerLifecycle

`pc` says which request or host change a command makes next, `snap`, `ip` and
`dom` what it read. Each action covers one request and every way it goes on, and
the regime's `failing` says which of them may fail; `Fail` goes to the rollback
that is in place at that point. `hosts` is changed atomically, as the theorem
`HostsImplementsMap` allows. Addresses appear by `Lease` and go with `Stopped`,
as Incus reports them. Assumed here: bridge mode has a wired parent interface,
IPv4 only, and a shim link that exists or can be made (all three are in
`HostBridge`); ports, mounts, autostart and the container's security settings are
requests that succeed or fail within the step they belong to (they are in
`InstanceConfig`). `born` numbers containers, so that one can be told from
another that later has its name.

### Supervisor

A caller is a command in `ensureEmbeddedDaemon`: it connects, installs binary
and unit or spawns a supervisor, waits, and creates the default pool and
profile. A supervisor is a `bocker __daemon` process: it extracts the runtime
under `.extract.lock` file by file, writes the configuration and then the marker
(`Extract`), takes `daemon.lock`, starts `lxcfs` and `incusd`, serves, and goes
down the ladder of API request, SIGTERM and SIGKILL (`Supervise`); deferred
functions run in their order (`unwind`). With `managed`, systemd starts, restarts
and stops the unit and ends what is left of its control group (`Reaper`,
`StartUnit`, `UnitEnds`). Any process may be killed and any step may fail,
`MaxFaults` times. `incusd` may boot, exit or hang as it likes: only SIGKILL is
sure to end it. A kill releases locks, as the kernel does. The second supervisor
that finds `daemon.lock` taken exits with success. `lxcfs` is not restarted when
it dies. Left out: a power loss that keeps the marker and not the files (which
are never synced), systemd's start limit, log rotation, capability detection.

### HostBridge

`AutoConfigureHostBridge` as a command executes it: list the containers, look at
the link, its parent and addresses, create or replace it, set the sysctls,
choose an address, add it, bring it up, set a route and a neighbour for each
container, and the IPv6 half in the same way; each `ip` command or sysctl write is
one step, and `undo` and `undo2` are the deferred rollback of each half. A command
that stops a container removes its route. `before` notes, for each call, how often the uplink
had moved when it began, and `reached` the containers a successful call made
reachable; a call during which the uplink moved is not counted (`Steady`).
`saved` are the settings the half at work has set and those of them that were set
before, which is what its rollback writes back (`Restored`). `legacy` is the name `bocker-br0`,
which older versions used for the shim and `ensureBridgeNetwork` now uses for a
managed network. Leases may hand out the shim's own address, the uplink may move.
Either commands overlap and nothing fails, stops or moves (`concurrent`), or they
run one after the other with failing steps: the code does not survive both at
once, see the hazards.

### InstanceConfig and InstanceMap

A command is a list of stages (`todo`, from `Plan`), each of which reads an
instance (`snap`) or a network (`seen`) with its ETag, computes the change and puts
it back; a put whose ETag is no longer current is refused and the command fails
(`updateInstance` does not retry). Starts, imports and mode changes are chains of
such stages.
Incus's ETag covers the configuration, which each start changes (`boots`), and
not the status. `InstanceMap` allows one setting of one container to change in
one step, the mounts only while it is stopped: that is, no edit is lost under
another and none is based on a container that has meanwhile been replaced.

### ImageBuild

`buildImage` runs the steps of a plan; `content[s]` is the set of effects a
stage's file system has, `Whole(s)` what it should have. The copy is four parties:
the call (`pc`), its goroutine (`goroutine`), `tar` in the source (`tar`) and the
script in the target (`target`), joined by a pipe with two closable ends and by
connections with a capacity. Requests fail, connections break, containers die and
the build is killed, `MaxFaults` times. `misread` records that the code took a
failed read for an answer (`test -d`, `/etc/environment`, output read before it
is complete): what follows is the code's behaviour, and no property claims
anything of it.

### GuiHome

One slot is one asynchronous call of `_BockerHomeState` that waits for a process.
`store[s]` is what bocker holds, as a version that each command moves on, and
`shown[s]` the version in the list. Refreshes drop their answers when the
generation has moved on or the section has changed; an answer that does not
parse is shown as an empty list. Loading disables some buttons only: the section
can be changed, Retry pressed where the list is still there under an error, and
an open menu or dialog answered. Cancelling, offered for commands and for the
loading of mounts, kills the processes that have started and do not already end,
and the daemon may still carry out their commands (`orphans`).

Output that cannot be decoded is thrown through every caller (`OutputThrows`):
the call is gone, nothing is listed, and the window stays as it was. Two history
variables, which no guard reads, record what the code then does not make good:
`stranded`, that the window was left busy so and nothing has been shown since,
and `unseen`, the sections that a command which failed half-way or was cancelled,
a call that died of its output or a list not parsed left without a current list.

## Runs

| Run | Instance | Distinct states | Shows |
|---|---|---|---|
| `broker` | one session on pipes (2 streams of 1 chunk, 2 chunks of input), or two on terminals for 1 token; socket and stdin hold 1 chunk | 291 000 | refinement of `RemoteCommand`, truthful and complete success; only abandoned commands are killed, and those end and give their token back unless the input goroutine or a descendant is stuck |
| `broker_stuck` (violation) | stdin of 1, 2 chunks typed | | a blocked input goroutine does not see the client leave |
| `hosts` | 3 calls on 1 name, 2 addresses, with and without another program's line | 76 000 | one line per container, calls take effect, administrator's lines survive, refinement of `HostsMap`, a waiting call ends |
| `images` | 3 publishes and 1 removal or run, one of each kind unreliable, 2 aliases, 4 images | 436 000 | aliases survive, no image is left without one |
| `lifecycle` | 5 commands in sequence on 2 containers; 4 with failing steps; 3 racing for one name | 546 000 | host state agrees with containers, a failed run leaves no started container, rollbacks delete only their own |
| `lifecycle_leftover` (violation) | the start within a launch fails | | the container stays |
| `supervisor` | 2 callers of two versions, 3 slots, 1 file, 1 fault, with and without systemd | 126 000 | one daemon, complete runtime, nothing left, newest version, calls and stops end, a crash is recovered |
| `hostbridge` | 2 commands, 2 containers (one with IPv6), 2 wired uplinks and 1 Wi-Fi, 5 addresses, 1 fault, 1 move | 3 107 000 | reachable stays reachable, rollback restores, ARP kept apart |
| `hostbridge_reach` (violation) | no fault, no move | | a lease of the shim's own address makes a container unreachable |
| `instances` | 2 commands at once, 4 in all, 2 names, 1 refusal; 7 regimes: ports, mounts, imports, four of networks | 474 000 | refinement of `InstanceMap`, mappings lead to the current address, one mount per target, unique MACs, prepared starts, imports configure their own, an operator's subnet replaced only by what a command was told |
| `build` | 4 plans of up to 3 stages, 3 chunks through connections of 1, 3 faults | 59 000 | only whole images, no container left, builds end |
| `gui` | 3 interchangeable calls at a time, 4 actions, settings of 2 commands | 3 615 000 | the window comes to show what is there and comes to rest, but for what a throw leaves |

Deadlock is checked for `HostsFile`, where a call is always possible. The other
models stop when their sessions, commands, actions or faults are used up, when
the build has ended, or (`HostBridge`) when all containers run and nothing may
stop, so their configurations say `CHECK_DEADLOCK FALSE`; that nobody waits for
ever is then a liveness property where it can go wrong (`TokenComesBack`,
`CallsEnd`, `StopEnds`, `BuildEnds`) and an invariant of the states at rest in
`GuiHome` (`IdleWindow`).

Why the bounds are enough: the properties relate at most two actors and the
state they share. Two sessions show the competition for a token; with a socket
and a stdin of one chunk, two chunks already fill them and block the writer
behind. Three hosts calls give a waiter, a holder and a crashed one. Two
publishes race for one alias and the third can reuse what they left; there is an
image for each publish and one that had an alias before. The longest story in the lifecycle needs
a run, a stop, a start and a removal, and two containers with two addresses let
an address move from one to the other. Two callers compete for each lock, while
three supervisor slots give one that serves, one that waits and one that was
killed; the second file of a runtime adds nothing, as the configuration and the
marker are further steps after the first. Two commands share the shim, each with
its own list of containers, and five addresses leave the shim a choice of two
beside host and router. Two actors on one instance show every lost update, and
four commands suffice for a start, a change, a stop and a start. Three chunks
pass through a pipe while one is in each connection, so that every party can be
blocked on the next. Three calls in the window are a command, a refresh and
another one that overtakes it.

What the violation runs find is written up under "findings" in `PROJECT.json`,
each with the sentence of the repository it contradicts.

Some properties name circumstances in which the code keeps them. Without the
premise, TLC finds a counterexample:

| Property | Premise | Story without it |
|---|---|---|
| `OneLinePerContainer`, `CallTookEffect` | the file is not `shared` | a line appended to bocker's unterminated line hides its mark; the next update adds a second line |
| `NoOrphans` | publishes or removals, not both | a removal deletes by name the alias a build has re-pointed since; the new image stays without one |
| `NoOrphans` | no failing request in a publish or in a removal that fails | the request that would delete the replaced image is the one that fails |
| `StopCleansHosts`, `HostAgrees` | one command at a time | a start or run that has read its address writes the line after a stop removed it |
| `HostAgrees` | no step fails | a stop that fails at the hosts line leaves the route, whose address its retry does not know; a failed run rolls back container and line but not its route |
| `FailedRunUndone` (the theorem) | neither the start nor a step of the rollback fails | a container that was created and not started stays (the finding of `lifecycle_leftover`), as does one that the rollback fails to delete |
| `RollbackOwn` | nobody removes | a rollback by name deletes the container somebody made anew under it |
| `OneDaemon` | systemd, or no kill of the supervisor | an orphaned `incusd` runs on while the next supervisor starts another |
| `NewestRuns` | no fault | a kill between the installation of a binary and the restart: the next command finds nothing changed |
| `Reachable` | the container's lease is not an address of the shim | the finding of `hostbridge_reach` |
| `Reachable` | the uplink stands still during the call that is counted | it moves away and back during a call: the IPv6 half replaces the link, and with it the IPv4 routes, by one on the other uplink, and the call reports success |
| `NoFlux` | nothing failed, or one step did and the uplink never moved | the rollback of a call that put its shim in the place of another uplink's, or that found the one an earlier call could not isolate, takes the isolation off a link that stays up with an address |
| `Reachable` | `concurrent` behaviours have no failing step | a failing command deletes the link, or restores the sysctls, under another |
| `ImportOwn` | nobody removes | a removal makes room for a name, and two listings mislead the import |
| `RunsPrepared` | nobody removes or nobody imports | between two stages of a start the container is removed, and an import puts one without policy or network in its place |
| `PublishedComplete` | nothing `misread` | a failed read counts as an answer |
| `ShownIsCurrent` | section not `unseen` | no refresh follows a command that failed half-way or was cancelled, nor one whose output the decoder throws on (`main.dart:2395`) though it exited with 0; a list that does not parse is shown as empty |
| `IdleWindow` | not `stranded` | a call that dies of its output does not reset the window: it stays busy with nothing under way until the section is changed |

## Fairness

`ControlBroker` assumes weak fairness of the server's own goroutines: the Go
scheduler runs what can run, and a blocked write returns by its 30 s deadline.
It assumes nothing of the client, the command or its descendants, so
`TokenComesBack` excepts a descendant that holds the output for ever, and with
`AbandonedCommandEnds` an input goroutine blocked for ever in a write to a
command that does not read.
`HostsFile` assumes weak fairness of a call's steps and strong fairness of
taking the lock: `flock` wakes waiters when the lock is free again and again.
`Supervisor` assumes weak fairness of callers and supervisors, whose waits are
all bounded by timers, of the kernel ending what SIGKILL was sent to and of
systemd doing its jobs; nothing of `incusd`, which may hang for ever.
`ImageBuild` assumes weak fairness of the call, of its goroutine, of the
connections and of the commands in the containers: the build bounds no command
in time, so a command that never ends keeps it for ever.
The other specifications assume no fairness.

## Proofs

All theorems hold for every value of the constants that the modules' named
assumptions allow. An invariant is proved as an inductive one that implies it,
one step per action; a refinement as a map of initial states and steps.

* `ControlBrokerProofs`. `TypeCorrect` by steps. `SuccessTruthful` needs more
  than itself: a final reply with code zero may still be on the wire, so
  `TruthInv` adds that such a reply is only there for a command that ended with
  zero, and that a command which has not been started has neither reply nor
  process (`Unstarted`); `ChildStable` shows that an exit code never changes,
  in particular not by a late kill. `AdmissionHolds` adds that the set of tokens
  is finite, so that adding one counts as one. `KillsAbandoned` goes through the
  places that kill a process group. `SuccessComplete` is an account, stream by
  stream: while no write has met its deadline and the client is there, what the
  command wrote is printed, on the wire or in the pipe (`Accounted`); a stream
  that is no longer copied has an empty pipe (`Drained`); and a final reply of
  success is the last one on the wire, sent when nothing is copied any more
  (`FinalLast`). So the client that reads it has printed everything.
  `BrokerImplementsRemoteCommand` takes these together with two more: who has
  not asked has no command and who waits to be served has no reply (`Asked`),
  and what was written covers what is printed, in flight and in the pipe, however
  writes fail (`Covered`). With them every step of the client is one of the
  caller (`ClientPromise`) and every step of the server one of the command
  (`ServerPromise`), or none.
* `HostProofs`, the file. `SystemLinesSurvive` needs that the lines are also in the
  durable file, in every temporary file about to be renamed, and that a renamed
  file has been flushed (`KeptInv`). `OneLine` and `TookEffect` speak of
  behaviours in which the file is not `shared`: `CleanInv` says of every file
  and copy that its lines are well formed with at most one per name, `LockInv`
  that only the holder of the lock is between reading and renaming, and that its
  copy is still an edit of the current file. Hence a rename is one `Put`, which
  gives `HostsImplementsMap`.
* `HostProofs`, the bridge. `StaysReachable` by `ReachInv`: a container that was
  made reachable stays so because most steps of a call only add to what the host
  has (`Grows`). Those that take something away - a rollback, a replaced link, a
  stop - happen only when one command runs alone, and then what they take is
  nothing a reached container needs (`Spares`). What a call will report is
  carried from place to place: what it has looked up still holds (`Knows`), the
  link is the one it made sure of (`Holds`), what it no longer has to do is
  routed (`Routes`), and in the second half the first is done (`HalfWay`).
  `NeverFlux` and `RollbackKeeps` by `RollInv`: the rollback of a call alone
  brings back the settings it found (`Recalls`), and a shim with an address that
  this leaves un-isolated is one the call made, which goes with the second step of
  the rollback (`Excused`): until something fails or the uplink moves, nobody but
  the call that made it can find a shim that is not isolated (`CalmInv`).
  TLC checked both invariants before they were proved.
* `ImageStoreProofs`. `AliasesSurvive` by `IInv`: a publisher's image is known to
  nobody else until its alias is set (`Fresh`), so no other command can set an
  alias to an image that a listing found without one, and what is being deleted
  has no alias (`Unreferenced`). `OrphansDeleted` by `OrphanInv`: an image without
  an alias is awaited by somebody, namely its publisher, a command that is about
  to delete it or a removal that has just taken its alias (`Awaited`); a removal
  without publishes beside it deletes the alias of the image it read (`Current`).
* `ContainerLifecycleProofs`. `RollbackDeletesOwn` by an invariant on containers'
  numbers: a command past its creation has made the container of that number,
  no two have made the same one, and in a regime without removals the name keeps
  it. Three more are about commands that do not overlap, which is what the
  properties claim. `CourseInv` says which places each command comes to and what
  it knows there. `StopsClean`: past the removal of its line a command alone
  cannot put it back (`Cleared`). `FailedRunUndone`: a failing run finds its
  container as it left it, and has deleted it when it gives up (`Undone`); its
  premise `Undoable` names the failing steps after which the code keeps the
  container. `HostAgreement`: `AgreeInv` says of every place what the one command
  under way still owes to hosts and routes; everything else already agrees.
* `SupervisorProofs`. `ExtractInv` ties lock, marker and files: who is between
  the lock and the marker holds the one and has not seen the other, and the
  marker implies all files and the whole configuration (`CompleteRuntime`).
  `ServiceInv` says who owns `daemon.lock`, where the supervisor of a live
  `incusd` is, and that under systemd only the main process has one
  (`SingleDaemon`). `LeavesInv` says of each place in `Supervise` and `unwind`
  what has not been started yet or is already gone (`NothingLeft`). `ConfigInv`:
  a command goes on to the profile only once there is a pool, so that a command
  which got its client found both or made them (`Configured`, a theorem about
  `ConfigReady`). `VersionInv`: whoever changed the unit file has yet to have it
  loaded, and whoever changed the executable has yet to restart a service that
  runs another one; a restart therefore always comes last (`NewestVersionRuns`).
* `ImageBuildProofs`. `StepInv` says where the build is, `LeftInv` that every
  container it has is noted for the deferred function (`ContainersGo`).
  `OnlyWhole` needs the copy: `StreamInv` conserves chunks - each one written is
  in a connection or unpacked, unless a party failed -, `CallInv` says that
  nothing of a copy outlives its call and which party the call may wait for, and
  `EffectInv` that the steps behind took effect; `PriorInv` and `ProbeInv` supply
  what it needs of the validation and of the probe for the destination.
* `InstanceConfigProofs`. `CourseInv` ties the stages a command still has to go
  through to what it knows by then: the container, the snapshot of an edit, the
  mode before it is needed. With it a step changes the instances in five ways
  only (`InstChange`), and a write that passes the ETag adds its one setting to
  those the container has (`WrittenShape`). From these follow `UniqueMACs` (every
  MAC written was free or the container's own), `OneMount` (which also carries
  the backup file) and `ImplementsMap`. `OwnContainer` needs `OwnInv`: while
  nobody removes, what an import listed stays, so that the container it made is
  among the new names, and if there is only one it is that. `SubnetKept` follows
  from the types alone: an update that passes the ETag starts from what is there.
  `CurrentPorts` by `PortInv`: Incus numbers its starts, a container keeps the
  address it gets until it stops, so what a command remembers of an address is
  still true of the start it read (`Recalled`), and the ETag lets a write pass
  only in that start (`SameBoots`). `PreparedRuns` by `PrepInv`: `Ahead` says what
  each stage of a command finds ready because of the stages before it - the
  policy at the soft edit, policy and network at the boot, the network it
  ensured at a creation or a write -, and that other commands' steps on the
  container leave it so or replace the container by one that is (`Onward`).
  `Orderly` is its premise: what ran at the beginning was prepared, and containers
  are removed or imported, not both.
* `GuiHomeProofs`. `BusyInv` names the call that will end what the window shows
  as under way, unless one that died has left it so (`NotLeftBusy`); `AnswerInv` says what the answer to the latest
  refresh is worth and `ShownInv` what the list is worth until it comes
  (`ShowsCurrent`).

The type invariants of these modules are therefore proved and not checked again
by the runs; TLC has checked them, and the strengthenings, before they were
proved.

Only model-checked: liveness (`AbandonedCommandEnds`, `TokenComesBack`,
`CallEnds`, `CallsEnd`, `StopEnds`, `Recovers`, `BuildEnds`), for which the prover
has no rules of fairness and ENABLED.
Every other property of a passing run is stated by a theorem; the theorem
carries the premise of the table above where the run's regimes supply it.

## Hazards no property covers

Beside those that `PROJECT.json` lists with a note:

* A write to the client that meets its deadline ends one stream; a command that
  has already exited with zero is then reported as a success with a truncated
  output. The code has no way of telling the client once the socket is full, and
  `SuccessIsComplete` leaves such sessions out.
* `kill(-pid)` in the moment after the command was reaped and before
  `processDone` is closed may meet a reused pid: pids are not modelled.
* A `Read` that ends within a multi-byte character makes two U+FFFD of it: the
  model counts chunks, not bytes.
* The client never closes its writing half, so the end of its stdin does not
  reach the command. No document promises that it does.
* An edit of `/etc/hosts` by another program between the read and the rename is
  lost, as it does not take bocker's lock.
* A container that powers itself off keeps its hosts line and its route until
  somebody stops or removes it; a reboot loses shim, routes and sysctls until
  the next command. Nothing in the code watches either.
* A listing that fails counts as no container (`cmd_hostnet.go:721`): the start
  succeeds without a route. `HostAgrees` is about steps that succeed.
* An isolation that fails leaves the link it created, since the rollback is
  registered after it (`cmd_hostnet.go:135`): `RollbackRestores` is about the
  rollback that is registered.
* The name `bocker-br0` is an old shim on one host and the managed network on
  another; an old shim blocks the creation of the network, with Incus's error.
* Containers of older versions may have two devices for one port, which a
  refresh makes equal and Incus refuses; `InstanceConfig` has one. The address of
  a running container may change after its refresh. Two runs may choose the same
  free host port: Incus refuses the second listener.
* A start reads the mode and `SetContainerNetwork` reads the instance again: a
  network chosen in between is reverted by one edit, which `InstanceMap` allows.
* An import that fails after its container was made leaves it; there is no
  rollback, and the next start applies policy and network (`RunsPrepared`).
* Two first commands create a network or the default pool at once: Incus refuses
  the second. Host routes may change between the check and the creation.
* A killed build leaves its stage containers, and a command in a container that
  never ends keeps the build: `NoContainerLeft` is about builds that end by
  themselves, `BuildEnds` about commands that end. What a build takes for an
  answer when a read fails is recorded by `misread`.
* SIGTERM before `signal.Notify` ends the supervisor at once, and without systemd
  its `incusd` stays: `OneDaemon` excepts it. Log lines between the copy of the
  tail and the truncation are lost.
* In the window a refresh that ends while a command runs enables the buttons
  again: a second command can be given, which the daemon serves. The output of a
  command is replaced by the JSON of the refresh after it. The settings dialog
  compares with the container as it was when it was opened; its commands change
  single settings.

## Not modelled, and why

* Incusfile: parsing and the resolution of arguments are sequential functions of
  one text with no state that anything shares; the unit tests reach them. Their
  result is the plan of `ImageBuild`.
* Container commands without host effects (`exec`, `shell`, `cp`, listings,
  resources), menus, dispatch and name validation: single requests or formatting.
* Packaging, completions, the embedded Incus binaries and log rotation.
* The embedded Incus itself: it is represented by what its API guarantees (one
  object changes at a time, ETags, names are unique, an image goes with its
  aliases), marked external in the map.
* In the modelled parts: credentials, environment and terminal size of a session;
  the detection of capabilities by the supervisor; host paths of mounts; the
  widgets and input checks of the GUI, and what its JSON says; IPv6 addresses in the lifecycle
  (they are in `HostBridge`).

## What is left

`RemoteCommand` promises nothing of progress: that a request which is not
abandoned is answered in the end would be its liveness, and needs the command to
end. A pair of devices for one port, a reboot of the host and the resolution of
build arguments would extend `InstanceConfig`, `HostBridge` and `ImageBuild`.
