----------------------------- MODULE Supervisor -----------------------------
(***************************************************************************)
(* The supervisor of the embedded Incus daemon                             *)
(* (src/internal/bocker/embedded_daemon_linux.go): commands that need the  *)
(* daemon and bring it up, the extraction of the embedded runtime, the     *)
(* long-lived `bocker __daemon` process that owns incusd and lxcfs, and    *)
(* the systemd unit that keeps it running where there is a systemd.        *)
(*                                                                         *)
(* A supervisor's slot is used again once it has ended and nothing of it   *)
(* is left (a pid file it left names nobody then).  incusd, systemd and    *)
(* the kernel are outside src/: incusd may boot, exit or hang as it likes  *)
(* and only SIGKILL is sure to end it.                                     *)
(***************************************************************************)
EXTENDS Naturals, FiniteSets

CONSTANTS
  Callers,      \* commands that call ensureEmbeddedDaemon
  Supervisors,  \* slots for `bocker __daemon` processes
  NumFiles,     \* files of the embedded archive, in the archive's order
  Executable,   \* per caller, the versions of its bocker: of the executable,
                \* "bin", and of the unit file it would write, "unit"
  MaxFaults,    \* bound on failing steps, killed processes and crashes
  None

Versions == UNION {{Executable[c]["bin"], Executable[c]["unit"]} : c \in Callers}

ASSUME SupervisorAssumption ==
  /\ Callers \cap Supervisors = {}
  /\ NumFiles \in Nat /\ MaxFaults \in Nat
  /\ None \notin Callers \cup Supervisors \cup Versions
  /\ DOMAIN Executable = Callers

Procs == Callers \cup Supervisors
Files == 1 .. NumFiles

VARIABLES
  managed,    \* systemd runs this host; fixed when the behaviour begins
  marker,     \* runtime/<id>/.ready exists
  files,      \* files of the archive in place
  config,     \* 00-lxcfs.conf: "none", "cut" (truncated) or "whole"
  xlock,      \* who holds runtime/.extract.lock
  pc,         \* where each process is
  unpacked,   \* how many files this process has extracted
  dlock,      \* who holds daemon.lock
  incusd,     \* per supervisor: "none" "booting" "up" "clean" "failed"
  condemned,  \* supervisors whose incusd was sent SIGKILL
  lxcfs,      \* supervisors whose lxcfs runs
  pidfile,    \* whose incusd daemon.pid names
  outcome,    \* what runEmbeddedDaemonSupervisor is about to return
  unit,       \* bocker.service: "inactive" "active" "stopping"
  main,       \* its main process
  job,        \* systemd has a start of the unit to do
  installed,  \* version of bin/bocker-daemon and of the unit file on disk
  loaded,     \* version of the unit file systemd has loaded
  version,    \* per supervisor, the executable it runs
  changed,    \* per caller, what writeFileIfChanged reported
  storage,    \* what incusd's database has of "pool" and "profile"
  faults

disk == <<marker, files, config>>
service == <<dlock, incusd, condemned, lxcfs, pidfile, outcome>>
systemd == <<unit, main, job, installed, loaded>>
vars == <<managed, disk, xlock, pc, unpacked, service, systemd, version,
          changed, storage, faults>>

Alive == {"booting", "up"}
Ended == {"ok", "error", "killed"}
Extracting == {"stat", "flock", "unpack", "config", "config2", "mark"}
\* The steps of a supervisor that holds daemon.lock.
Owning == {"lxcfs", "start", "control", "pid", "serve", "drain", "term",
           "kill", "stop", "unwind", "release"}
Running == Extracting \cup {"guard"} \cup Owning
Calling == {"connect", "binary", "unit", "reload", "active",
            "restart", "enable", "started", "again", "spawn", "wait", "pool",
            "create", "profile", "update"}

Goto(p, l) == pc' = [pc EXCEPT ![p] = l]
Move(p, from, to) == pc[p] = from /\ Goto(p, to)
Fault == faults < MaxFaults /\ faults' = faults + 1
Serving == \E s \in Supervisors : incusd[s] = "up"

TypeOK ==
  /\ managed \in BOOLEAN /\ marker \in BOOLEAN /\ files \subseteq Files
  /\ config \in {"none", "cut", "whole"}
  /\ xlock \in Procs \cup {None} /\ dlock \in Supervisors \cup {None}
  /\ pc \in [Procs -> Running \cup Calling \cup Ended
                        \cup {"off", "done", "failed"}]
  /\ unpacked \in [Procs -> 0 .. NumFiles]
  /\ incusd \in [Supervisors -> Alive \cup {"none", "clean", "failed"}]
  /\ condemned \subseteq Supervisors /\ lxcfs \subseteq Supervisors
  /\ pidfile \in Supervisors \cup {None}
  /\ outcome \in [Supervisors -> {"ok", "error"}]
  /\ unit \in {"inactive", "active", "stopping"}
  /\ main \in Supervisors \cup {None} /\ job \in BOOLEAN
  /\ installed \in [{"bin", "unit"} -> Versions \cup {None}]
  /\ loaded \in Versions \cup {None}
  /\ version \in [Supervisors -> Versions \cup {None}]
  /\ changed \in [Callers -> SUBSET {"bin", "unit"}]
  /\ storage \subseteq {"pool", "profile"}
  /\ faults \in 0 .. MaxFaults

Init ==
  /\ managed \in BOOLEAN
  /\ marker = FALSE /\ files = {} /\ config = "none"
  /\ xlock = None /\ dlock = None /\ pidfile = None
  /\ pc = [p \in Procs |-> IF p \in Callers THEN "connect" ELSE "off"]
  /\ unpacked = [p \in Procs |-> 0]
  /\ incusd = [s \in Supervisors |-> "none"]
  /\ condemned = {} /\ lxcfs = {}
  /\ outcome = [s \in Supervisors |-> "ok"]
  /\ unit = "inactive" /\ main = None /\ job = FALSE
  /\ installed = [f \in {"bin", "unit"} |-> None] /\ loaded = None
  /\ version = [s \in Supervisors |-> None]
  /\ changed = [c \in Callers |-> {}]
  /\ storage = {} /\ faults = 0

---------------------------------------------------------------------------
(* extractEmbeddedRuntime, run by supervisors and by callers that spawn    *)

Extracted(p) == IF p \in Callers THEN "spawn" ELSE "guard"

FindMarker(p) ==
  /\ Move(p, "stat", IF marker THEN Extracted(p) ELSE "flock")
  /\ UNCHANGED <<managed, disk, xlock, unpacked, service, systemd, version,
                 changed, storage, faults>>

\* Mutant: without the second look at the marker.
MutLockRuntime(p) ==
  /\ xlock = None
  /\ Move(p, "flock", "unpack") /\ xlock' = p
  /\ UNCHANGED <<managed, disk, unpacked, service, systemd, version, changed,
                 storage, faults>>

\* Another process may have done the whole work while this one waited.
LockRuntime(p) ==
  /\ xlock = None
  /\ IF marker THEN Move(p, "flock", Extracted(p)) /\ UNCHANGED xlock
               ELSE Move(p, "flock", "unpack") /\ xlock' = p
  /\ UNCHANGED <<managed, disk, unpacked, service, systemd, version, changed,
                 storage, faults>>

\* Each file is written aside and renamed into place.
Unpack(p) ==
  /\ pc[p] = "unpack"
  /\ IF unpacked[p] < NumFiles
       THEN /\ unpacked' = [unpacked EXCEPT ![p] = @ + 1]
            /\ files' = files \cup {unpacked[p] + 1}
            /\ UNCHANGED pc
       ELSE /\ Goto(p, "config")
            /\ unpacked' = [unpacked EXCEPT ![p] = 0]
            /\ UNCHANGED files
  /\ UNCHANGED <<managed, marker, config, xlock, service, systemd, version,
                 changed, storage, faults>>

\* os.WriteFile truncates the configuration before it writes it.
WriteLXCFSConfig(p) ==
  /\ \/ Move(p, "config", "config2") /\ config' = "cut"
     \/ Move(p, "config2", "mark") /\ config' = "whole"
  /\ UNCHANGED <<managed, marker, files, xlock, unpacked, service, systemd,
                 version, changed, storage, faults>>

\* The deferred unlock follows at once.
WriteMarker(p) ==
  /\ Move(p, "mark", Extracted(p))
  /\ marker' = TRUE
  /\ xlock' = None
  /\ UNCHANGED <<managed, files, config, unpacked, service, systemd, version,
                 changed, storage, faults>>

\* Any step of the extraction may fail; a marker that could not be written
\* may have been created.
ExtractFails(p) ==
  /\ pc[p] \in Extracting
  /\ Fault
  /\ Goto(p, IF p \in Callers THEN "failed" ELSE "error")
  /\ xlock' = IF xlock = p THEN None ELSE xlock
  /\ \/ UNCHANGED marker
     \/ pc[p] = "mark" /\ marker' = TRUE
  /\ unpacked' = [unpacked EXCEPT ![p] = 0]
  /\ UNCHANGED <<managed, files, config, service, systemd, version,
                 changed, storage>>

Extract(p) ==
  \/ FindMarker(p) \/ LockRuntime(p) \/ Unpack(p) \/ WriteLXCFSConfig(p)
  \/ WriteMarker(p)

---------------------------------------------------------------------------
(* runEmbeddedDaemonSupervisor                                             *)

untouched == <<managed, disk, xlock, unpacked, systemd, version, changed,
               storage>>

\* Mutant: the lock's EWOULDBLOCK is not looked at.
MutTakeDaemonLock(s) ==
  /\ Move(s, "guard", "lxcfs")
  /\ dlock' = s
  /\ UNCHANGED <<untouched, incusd, condemned, lxcfs, pidfile, outcome, faults>>

\* A second supervisor finds the lock taken and reports success.
TakeDaemonLock(s) ==
  /\ pc[s] = "guard"
  /\ \/ dlock = None /\ dlock' = s /\ Goto(s, "lxcfs") /\ UNCHANGED faults
     \/ dlock # None /\ Goto(s, "ok") /\ UNCHANGED <<dlock, faults>>
     \/ Fault /\ Goto(s, "error") /\ UNCHANGED dlock
  /\ UNCHANGED <<untouched, incusd, condemned, lxcfs, pidfile, outcome>>

\* Nothing depends on lxcfs; a host that cannot start it has nothing to stop.
StartLXCFS(s) ==
  /\ Move(s, "lxcfs", "start")
  /\ lxcfs' = lxcfs \cup {s}
  /\ UNCHANGED <<untouched, dlock, incusd, condemned, pidfile, outcome, faults>>

\* A step that fails sends the supervisor to label l with an error.
Abort(s, l) ==
  /\ Fault
  /\ Goto(s, l)
  /\ outcome' = [outcome EXCEPT ![s] = "error"]

StartIncusd(s) ==
  /\ pc[s] = "start"
  /\ \/ /\ Goto(s, "control")
        /\ incusd' = [incusd EXCEPT ![s] = "booting"]
        /\ UNCHANGED <<outcome, faults>>
     \/ Abort(s, "unwind") /\ UNCHANGED incusd
  /\ UNCHANGED <<untouched, dlock, condemned, lxcfs, pidfile>>

\* Mutant: without stopProcess when the control socket cannot be opened.
MutStartControl(s) ==
  /\ pc[s] = "control"
  /\ \/ Goto(s, "pid") /\ UNCHANGED <<outcome, faults>>
     \/ Abort(s, "unwind")
  /\ UNCHANGED <<untouched, dlock, incusd, condemned, lxcfs, pidfile>>

StartControl(s) ==
  /\ pc[s] = "control"
  /\ \/ Goto(s, "pid") /\ UNCHANGED <<outcome, faults>>
     \/ Abort(s, "stop")
  /\ UNCHANGED <<untouched, dlock, incusd, condemned, lxcfs, pidfile>>

\* From here signals reach the supervisor; before, they end it.
WritePid(s) ==
  /\ pc[s] = "pid"
  /\ \/ Goto(s, "serve") /\ pidfile' = s /\ UNCHANGED <<outcome, faults>>
     \/ Abort(s, "stop") /\ UNCHANGED pidfile
  /\ UNCHANGED <<untouched, dlock, incusd, condemned, lxcfs>>

\* stopProcess: two seconds for SIGTERM, since a child that was not waited
\* for answers signal 0, then SIGKILL.
StopProcess(s) ==
  /\ Move(s, "stop", "unwind")
  /\ condemned' = condemned \cup {s}
  /\ UNCHANGED <<untouched, dlock, incusd, lxcfs, pidfile, outcome, faults>>

\* Mutant: any exit of incusd is reported as success.
MutReapIncusd(s) ==
  /\ pc[s] \in {"serve", "drain", "term", "kill"}
  /\ incusd[s] \in {"clean", "failed"}
  /\ Goto(s, "unwind")
  /\ UNCHANGED <<untouched, dlock, incusd, condemned, lxcfs, pidfile, outcome,
                 faults>>

\* normalizeDaemonExit: exit status 0 and a clean signal are no error.
ReapIncusd(s) ==
  /\ pc[s] \in {"serve", "drain", "term", "kill"}
  /\ incusd[s] \in {"clean", "failed"}
  /\ Goto(s, "unwind")
  /\ outcome' = [outcome EXCEPT ![s] =
                   IF incusd[s] = "clean" THEN "ok" ELSE "error"]
  /\ UNCHANGED <<untouched, dlock, incusd, condemned, lxcfs, pidfile, faults>>

\* Mutant: the graceful shutdown is waited for without a deadline.
MutStopTimesOut(s) ==
  /\ incusd[s] \in Alive
  /\ Move(s, "term", "kill")
  /\ condemned' = condemned \cup {s}
  /\ UNCHANGED <<untouched, dlock, incusd, lxcfs, pidfile, outcome, faults>>

\* daemonGracefulStop, daemonTermStop and daemonKillWait: what happens when
\* incusd has not ended in time.
StopTimesOut(s) ==
  /\ incusd[s] \in Alive
  /\ \/ Move(s, "drain", "term") /\ UNCHANGED <<condemned, outcome>>
     \/ /\ Move(s, "term", "kill")
        /\ condemned' = condemned \cup {s}
        /\ UNCHANGED outcome
     \/ /\ Move(s, "kill", "unwind")
        /\ outcome' = [outcome EXCEPT ![s] = "error"]
        /\ UNCHANGED condemned
  /\ UNCHANGED <<untouched, dlock, incusd, lxcfs, pidfile, faults>>

\* The deferred calls, last registered first.
Unwind(s) ==
  /\ Move(s, "unwind", "release")
  /\ pidfile' = IF pidfile = s THEN None ELSE pidfile
  /\ UNCHANGED <<untouched, dlock, incusd, condemned, lxcfs, outcome, faults>>

Release(s) ==
  /\ Move(s, "release", outcome[s])
  /\ lxcfs' = lxcfs \ {s}
  /\ dlock' = None
  /\ UNCHANGED <<untouched, incusd, condemned, pidfile, outcome, faults>>

Supervise(s) ==
  \/ TakeDaemonLock(s) \/ StartLXCFS(s) \/ StartIncusd(s) \/ StartControl(s)
  \/ WritePid(s) \/ StopProcess(s) \/ ReapIncusd(s) \/ StopTimesOut(s)
  \/ Unwind(s) \/ Release(s)

---------------------------------------------------------------------------
(* incusd, and processes that are killed                                   *)

Boot(s) ==
  /\ incusd[s] = "booting"
  /\ incusd' = [incusd EXCEPT ![s] = "up"]
  /\ UNCHANGED <<untouched, pc, dlock, condemned, lxcfs, pidfile, outcome, faults>>

\* incusd crashes, or ends because it was asked to.
Exit(s) ==
  /\ incusd[s] \in Alive
  /\ \/ /\ incusd' = [incusd EXCEPT ![s] = "failed"] /\ Fault
     \/ /\ pc[s] \in {"drain", "term", "kill", "stop"}
        /\ incusd' = [incusd EXCEPT ![s] = "clean"] /\ UNCHANGED faults
  /\ UNCHANGED <<untouched, pc, dlock, condemned, lxcfs, pidfile, outcome>>

Reaper(s) ==
  /\ s \in condemned /\ incusd[s] \in Alive
  /\ incusd' = [incusd EXCEPT ![s] = "failed"]
  /\ UNCHANGED <<untouched, pc, dlock, condemned, lxcfs, pidfile, outcome, faults>>

\* p ends where it stands: the kernel drops its locks, incusd and lxcfs are
\* in process groups of their own and go on.
Killed(p) ==
  /\ pc[p] \in IF p \in Callers THEN Calling \cup Extracting
                                ELSE Running
  /\ Fault
  /\ Goto(p, "killed")
  /\ xlock' = IF xlock = p THEN None ELSE xlock
  /\ dlock' = IF dlock = p THEN None ELSE dlock
  /\ unpacked' = [unpacked EXCEPT ![p] = 0]
  /\ UNCHANGED <<managed, disk, incusd, condemned, lxcfs, pidfile,
                 outcome, systemd, version, changed, storage>>

\* SIGTERM begins the ladder of a supervisor that listens for it, and is the
\* end of one that does not.
Listening == {"serve", "drain", "term", "kill"}
AfterTerm(s) == IF pc[s] = "serve" THEN "drain"
                ELSE IF pc[s] \in Running \ Listening THEN "killed" ELSE pc[s]
Held(lock, s) == IF lock = s /\ AfterTerm(s) = "killed" THEN None ELSE lock

\* Without systemd somebody may send it; see Killed for one that does not
\* listen.
Signalled(s) ==
  /\ ~managed
  /\ pc[s] = "serve"
  /\ Fault
  /\ Goto(s, AfterTerm(s))
  /\ UNCHANGED <<untouched, dlock, incusd, condemned, lxcfs, pidfile, outcome>>

---------------------------------------------------------------------------
(* systemd: Type=simple, Restart=on-failure, KillMode=mixed                *)

\* A new supervisor begins in a slot, the slots being alike, with the
\* executable v.
Free(s) == pc[s] \in {"off"} \cup Ended /\ incusd[s] \notin Alive /\ s \notin lxcfs
Begin(s, v) ==
  /\ \E t \in Supervisors : Free(t)
  /\ s = CHOOSE t \in Supervisors : Free(t)
  /\ outcome' = [outcome EXCEPT ![s] = "ok"]
  /\ pidfile' = IF pidfile = s THEN None ELSE pidfile
  /\ unpacked' = [unpacked EXCEPT ![s] = 0]
  /\ incusd' = [incusd EXCEPT ![s] = "none"]
  /\ condemned' = condemned \ {s}
  /\ version' = [version EXCEPT ![s] = v]

StartUnit(s) ==
  /\ job /\ unit = "inactive"
  /\ Begin(s, installed["bin"]) /\ Goto(s, "stat")
  /\ unit' = "active" /\ main' = s /\ job' = FALSE
  /\ UNCHANGED <<managed, disk, xlock, dlock, lxcfs, installed, loaded, changed,
                 storage, faults>>

\* The main process has ended: what is left of the cgroup is killed, and
\* the unit starts again after a failure.
UnitEnds ==
  /\ unit # "inactive" /\ pc[main] \in Ended
  /\ incusd' = [incusd EXCEPT ![main] = IF @ \in Alive THEN "failed" ELSE @]
  /\ lxcfs' = lxcfs \ {main}
  /\ unit' = "inactive" /\ main' = None
  /\ job' = (job \/ (unit = "active" /\ pc[main] # "ok"))
  /\ UNCHANGED <<managed, disk, xlock, pc, unpacked, dlock, condemned, pidfile,
                 outcome, installed, loaded, version, changed, storage, faults>>

---------------------------------------------------------------------------
(* ensureEmbeddedDaemonOnce, the commands' way to the daemon               *)

away == <<managed, disk, xlock, unpacked, service, version>>

\* The first look, then ensureHostSetfattr and, if /run/systemd/system
\* exists, the service.
Connect(c) ==
  /\ \/ /\ Move(c, "connect", IF Serving THEN "pool"
                              ELSE IF managed THEN "binary" ELSE "again")
        /\ UNCHANGED faults
     \/ ~Serving /\ Move(c, "connect", "failed") /\ Fault
  /\ UNCHANGED <<away, systemd, changed, storage>>

\* The second look, before anything is spawned.
ConnectAgain(c) ==
  /\ Move(c, "again", IF Serving THEN "pool" ELSE IF managed THEN "wait" ELSE "stat")
  /\ UNCHANGED <<away, systemd, changed, storage, faults>>

\* writeFileIfChanged, for the executable and then for the unit file.
Install(c, file, from, to) ==
  /\ Move(c, from, to)
  /\ installed' = [installed EXCEPT ![file] = Executable[c][file]]
  /\ changed' = [changed EXCEPT ![c] =
                   IF installed[file] = Executable[c][file] THEN @ ELSE @ \cup {file}]
  /\ UNCHANGED <<away, unit, main, job, loaded, storage, faults>>

Reload(c) ==
  /\ pc[c] = "reload"
  /\ IF "unit" \notin changed[c]
       THEN Goto(c, "active") /\ UNCHANGED <<loaded, faults>>
       ELSE \/ Goto(c, "active") /\ loaded' = installed["unit"] /\ UNCHANGED faults
            \/ Goto(c, "failed") /\ Fault /\ UNCHANGED loaded
  /\ UNCHANGED <<away, unit, main, job, installed, changed, storage>>

\* Mutant: only a new unit file restarts the service.
MutIsActive(c) ==
  /\ pc[c] = "active"
  /\ Goto(c, IF unit # "active" THEN "enable"
             ELSE IF "unit" \in changed[c] THEN "restart" ELSE "again")
  /\ UNCHANGED <<away, systemd, changed, storage, faults>>

IsActive(c) ==
  /\ pc[c] = "active"
  /\ Goto(c, IF unit # "active" THEN "enable"
             ELSE IF changed[c] # {} THEN "restart" ELSE "again")
  /\ UNCHANGED <<away, systemd, changed, storage, faults>>

\* systemctl restart: stops the main process and queues a start.
Restart(c) ==
  /\ pc[c] = "restart"
  /\ \/ /\ unit = "active"
        /\ unit' = "stopping" /\ job' = TRUE
        /\ pc' = [pc EXCEPT ![c] = "started", ![main] = AfterTerm(main)]
        /\ xlock' = Held(xlock, main) /\ dlock' = Held(dlock, main)
        /\ UNCHANGED faults
     \/ /\ unit # "active"
        /\ Goto(c, "started") /\ job' = TRUE
        /\ UNCHANGED <<unit, xlock, dlock, faults>>
     \/ /\ Goto(c, "failed") /\ Fault
        /\ UNCHANGED <<job, unit, xlock, dlock>>
  /\ UNCHANGED <<managed, disk, unpacked, incusd, condemned, lxcfs, pidfile,
                 outcome, version, main, installed, loaded, changed, storage>>

\* systemctl enable --now.
Enable(c) ==
  /\ \/ /\ Move(c, "enable", "started")
        /\ job' = (job \/ unit # "active") /\ UNCHANGED faults
     \/ Move(c, "enable", "failed") /\ Fault /\ UNCHANGED job
  /\ UNCHANGED <<away, unit, main, installed, loaded, changed, storage>>

\* systemctl returns when its job is done.
Started(c) ==
  /\ ~job
  /\ Move(c, "started", "again")
  /\ UNCHANGED <<away, systemd, changed, storage, faults>>

\* spawnEmbeddedSupervisor.
Spawn(c) ==
  /\ \/ /\ pc[c] = "spawn"
        /\ \E s \in Supervisors :
             /\ Begin(s, Executable[c]["bin"])
             /\ pc' = [pc EXCEPT ![c] = "wait", ![s] = "stat"]
        /\ UNCHANGED faults
     \/ /\ Move(c, "spawn", "failed") /\ Fault
        /\ UNCHANGED <<unpacked, incusd, condemned, outcome, pidfile, version>>
  /\ UNCHANGED <<managed, disk, xlock, dlock, lxcfs, systemd, changed, storage>>

\* Mutant: without a deadline.
MutWait(c) ==
  /\ Serving /\ Move(c, "wait", "pool")
  /\ UNCHANGED <<away, systemd, changed, storage, faults>>

\* waitForEmbeddedServer polls until its deadline.
Wait(c) ==
  /\ \/ Serving /\ Move(c, "wait", "pool")
     \/ Move(c, "wait", "failed")
  /\ UNCHANGED <<away, systemd, changed, storage, faults>>

\* ensureDefaultIncusConfig reads before each change; incusd refuses a
\* second pool, and a profile whose etag is no longer the one read.
DefaultConfig(c) ==
  /\ \/ /\ Move(c, "pool", IF "pool" \in storage THEN "profile" ELSE "create")
        /\ UNCHANGED storage
     \/ /\ Move(c, "create", IF "pool" \in storage THEN "failed" ELSE "profile")
        /\ storage' = storage \cup {"pool"}
     \/ /\ Move(c, "profile", IF "profile" \in storage THEN "done" ELSE "update")
        /\ UNCHANGED storage
     \/ /\ Move(c, "update", IF "profile" \in storage THEN "failed" ELSE "done")
        /\ storage' = storage \cup {"profile"}
  /\ Serving
  /\ UNCHANGED <<away, systemd, changed, faults>>

\* The daemon has gone away in between.
ConfigFails(c) ==
  /\ pc[c] \in {"pool", "create", "profile", "update"} /\ ~Serving
  /\ Goto(c, "failed")
  /\ UNCHANGED <<away, systemd, changed, storage, faults>>

Call(c) ==
  \/ Connect(c) \/ ConnectAgain(c)
  \/ Install(c, "bin", "binary", "unit") \/ Install(c, "unit", "unit", "reload")
  \/ Reload(c) \/ IsActive(c) \/ Restart(c) \/ Enable(c) \/ Started(c)
  \/ Spawn(c) \/ Wait(c) \/ DefaultConfig(c) \/ ConfigFails(c)

---------------------------------------------------------------------------
Next ==
  \/ \E p \in Procs : Extract(p) \/ ExtractFails(p) \/ Killed(p)
  \/ \E s \in Supervisors : \/ Supervise(s) \/ Boot(s) \/ Exit(s) \/ Reaper(s)
                            \/ Signalled(s) \/ StartUnit(s)
  \/ UnitEnds
  \/ \E c \in Callers : Call(c)

Spec == Init /\ [][Next]_vars

\* Processes run, the kernel ends what SIGKILL was sent to, and systemd does
\* its jobs.  Nothing is asked of incusd.
Fairness ==
  /\ \A s \in Supervisors : WF_vars(Extract(s) \/ Supervise(s))
  /\ \A c \in Callers : WF_vars(Extract(c) \/ Call(c))
  /\ WF_vars(\E s \in Supervisors : Reaper(s) \/ StartUnit(s)) /\ WF_vars(UnitEnds)

FairSpec == Spec /\ Fairness

---------------------------------------------------------------------------
(* An incusd only ever runs on a runtime of which every file and the lxcfs *)
(* configuration are in place, whoever extracted them, and whoever failed  *)
(* or was killed while extracting (.ready is written last, under the lock  *)
(* and after a second look).                                               *)
RunsComplete ==
  \A s \in Supervisors : incusd[s] \in Alive => files = Files /\ config = "whole"

(* daemon.lock keeps two incusd from running side by side, also through    *)
(* restarts and upgrades, except for one whose supervisor was killed on a  *)
(* host without systemd, and one that SIGKILL is about to end.             *)
OneDaemon ==
  \A s, t \in Supervisors :
    (incusd[s] \in Alive /\ incusd[t] \in Alive /\ s # t
       /\ {s, t} \cap condemned = {})
    => ~managed /\ "killed" \in {pc[s], pc[t]}

(* A supervisor that ends by itself, whichever step failed and however     *)
(* incusd took its request to stop, leaves no lxcfs, no pid file and no    *)
(* incusd that was not sent SIGKILL; if it reports success, no incusd.     *)
LeavesNothing ==
  \A s \in Supervisors : pc[s] \in {"ok", "error"} =>
    /\ s \notin lxcfs /\ pidfile # s /\ dlock # s
    /\ incusd[s] \in Alive => pc[s] = "error" /\ s \in condemned

(* When callers with different versions of bocker have installed and restarted    *)
(* the service in whatever order, and no step failed, systemd has loaded   *)
(* the unit file on disk and runs the executable on disk.                  *)
NewestRuns ==
  (/\ managed /\ faults = 0 /\ unit = "active"
   /\ \A c \in Callers : pc[c] \notin {"unit", "reload", "active", "restart",
                                       "enable", "started"})
  => version[main] = installed["bin"] /\ loaded = installed["unit"]

(* A command that got its client found the default pool and the default    *)
(* profile's root disk there, or made them, also when several first        *)
(* commands initialise one incusd at a time.                               *)
ConfigReady == \A c \in Callers : pc[c] = "done" => storage = {"pool", "profile"}

(* Whatever incusd does with its request to shut down, and whoever holds   *)
(* which lock, a command that needs the daemon ends.                       *)
CallsEnd ==
  \A c \in Callers : pc[c] = "connect" ~> pc[c] \in {"done", "failed", "killed"}

(* A supervisor that was told to stop ends, even if incusd ignores the     *)
(* request, the signal, or both (the ladder of 20, 5 and 2 seconds).       *)
StopEnds == \A s \in Supervisors : pc[s] = "drain" ~> pc[s] \in Ended

(* Under systemd an incusd that crashed while it served is followed by     *)
(* another one, unless the unit is being stopped.                          *)
Recovers ==
  (managed /\ \E s \in Supervisors : pc[s] = "serve" /\ incusd[s] = "failed")
    ~> \E s \in Supervisors : incusd[s] \in Alive
=============================================================================
