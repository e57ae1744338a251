------------------------------ MODULE HostsFile ------------------------------
(***************************************************************************)
(* /etc/hosts and the commands that edit it (internal/bocker/cmd_hosts.go):*)
(* updateHosts and removeHostsLine read the file, drop the lines marked    *)
(* with the container's name, write a temporary file and rename it over    *)
(* the file, all under an exclusive flock.  Any of them may fail or be     *)
(* killed between two system calls, and the host may lose power.           *)
(*                                                                         *)
(* A file is the set of its lines and its open line: the last one, when no *)
(* newline ends it.  The order of the other lines is abstracted.           *)
(***************************************************************************)
EXTENDS FiniteSets

CONSTANTS
  Actors,          \* calls in progress, each in a process or goroutine of its own
  Names,           \* container names
  Addrs,           \* IPv4 addresses
  SystemLines,     \* lines of the file that are not bocker's
  AppendedLines,   \* lines another program appends to it with >>
  NoActor, NoName, NoAddr, NoText

ASSUME HostsAssumption ==
  /\ NoActor \notin Actors
  /\ NoName \notin Names
  /\ NoAddr \notin Addrs
  /\ NoText \notin SystemLines \cup AppendedLines
  /\ SystemLines \cap AppendedLines = {}

VARIABLES
  file,      \* the contents of /etc/hosts
  durable,   \* the contents a power loss is sure to leave
  flushed,   \* the data of the current contents is on disk
  lock,      \* holder of .hosts.bocker.lock
  pc, op,    \* where each call stands, and what it is to do
  temp,      \* the contents of each call's temporary file
  shared     \* other programs append to the file in this behaviour

vars == <<file, durable, flushed, lock, pc, op, temp, shared>>

\* A line "ip domain # bocker:name" written by bocker, a line of the system, or
\* a system line appended to an open bocker line: the latter still resolves.
Line == [owner : Names \cup {NoName}, addr : Addrs \cup {NoAddr},
         text : SystemLines \cup AppendedLines \cup {NoText}]
Entry(n, x) == [owner |-> n, addr |-> x, text |-> NoText]
System(t)   == [owner |-> NoName, addr |-> NoAddr, text |-> t]
NoLine      == System(NoText)

File  == [lines : SUBSET Line, open : Line]
Empty == [lines |-> {}, open |-> NoLine]

OwnLine(line) == line.owner # NoName /\ line.text = NoText

\* strings.HasSuffix(strings.TrimSpace(line), hostsMark(name))
Marked(line, n) == line.owner = n /\ line.text = NoText

\* updateHosts(name, domain, addr), or removeHostsLine(name) with NoAddr.
Op == [name : Names, addr : Addrs \cup {NoAddr}]
NoOp == [name |-> NoName, addr |-> NoAddr]

Steps == {"idle", "waiting", "locked", "loaded", "written", "flushed", "renamed", "leaving"}
Critical == Steps \ {"idle", "waiting"}

TypeOK ==
  /\ file \in File /\ durable \in File
  /\ flushed \in BOOLEAN
  /\ lock \in Actors \cup {NoActor}
  /\ pc \in [Actors -> Steps]
  /\ op \in [Actors -> Op \cup {NoOp}]
  /\ temp \in [Actors -> File]
  /\ shared \in BOOLEAN
  /\ \A a \in Actors : pc[a] = "idle" <=> op[a] = NoOp

\* The file as the administrator left it, ended by a newline.
InitialFile == [lines |-> {System(t) : t \in SystemLines}, open |-> NoLine]

Init ==
  /\ file = InitialFile /\ durable = InitialFile /\ flushed = TRUE
  /\ lock = NoActor
  /\ pc = [a \in Actors |-> "idle"]
  /\ op = [a \in Actors |-> NoOp]
  /\ temp = [a \in Actors |-> Empty]
  /\ shared \in BOOLEAN

Goto(a, from, to) == pc[a] = from /\ pc' = [pc EXCEPT ![a] = to]

\* A call is over: its buffers are gone.
Forget(a) == op' = [op EXCEPT ![a] = NoOp] /\ temp' = [temp EXCEPT ![a] = Empty]

\* A call whose arguments are valid; updateHosts and removeHostsLine refuse
\* others before they touch anything.
Call(a) ==
  /\ Goto(a, "idle", "waiting")
  /\ \E o \in Op : op' = [op EXCEPT ![a] = o]
  /\ UNCHANGED <<file, durable, flushed, lock, temp>>

\* Mutant: the lock is opened but never taken.
MutLock(a) ==
  /\ Goto(a, "waiting", "locked")
  /\ lock' = a
  /\ UNCHANGED <<file, durable, flushed, op, temp>>

Lock(a) ==
  /\ Goto(a, "waiting", "locked")
  /\ lock = NoActor
  /\ lock' = a
  /\ UNCHANGED <<file, durable, flushed, op, temp>>

\* Mutant: the old lines of the container stay.
MutEdit(f, n, x) ==
  IF x = NoAddr
    THEN {[lines |-> {l \in f.lines : ~Marked(l, n)}, open |-> NoLine]}
    ELSE {[lines |-> f.lines \cup {Entry(n, x)}, open |-> Entry(n, x)]}

\* The contents that replace those read: the marked lines dropped and, for an
\* update, the new line last and without a newline.  A removal that drops the
\* open line may leave another bocker line last and open; every line of the
\* system has its newline, as it had when it was read.
Edit(f, n, x) ==
  LET kept == {l \in f.lines : ~Marked(l, n)} IN
  IF x # NoAddr
    THEN {[lines |-> kept \cup {Entry(n, x)}, open |-> Entry(n, x)]}
    ELSE {[lines |-> kept, open |-> o] :
            o \in IF Marked(f.open, n) THEN {l \in kept : OwnLine(l)} \cup {NoLine}
                                       ELSE {f.open}}

Load(a) ==
  /\ Goto(a, "locked", "loaded")
  /\ \E f \in Edit(file, op[a].name, op[a].addr) : temp' = [temp EXCEPT ![a] = f]
  /\ UNCHANGED <<file, durable, flushed, lock, op>>

\* CreateTemp and Write, then Sync, Close, Chmod and Chown.
WriteTemp(a) ==
  /\ Goto(a, "loaded", "written")
  /\ UNCHANGED <<file, durable, flushed, lock, op, temp>>

FlushTemp(a) ==
  /\ Goto(a, "written", "flushed")
  /\ UNCHANGED <<file, durable, flushed, lock, op, temp>>

\* Mutant: the temporary file is renamed before its Sync.
MutRename(a) ==
  /\ Goto(a, "written", "renamed")
  /\ file' = temp[a] /\ flushed' = FALSE
  /\ UNCHANGED <<durable, lock, op, temp>>

Rename(a) ==
  /\ Goto(a, "flushed", "renamed")
  /\ file' = temp[a] /\ flushed' = TRUE
  /\ UNCHANGED <<durable, lock, op, temp>>

\* The directory is synced, or cannot be: then the rename is not yet durable.
SyncDir(a) ==
  /\ Goto(a, "renamed", "leaving")
  /\ durable' = file \/ UNCHANGED durable
  /\ UNCHANGED <<file, flushed, lock, op, temp>>

\* Mutant: an error returns without giving the lock back.
MutFail(a) ==
  /\ \E from \in {"locked", "loaded", "written", "flushed"} : Goto(a, from, "idle")
  /\ Forget(a)
  /\ UNCHANGED <<file, durable, flushed, lock>>

\* Any of the system calls before the rename fails.
Fail(a) ==
  /\ \E from \in {"locked", "loaded", "written", "flushed"} : Goto(a, from, "leaving")
  /\ UNCHANGED <<file, durable, flushed, lock, op, temp>>

Unlock(a) ==
  /\ Goto(a, "leaving", "idle")
  /\ lock' = NoActor
  /\ Forget(a)
  /\ UNCHANGED <<file, durable, flushed>>

\* The process is killed: the kernel drops its flock.
Crash(a) ==
  /\ pc[a] # "idle"
  /\ pc' = [pc EXCEPT ![a] = "idle"]
  /\ lock' = IF lock = a THEN NoActor ELSE lock
  /\ Forget(a)
  /\ UNCHANGED <<file, durable, flushed>>

\* After a power loss the name refers to the old or to the new file; the
\* contents of a file that was never synced may be gone.
PowerLoss ==
  /\ pc' = [a \in Actors |-> "idle"]
  /\ lock' = NoActor
  /\ file' \in {durable, IF flushed THEN file ELSE Empty}
  /\ durable' = file' /\ flushed' = TRUE
  /\ op' = [a \in Actors |-> NoOp]
  /\ temp' = [a \in Actors |-> Empty]

\* Another program appends a line and a newline: to an open line it is glued.
AppendLine(t) ==
  /\ shared
  /\ \A l \in file.lines : l.text # t
  /\ LET glued == [file.open EXCEPT !.text = t] IN
     file' = [lines |-> (file.lines \ {file.open}) \cup {glued}, open |-> NoLine]
  /\ UNCHANGED <<durable, flushed, lock, pc, op, temp>>

CallStep(a) ==
  \/ Lock(a) \/ Load(a) \/ WriteTemp(a) \/ FlushTemp(a) \/ Rename(a)
  \/ SyncDir(a) \/ Fail(a) \/ Unlock(a)

Next ==
  /\ \/ \E a \in Actors : Call(a) \/ CallStep(a) \/ Crash(a)
     \/ PowerLoss
     \/ \E t \in AppendedLines : AppendLine(t)
  /\ UNCHANGED shared

Spec == Init /\ [][Next]_vars

\* Callers run on, and flock hands a free lock to one that keeps waiting.
FairSpec ==
  /\ Spec
  /\ \A a \in Actors : SF_vars(Lock(a) /\ UNCHANGED shared) /\ WF_vars(CallStep(a) /\ UNCHANGED shared)

-----------------------------------------------------------------------------
(* Properties.                                                             *)

\* A container has at most one line, so its domain never resolves to two
\* addresses, however calls, crashes and power losses interleave, unless
\* another program appends to the file.
OneLinePerContainer ==
  ~shared => \A l, m \in file.lines : l.owner = m.owner /\ l.owner # NoName => l = m

\* The lines of the administrator survive every call, crash and power loss.
SystemLinesKept == \A t \in SystemLines : \E l \in file.lines : l.text = t

\* When a call has replaced the file, and until it lets the next one in, the
\* file says what the call was asked to make it say (unless others append).
CallTookEffect ==
  ~shared => \A a \in Actors : pc[a] = "renamed" =>
    {l.addr : l \in {m \in file.lines : m.owner = op[a].name}} = {op[a].addr} \ {NoAddr}

\* A call that waits for the lock ends, whatever becomes of the others.
CallEnds == \A a \in Actors : pc[a] # "idle" ~> pc[a] = "idle"

-----------------------------------------------------------------------------
(* The promise, HostsMap: a name maps to the address of its line.          *)

AddrIn(f, n) ==
  IF \E l \in f.lines : l.owner = n
    THEN (CHOOSE l \in f.lines : l.owner = n).addr
    ELSE NoAddr

EntryOf(f) == [n \in Names |-> AddrIn(f, n)]

\* Nothing is promised where other programs append: the map stands still.
Promised(f) == EntryOf(IF shared THEN InitialFile ELSE f)

Promise == INSTANCE HostsMap WITH entry <- Promised(file), stable <- Promised(durable)

\* Every call is one atomic change of the map, at one name, and a power loss
\* undoes no more than changes that were not yet durable.
ImplementsHostsMap == Promise!Spec
=============================================================================
