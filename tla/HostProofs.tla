----------------------------- MODULE HostProofs -----------------------------
(***************************************************************************)
(* Proofs about what bocker changes on the host: /etc/hosts (HostsFile),   *)
(* for any number of concurrent calls, names, addresses and lines, and the *)
(* shim of bridge networking (HostBridge), for any numbers of commands,    *)
(* containers, interfaces, addresses, failing steps and moves of the       *)
(* uplink.                                                                 *)
(***************************************************************************)
EXTENDS HostsFile, HostBridge, TLAPS

-----------------------------------------------------------------------------
(* /etc/hosts                                                              *)

\* The lines and files the calls are made of are lines and files.
LEMMA LineType ==
  /\ NoLine \in Line /\ Empty \in File /\ InitialFile \in File
  /\ \A n \in Names, x \in Addrs : Entry(n, x) \in Line
  /\ \A l \in Line, t \in AppendedLines : [l EXCEPT !.text = t] \in Line
BY DEF NoLine, System, Entry, Line, Empty, File, InitialFile

\* An edited file is a file.
LEMMA EditType ==
  ASSUME NEW f \in File, NEW o \in Op, NEW g \in Edit(f, o.name, o.addr)
  PROVE  g \in File
<1>1. o.name \in Names /\ o.addr \in Addrs \cup {NoAddr}
  BY DEF Op
<1>2. f.lines \subseteq Line /\ f.open \in Line
  BY DEF File
<1>3. CASE o.addr # NoAddr
  BY <1>1, <1>2, <1>3, LineType DEF Edit, File
<1>4. CASE o.addr = NoAddr
  BY <1>2, <1>4, LineType DEF Edit, File
<1>5. QED BY <1>3, <1>4

\* Whether other programs append does not change.
LEMMA SharedStays == [Next]_vars => UNCHANGED shared
BY DEF Next, vars

\* Every reachable state is well typed, and only a call under way has buffers.
THEOREM TypeCorrect == Spec => []TypeOK
<1>1. Init => TypeOK
  BY LineType DEF Init, TypeOK, Steps, NoOp
<1>2. TypeOK /\ [Next]_vars => TypeOK'
  <2> SUFFICES ASSUME TypeOK, [Next]_vars PROVE TypeOK'
    OBVIOUS
  <2>0. NoOp \notin Op
    BY HostsAssumption DEF NoOp, Op
  <2>s. UNCHANGED shared
    BY SharedStays
  <2> USE <2>s DEF TypeOK, Steps, Goto
  <2>1. ASSUME NEW a \in Actors, Call(a) PROVE TypeOK'
    BY <2>0, <2>1 DEF Call
  <2>2. ASSUME NEW a \in Actors, CallStep(a) PROVE TypeOK'
    <3>1. CASE Lock(a) BY <3>1 DEF Lock
    <3>2. CASE Load(a)
      <4>1. op[a] \in Op
        BY <3>2 DEF Load
      <4>2. PICK f \in Edit(file, op[a].name, op[a].addr) : temp' = [temp EXCEPT ![a] = f]
        BY <3>2 DEF Load
      <4>3. f \in File
        BY <4>1, <4>2, EditType
      <4>4. QED BY <3>2, <4>2, <4>3 DEF Load
    <3>3. CASE WriteTemp(a) BY <3>3 DEF WriteTemp
    <3>4. CASE FlushTemp(a) BY <3>4 DEF FlushTemp
    <3>5. CASE Rename(a) BY <3>5 DEF Rename
    <3>6. CASE SyncDir(a) BY <3>6 DEF SyncDir
    <3>7. CASE Fail(a) BY <3>7 DEF Fail
    <3>8. CASE Unlock(a) BY <3>8, LineType DEF Unlock, Forget
    <3>9. QED BY <2>2, <3>1, <3>2, <3>3, <3>4, <3>5, <3>6, <3>7, <3>8 DEF CallStep
  <2>3. ASSUME NEW a \in Actors, Crash(a) PROVE TypeOK'
    BY <2>3, LineType DEF Crash, Forget
  <2>4. CASE PowerLoss
    BY <2>4, LineType DEF PowerLoss
  <2>5. ASSUME NEW t \in AppendedLines, AppendLine(t) PROVE TypeOK'
    <3>1. file.lines \subseteq Line /\ file.open \in Line
      BY DEF File
    <3>2. [file.open EXCEPT !.text = t] \in Line
      BY <3>1, LineType
    <3>3. file' \in File
      BY <2>5, <3>1, <3>2, LineType DEF AppendLine, File
    <3>4. QED BY <2>5, <3>3 DEF AppendLine
  <2>6. CASE UNCHANGED vars BY <2>6 DEF vars
  <2>7. QED BY <2>1, <2>2, <2>3, <2>4, <2>5, <2>6 DEF Next
<1>3. QED BY <1>1, <1>2, PTL DEF Spec

-----------------------------------------------------------------------------
(* The lines of the system.  Every contents the file may come to have keeps *)
(* them: the one on disk, the one visible, and each temporary file that may *)
(* still be renamed; and none of them is open, so nothing is glued to one.  *)

Keeps(f) == /\ \A t \in SystemLines : \E l \in f.lines : l.text = t
            /\ f.open.text = NoText

KeptInv ==
  /\ flushed
  /\ Keeps(file) /\ Keeps(durable)
  /\ \A a \in Actors : pc[a] \in {"loaded", "written", "flushed"} => Keeps(temp[a])

\* An edit drops no line of the system.
LEMMA EditKeeps ==
  ASSUME NEW f \in File, NEW o \in Op, NEW g \in Edit(f, o.name, o.addr), Keeps(f)
  PROVE  Keeps(g)
<1> DEFINE kept == {l \in f.lines : ~Marked(l, o.name)}
<1>1. \A t \in SystemLines : \E l \in kept : l.text = t
  BY HostsAssumption DEF Keeps, Marked
<1>2. CASE o.addr # NoAddr
  BY <1>1, <1>2 DEF Edit, Keeps, Entry
<1>3. CASE o.addr = NoAddr
  BY <1>1, <1>3 DEF Edit, Keeps, OwnLine, NoLine, System
<1>4. QED BY <1>2, <1>3

\* No step loses a line of the system.
LEMMA KeptStep ==
  ASSUME TypeOK, KeptInv, [Next]_vars
  PROVE  KeptInv'
<1> USE DEF TypeOK, KeptInv, Goto, Steps
<1>1. ASSUME NEW a \in Actors, Call(a) PROVE KeptInv'
  BY <1>1 DEF Call
<1>2. ASSUME NEW a \in Actors, CallStep(a) PROVE KeptInv'
  <2>1. CASE Lock(a) BY <2>1 DEF Lock
  <2>2. CASE Load(a)
    <3>1. PICK f \in Edit(file, op[a].name, op[a].addr) : temp' = [temp EXCEPT ![a] = f]
      BY <2>2 DEF Load
    <3>2. op[a] \in Op
      BY <2>2 DEF Load
    <3>3. Keeps(f)
      BY <3>1, <3>2, EditKeeps
    <3>4. QED BY <2>2, <3>1, <3>3 DEF Load
  <2>3. CASE WriteTemp(a) BY <2>3 DEF WriteTemp
  <2>4. CASE FlushTemp(a) BY <2>4 DEF FlushTemp
  <2>5. CASE Rename(a) BY <2>5 DEF Rename
  <2>6. CASE SyncDir(a) BY <2>6 DEF SyncDir
  <2>7. CASE Fail(a) BY <2>7 DEF Fail
  <2>8. CASE Unlock(a) BY <2>8 DEF Unlock, Forget
  <2>9. QED BY <1>2, <2>1, <2>2, <2>3, <2>4, <2>5, <2>6, <2>7, <2>8 DEF CallStep
<1>3. ASSUME NEW a \in Actors, Crash(a) PROVE KeptInv'
  BY <1>3 DEF Crash, Forget
<1>4. CASE PowerLoss BY <1>4 DEF PowerLoss
<1>5. ASSUME NEW t \in AppendedLines, AppendLine(t) PROVE KeptInv'
  <2>1. Keeps(file)'
    <3>1. \A l \in file.lines : l.text \in SystemLines => l # file.open
      BY HostsAssumption DEF Keeps
    <3>2. \A l \in file.lines : l.text \in SystemLines => l \in file'.lines
      BY <1>5, <3>1 DEF AppendLine
    <3>3. file'.open.text = NoText
      BY <1>5 DEF AppendLine, NoLine, System
    <3>4. QED BY <3>2, <3>3 DEF Keeps
  <2>2. QED BY <1>5, <2>1 DEF AppendLine
<1>6. CASE UNCHANGED vars BY <1>6 DEF vars
<1>7. QED BY <1>1, <1>2, <1>3, <1>4, <1>5, <1>6 DEF Next, AppendLine

\* The administrator's lines survive every interleaving of calls, failures,
\* crashes and power losses, and of other programs appending to the file.
THEOREM SystemLinesSurvive == Spec => []SystemLinesKept
<1>1. Init => KeptInv
  <2>1. Keeps(InitialFile)
    <3>1. \A t \in SystemLines : System(t) \in InitialFile.lines /\ System(t).text = t
      BY DEF InitialFile, System
    <3>2. InitialFile.open.text = NoText
      BY DEF InitialFile, NoLine, System
    <3>3. QED BY <3>1, <3>2 DEF Keeps
  <2>2. QED BY <2>1 DEF Init, KeptInv
<1>2. TypeOK /\ KeptInv /\ [Next]_vars => KeptInv'
  BY KeptStep
<1>3. KeptInv => SystemLinesKept
  BY DEF KeptInv, Keeps, SystemLinesKept
<1>4. QED BY <1>1, <1>2, <1>3, TypeCorrect, PTL DEF Spec

-----------------------------------------------------------------------------
(* One line per container, when no other program appends to the file.      *)

\* No line of bocker carries anything else, and no two are of one container.
Clean(f) ==
  /\ \A l \in f.lines : l.owner # NoName => l.text = NoText
  /\ \A l, m \in f.lines : l.owner = m.owner /\ l.owner # NoName => l = m

CleanInv ==
  /\ flushed
  /\ Clean(file) /\ Clean(durable)
  /\ \A a \in Actors : pc[a] \in {"loaded", "written", "flushed"} => Clean(temp[a])

\* An edited file has one line per name if the file had.
LEMMA EditClean ==
  ASSUME NEW f \in File, NEW o \in Op, NEW g \in Edit(f, o.name, o.addr), Clean(f)
  PROVE  Clean(g)
<1> DEFINE kept == {l \in f.lines : ~Marked(l, o.name)}
<1>1. \A l \in kept : l.owner # o.name
  BY HostsAssumption DEF Clean, Marked, Op
<1>2. CASE o.addr # NoAddr
  <2>1. g.lines = kept \cup {Entry(o.name, o.addr)}
    BY <1>2 DEF Edit
  <2>2. Entry(o.name, o.addr).owner = o.name /\ Entry(o.name, o.addr).text = NoText
    BY DEF Entry
  <2>3. QED BY <1>1, <2>1, <2>2 DEF Clean
<1>3. CASE o.addr = NoAddr
  <2>1. g.lines = kept
    BY <1>3 DEF Edit
  <2>2. QED BY <2>1 DEF Clean
<1>4. QED BY <1>2, <1>3

\* No step leaves a file with two lines of a name.
LEMMA CleanStep ==
  ASSUME ~shared, TypeOK, CleanInv, [Next]_vars
  PROVE  CleanInv'
<1> USE DEF TypeOK, CleanInv, Goto, Steps
<1>1. ASSUME NEW a \in Actors, Call(a) PROVE CleanInv'
  BY <1>1 DEF Call
<1>2. ASSUME NEW a \in Actors, CallStep(a) PROVE CleanInv'
  <2>1. CASE Lock(a) BY <2>1 DEF Lock
  <2>2. CASE Load(a)
    <3>1. PICK f \in Edit(file, op[a].name, op[a].addr) : temp' = [temp EXCEPT ![a] = f]
      BY <2>2 DEF Load
    <3>2. op[a] \in Op
      BY <2>2 DEF Load
    <3>3. Clean(f)
      BY <3>1, <3>2, EditClean
    <3>4. QED BY <2>2, <3>1, <3>3 DEF Load
  <2>3. CASE WriteTemp(a) BY <2>3 DEF WriteTemp
  <2>4. CASE FlushTemp(a) BY <2>4 DEF FlushTemp
  <2>5. CASE Rename(a) BY <2>5 DEF Rename
  <2>6. CASE SyncDir(a) BY <2>6 DEF SyncDir
  <2>7. CASE Fail(a) BY <2>7 DEF Fail
  <2>8. CASE Unlock(a) BY <2>8 DEF Unlock, Forget
  <2>9. QED BY <1>2, <2>1, <2>2, <2>3, <2>4, <2>5, <2>6, <2>7, <2>8 DEF CallStep
<1>3. ASSUME NEW a \in Actors, Crash(a) PROVE CleanInv'
  BY <1>3 DEF Crash, Forget
<1>4. CASE PowerLoss BY <1>4 DEF PowerLoss
<1>5. CASE UNCHANGED vars BY <1>5 DEF vars
<1>6. QED BY <1>1, <1>2, <1>3, <1>4, <1>5 DEF Next, AppendLine

\* No file or copy ever has two lines of a name.
LEMMA CleanAlways == Spec => [](~shared => CleanInv)
<1>1. Init => CleanInv
  BY DEF Init, CleanInv, Clean, InitialFile, System
<1>2. TypeOK /\ (~shared => CleanInv) /\ [Next]_vars => (~shared => CleanInv)'
  BY CleanStep, SharedStays
<1>3. QED BY <1>1, <1>2, TypeCorrect, PTL DEF Spec

\* Unless another program appends to the file, a container never has two lines.
THEOREM OneLine == Spec => []OneLinePerContainer
<1>1. (~shared => CleanInv) => OneLinePerContainer
  BY DEF CleanInv, Clean, OneLinePerContainer
<1>2. QED BY <1>1, CleanAlways, PTL

-----------------------------------------------------------------------------
(* The promise.  Between reading the file and replacing it a call holds the *)
(* lock, so what it is about to rename is still an edit of the file.       *)

LockInv ==
  /\ \A a \in Actors : pc[a] \in Critical <=> lock = a
  /\ \A a \in Actors : pc[a] \in {"loaded", "written", "flushed"} =>
       temp[a] \in Edit(file, op[a].name, op[a].addr)

\* No step makes the copy of the holder of the lock stale.
LEMMA LockStep ==
  ASSUME ~shared, TypeOK, LockInv, [Next]_vars
  PROVE  LockInv'
<1> USE HostsAssumption DEF TypeOK, LockInv, Goto, Steps, Critical
<1>1. ASSUME NEW a \in Actors, Call(a) PROVE LockInv'
  BY <1>1 DEF Call
<1>2. ASSUME NEW a \in Actors, CallStep(a) PROVE LockInv'
  <2>1. CASE Lock(a) BY <2>1 DEF Lock
  <2>2. CASE Load(a) BY <2>2 DEF Load
  <2>3. CASE WriteTemp(a) BY <2>3 DEF WriteTemp
  <2>4. CASE FlushTemp(a) BY <2>4 DEF FlushTemp
  <2>5. CASE Rename(a) BY <2>5 DEF Rename
  <2>6. CASE SyncDir(a) BY <2>6 DEF SyncDir
  <2>7. CASE Fail(a) BY <2>7 DEF Fail
  <2>8. CASE Unlock(a) BY <2>8 DEF Unlock, Forget
  <2>9. QED BY <1>2, <2>1, <2>2, <2>3, <2>4, <2>5, <2>6, <2>7, <2>8 DEF CallStep
<1>3. ASSUME NEW a \in Actors, Crash(a) PROVE LockInv'
  BY <1>3 DEF Crash, Forget
<1>4. CASE PowerLoss BY <1>4 DEF PowerLoss
<1>5. CASE UNCHANGED vars BY <1>5 DEF vars
<1>6. QED BY <1>1, <1>2, <1>3, <1>4, <1>5 DEF Next, AppendLine

\* What is about to be renamed is always an edit of the file.
LEMMA LockAlways == Spec => [](~shared => LockInv)
<1>1. Init => LockInv
  BY HostsAssumption DEF Init, LockInv, Critical, Steps
<1>2. TypeOK /\ (~shared => LockInv) /\ [Next]_vars => (~shared => LockInv)'
  BY LockStep, SharedStays
<1>3. QED BY <1>1, <1>2, TypeCorrect, PTL DEF Spec

\* After an edit the file says of the container what was asked.
LEMMA EditSays ==
  ASSUME NEW f \in File, NEW o \in Op, NEW g \in Edit(f, o.name, o.addr), Clean(f)
  PROVE  {l.addr : l \in {m \in g.lines : m.owner = o.name}} = {o.addr} \ {NoAddr}
<1> DEFINE kept == {l \in f.lines : ~Marked(l, o.name)}
<1>1. \A l \in kept : l.owner # o.name
  BY HostsAssumption DEF Clean, Marked, Op
<1>2. CASE o.addr # NoAddr
  <2>1. g.lines = kept \cup {Entry(o.name, o.addr)}
    BY <1>2 DEF Edit
  <2>2. Entry(o.name, o.addr).owner = o.name /\ Entry(o.name, o.addr).addr = o.addr
    BY DEF Entry
  <2>3. QED BY <1>1, <1>2, <2>1, <2>2
<1>3. CASE o.addr = NoAddr
  <2>1. g.lines = kept
    BY <1>3 DEF Edit
  <2>2. QED BY <1>1, <1>3, <2>1
<1>4. QED BY <1>2, <1>3

\* No step undoes what a call that still holds the lock has done.
LEMMA EffectStep ==
  ASSUME ~shared, TypeOK, LockInv, CleanInv, CallTookEffect, [Next]_vars
  PROVE  CallTookEffect'
<1> USE DEF TypeOK, CallTookEffect, Goto, Steps
<1>1. ASSUME NEW a \in Actors, Rename(a) PROVE CallTookEffect'
  <2>1. /\ file' = temp[a] /\ op' = op /\ file \in File /\ Clean(file)
        /\ temp[a] \in Edit(file, op[a].name, op[a].addr)
    BY <1>1 DEF Rename, LockInv, CleanInv
  <2>2. op[a] \in Op
    BY <1>1 DEF Rename
  <2>3. {l.addr : l \in {m \in file'.lines : m.owner = op[a].name}} = {op[a].addr} \ {NoAddr}
    BY <2>1, <2>2, EditSays
  <2>4. \A b \in Actors : pc'[b] = "renamed" => b = a
    BY <1>1 DEF Rename, LockInv, Critical
  <2>5. QED BY <2>1, <2>3, <2>4
<1>2. ASSUME NEW a \in Actors, Call(a) PROVE CallTookEffect'
  <2>1. UNCHANGED file /\ \A b \in Actors : pc'[b] = "renamed" => pc[b] = "renamed" /\ op'[b] = op[b]
    BY <1>2 DEF Call
  <2>2. QED BY <2>1
<1>3. ASSUME NEW a \in Actors, CallStep(a), ~Rename(a) PROVE CallTookEffect'
  <2>1. UNCHANGED file /\ \A b \in Actors : pc'[b] = "renamed" => pc[b] = "renamed" /\ op'[b] = op[b]
    BY <1>3 DEF CallStep, Lock, Load, WriteTemp, FlushTemp, SyncDir, Fail, Unlock, Forget
  <2>2. QED BY <2>1
<1>4. ASSUME NEW a \in Actors, Crash(a) PROVE CallTookEffect'
  <2>1. UNCHANGED file /\ \A b \in Actors : pc'[b] = "renamed" => pc[b] = "renamed" /\ op'[b] = op[b]
    BY <1>4 DEF Crash, Forget
  <2>2. QED BY <2>1
<1>5. CASE PowerLoss BY <1>5 DEF PowerLoss
<1>6. CASE UNCHANGED vars BY <1>6 DEF vars
<1>7. QED BY <1>1, <1>2, <1>3, <1>4, <1>5, <1>6 DEF Next, AppendLine

\* Unless another program appends to the file, no other call, and no crash of
\* one, undoes what a call has written while that call holds the lock.
THEOREM TookEffect == Spec => []CallTookEffect
<1>1. Init => CallTookEffect
  BY DEF Init, CallTookEffect
<1>2. /\ TypeOK /\ (~shared => LockInv) /\ (~shared => CleanInv)
      /\ CallTookEffect /\ [Next]_vars
      => CallTookEffect'
  BY EffectStep, SharedStays DEF CallTookEffect
<1>3. QED BY <1>1, <1>2, TypeCorrect, LockAlways, CleanAlways, PTL DEF Spec

\* An edit changes the address of its own container and of no other.
LEMMA EditPuts ==
  ASSUME NEW f \in File, NEW o \in Op, NEW g \in Edit(f, o.name, o.addr), Clean(f)
  PROVE  EntryOf(g) = [EntryOf(f) EXCEPT ![o.name] = o.addr]
<1> DEFINE kept == {l \in f.lines : ~Marked(l, o.name)}
           own == {l \in g.lines : l.owner = o.name}
<1>1. o.name \in Names /\ o.name # NoName
  BY HostsAssumption DEF Op
<1>2. \A l \in kept : l.owner # o.name
  BY <1>1 DEF Clean, Marked
<1>3. ASSUME NEW m \in Names, m # o.name
      PROVE  {l \in g.lines : l.owner = m} = {l \in f.lines : l.owner = m}
  <2>1. {l \in kept : l.owner = m} = {l \in f.lines : l.owner = m}
    BY <1>3 DEF Marked
  <2>2. CASE o.addr # NoAddr
    BY <1>3, <2>1, <2>2 DEF Edit, Entry
  <2>3. CASE o.addr = NoAddr
    BY <2>1, <2>3 DEF Edit
  <2>4. QED BY <2>2, <2>3
<1>4. ASSUME NEW m \in Names, m # o.name
      PROVE  AddrIn(g, m) = AddrIn(f, m)
  <2>1. \A l : l \in g.lines /\ l.owner = m <=> l \in f.lines /\ l.owner = m
    BY <1>3, <1>4
  <2>2. CASE \E l \in f.lines : l.owner = m
    <3>1. (CHOOSE l \in g.lines : l.owner = m) = (CHOOSE l \in f.lines : l.owner = m)
      <4>1. PICK l \in f.lines : l.owner = m
        BY <2>2
      <4>2. \A k \in f.lines : k.owner = m => k = l
        BY <1>4, <4>1, HostsAssumption DEF Clean
      <4>3. (CHOOSE k \in f.lines : k.owner = m) = l
        BY <4>1, <4>2
      <4>4. (CHOOSE k \in g.lines : k.owner = m) = l
        BY <2>1, <4>1, <4>2
      <4>5. QED BY <4>3, <4>4
    <3>2. QED BY <2>1, <2>2, <3>1 DEF AddrIn
  <2>3. CASE ~\E l \in f.lines : l.owner = m
    BY <2>1, <2>3 DEF AddrIn
  <2>4. QED BY <2>2, <2>3
<1>5. AddrIn(g, o.name) = o.addr
  <2>1. CASE o.addr # NoAddr
    <3>1. own = {Entry(o.name, o.addr)}
      BY <1>2, <2>1 DEF Edit, Entry
    <3>2. (CHOOSE l \in g.lines : l.owner = o.name) = Entry(o.name, o.addr)
      BY <3>1
    <3>3. QED BY <3>1, <3>2 DEF AddrIn, Entry
  <2>2. CASE o.addr = NoAddr
    BY <1>2, <2>2 DEF Edit, AddrIn
  <2>3. QED BY <2>1, <2>2
<1>6. QED BY <1>1, <1>4, <1>5 DEF EntryOf

\* An address found in a file is one of the addresses.
LEMMA EntryType ==
  ASSUME NEW f \in File
  PROVE  EntryOf(f) \in [Names -> Addrs \cup {NoAddr}]
BY DEF EntryOf, AddrIn, File, Line

\* A step of the calls is a step of the map, or none.
LEMMA PromiseStep ==
  ASSUME ~shared, TypeOK, LockInv, CleanInv, [Next]_vars
  PROVE  [Promise!Next]_(Promise!vars)
<1>0. ~shared /\ ~shared'
  BY SharedStays
<1> USE <1>0 DEF Promise!vars, Promised, TypeOK
<1>1. ASSUME NEW a \in Actors, Rename(a) PROVE Promise!Next
  <2>1. /\ file' = temp[a] /\ durable' = durable
        /\ temp[a] \in Edit(file, op[a].name, op[a].addr)
    BY <1>1 DEF Rename, Goto, LockInv
  <2>2. op[a] \in Op
    BY <1>1 DEF Rename, Goto, Steps
  <2>3. EntryOf(file)' = [EntryOf(file) EXCEPT ![op[a].name] = op[a].addr]
    BY <2>1, <2>2, EditPuts DEF CleanInv
  <2>4. EntryOf(durable)' = EntryOf(durable)
    BY <2>1
  <2>5. QED BY <2>2, <2>3, <2>4 DEF Promise!Next, Promise!Put, Op
<1>2. ASSUME NEW a \in Actors, SyncDir(a) PROVE [Promise!Next]_(Promise!vars)
  BY <1>2 DEF SyncDir, Promise!Next, Promise!Stabilise
<1>3. CASE PowerLoss
  <2>1. file' \in {durable, file} /\ durable' = file'
    BY <1>3 DEF PowerLoss, CleanInv
  <2>2. EntryOf(file)' \in {EntryOf(file), EntryOf(durable)} /\ EntryOf(durable)' = EntryOf(file)'
    BY <2>1
  <2>3. QED BY <2>2 DEF Promise!Next, Promise!PowerLoss
<1>4. CASE UNCHANGED <<file, durable>>
  BY <1>4
<1>5. ASSUME NEW a \in Actors, Call(a) PROVE UNCHANGED <<file, durable>>
  BY <1>5 DEF Call
<1>6. ASSUME NEW a \in Actors, Crash(a) PROVE UNCHANGED <<file, durable>>
  BY <1>6 DEF Crash
<1>7. ASSUME NEW a \in Actors, CallStep(a), ~Rename(a), ~SyncDir(a)
      PROVE  UNCHANGED <<file, durable>>
  BY <1>7 DEF CallStep, Lock, Load, WriteTemp, FlushTemp, Fail, Unlock
<1>8. CASE UNCHANGED vars
  BY <1>8 DEF vars
<1>9. QED BY <1>1, <1>2, <1>3, <1>4, <1>5, <1>6, <1>7, <1>8 DEF Next, CallStep, AppendLine

\* Unless another program appends to the file, every call, whether it ends,
\* fails or is killed, is one atomic change of the map at its own container's
\* name or none, and a power loss goes back at most to the last durable map.
THEOREM HostsImplementsMap == Spec => ImplementsHostsMap
<1>1. Init => Promise!Init
  <2>1. ASSUME Init PROVE Promised(file) \in Promise!Entries /\ Promised(durable) = Promised(file)
    BY <2>1, LineType, EntryType DEF Init, Promise!Entries, Promised
  <2>2. QED BY <2>1 DEF Promise!Init
<1>2. /\ TypeOK /\ (~shared => LockInv) /\ (~shared => CleanInv) /\ [Next]_vars
      => [Promise!Next]_(Promise!vars)
  <2>1. CASE ~shared
    BY <2>1, PromiseStep
  <2>2. CASE shared
    BY <2>2, SharedStays DEF Promise!vars, Promised
  <2>3. QED BY <2>1, <2>2
<1>3. QED
  BY <1>1, <1>2, TypeCorrect, LockAlways, CleanAlways, PTL
  DEF Spec, Promise!Spec, ImplementsHostsMap

-----------------------------------------------------------------------------
(* The host bridge.  The types, in three parts: the host, the commands and the rest.          *)

HostTypes ==
  /\ link \in Wired \cup {None} /\ addrs \in Seq(LAN) /\ up \in BOOLEAN
  /\ isolated \subseteq Wired \cup {Shim}
  /\ routes \subseteq Addresses \X {4, 6}
  /\ neigh \in [Addresses \X {4, 6} -> Containers \cup {None}]
  /\ legacy \in {"none", "shim", "bridge"}

Sights == [link : Wired \cup {None}, isolated : SUBSET (Wired \cup {Shim}),
           moves : 0 .. MaxMoves]

Settings == [set : SUBSET (Wired \cup {Shim}), was : SUBSET (Wired \cup {Shim})]

WorkTypes ==
  /\ place \in [Procs -> Places]
  /\ subject \in [Procs -> Containers \cup {None}]
  /\ family \in [Procs -> {4, 6}]
  /\ targets \in [Procs -> [Containers -> Addresses \cup {None}]]
  /\ parent \in [Procs -> Uplinks \cup {None}]
  /\ pick \in [Procs -> Addresses \cup {None}]
  /\ created \in [Procs -> BOOLEAN]
  /\ saved \in [Procs -> Settings]
  /\ todo \in [Procs -> SUBSET Containers]
  /\ before \in [Procs -> Sights]

WorldTypes ==
  /\ concurrent \in BOOLEAN /\ override \in Overrides
  /\ uplink \in Uplinks
  /\ nic \in [Containers -> Uplinks \cup {Managed, None}]
  /\ addr \in [Containers -> Addresses \cup {None}]
  /\ reached \subseteq Containers
  /\ faults \in 0 .. MaxFaults /\ moves \in 0 .. MaxMoves

LEMMA Parts == BridgeTypeOK <=> HostTypes /\ WorkTypes /\ WorldTypes
BY DEF BridgeTypeOK, HostTypes, WorkTypes, WorldTypes, Sights, Settings

LEMMA Constants ==
  /\ Nothing \in [Containers -> Addresses \cup {None}]
  /\ Nothing \in [Containers -> Uplinks \cup {Managed, None}]
  /\ Unseen \in Sights /\ Unsaved \in Settings
BY HostBridgeAssumption DEF Nothing, Unseen, Sights, Unsaved, Settings

\* What a command sees is well typed.
LEMMA SightTypes ==
  ASSUME HostTypes, WorkTypes, WorldTypes, NEW p \in Procs
  PROVE  /\ [before EXCEPT ![p].moves = moves] \in [Procs -> Sights]
         /\ [before EXCEPT ![p] = [@ EXCEPT !.link = link, !.isolated = isolated]]
              \in [Procs -> Sights]
<1>1. before[p] \in Sights
  BY DEF WorkTypes
<1>2. /\ [before[p] EXCEPT !.moves = moves] \in Sights
      /\ [before[p] EXCEPT !.link = link, !.isolated = isolated] \in Sights
  BY <1>1 DEF Sights, HostTypes, WorldTypes
<1>3. QED BY <1>2 DEF WorkTypes

\* What a command does to its own variables keeps the types.
LEMMA EndTypes ==
  ASSUME WorkTypes, NEW p \in Procs, End(p)
  PROVE  WorkTypes'
BY Constants DEF WorkTypes, End, Enter, Places

LEMMA EnterTypes ==
  ASSUME WorkTypes, NEW p \in Procs, NEW s \in Places, Enter(p, s), UNCHANGED work
  PROVE  WorkTypes'
BY DEF WorkTypes, Enter, work

LEMMA HalfTypes ==
  ASSUME WorkTypes, WorldTypes, NEW p \in Procs, HalfDone(p)
  PROVE  WorkTypes' /\ reached' \subseteq Containers
<1>1. CASE Succeed(p)
  BY <1>1, EndTypes DEF Succeed, WorldTypes, Listed
<1>2. CASE ~Succeed(p)
  <2>1. /\ place' = [place EXCEPT ![p] = "parent"] /\ family' = [family EXCEPT ![p] = 6]
        /\ saved' = [saved EXCEPT ![p] = Unsaved]
        /\ UNCHANGED <<subject, targets, parent, pick, created, todo, before, reached>>
    BY <1>2 DEF HalfDone, Enter
  <2>2. saved' \in [Procs -> Settings]
    BY <2>1, Constants DEF WorkTypes
  <2>3. QED BY <2>1, <2>2 DEF WorkTypes, WorldTypes, Places
<1>3. QED BY <1>1, <1>2

LEMMA DeleteTypes ==
  ASSUME HostTypes, DeleteLink, UNCHANGED legacy
  PROVE  HostTypes'
<1>1. <<>> \in Seq(LAN)
  OBVIOUS
<1>2. QED BY <1>1 DEF HostTypes, DeleteLink

LEMMA RestoredTypes ==
  ASSUME HostTypes, WorkTypes, NEW p \in Procs
  PROVE  Restored(p) \subseteq Wired \cup {Shim}
BY DEF HostTypes, WorkTypes, Settings, Restored

LEMMA AddressType ==
  ASSUME WorkTypes, NEW p \in Procs, todo[p] # {}, todo[p] \subseteq Listed(p)
  PROVE  Target(p) \in todo[p] /\ Address(p) \in Addresses \X {4, 6}
<1>1. Target(p) \in todo[p]
  BY DEF Target
<1>2. targets[p][Target(p)] \in Addresses /\ Target(p) \in Addresses
  BY <1>1 DEF WorkTypes, Listed, Addresses
<1>3. QED BY <1>1, <1>2 DEF Address

\* A command changes no variable of another.
Locals(q) == <<place[q], subject[q], family[q], targets[q], parent[q], pick[q],
               created[q], saved[q], todo[q], before[q]>>
Others(p) == \A q \in Procs \ {p} : UNCHANGED Locals(q)

LEMMA EndOthers ==
  ASSUME WorkTypes, NEW p \in Procs, End(p)
  PROVE  Others(p)
BY DEF WorkTypes, End, Enter, Others, Locals

LEMMA EnterOthers ==
  ASSUME WorkTypes, NEW p \in Procs, NEW s \in Places, Enter(p, s), UNCHANGED work
  PROVE  Others(p)
BY DEF WorkTypes, Enter, work, Others, Locals

LEMMA HalfOthers ==
  ASSUME WorkTypes, NEW p \in Procs, HalfDone(p)
  PROVE  Others(p)
<1>1. CASE Succeed(p)
  BY <1>1, EndOthers DEF Succeed
<1>2. CASE ~Succeed(p)
  BY <1>2 DEF HalfDone, WorkTypes, Enter, Others, Locals
<1>3. QED BY <1>1, <1>2

LEMMA StepOthers ==
  ASSUME WorkTypes, NEW p \in Procs,
         Configure(p) \/ Unroute(p) \/ \E c \in Containers : Launch(p, c) \/ Stop(p, c)
  PROVE  Others(p)
<1> USE EndOthers, EnterOthers, HalfOthers DEF Abort, Places
<1> USE DEF outside
<1>1. CASE List(p)
  <2>1. CASE End(p) BY <2>1
  <2>2. CASE ~End(p)
    BY <1>1, <2>2 DEF List, WorkTypes, Enter, Others, Locals
  <2>3. QED BY <2>1, <2>2
<1>2. CASE FindParent(p)
  <2>1. CASE End(p) \/ HalfDone(p) BY <2>1
  <2>2. CASE ~End(p) /\ ~HalfDone(p)
    BY <1>2, <2>2 DEF FindParent, WorkTypes, Enter, Others, Locals
  <2>3. QED BY <2>1, <2>2
<1>3. CASE ChooseAddress(p)
  <2>1. CASE End(p) BY <2>1
  <2>2. CASE ~End(p)
    BY <1>3, <2>2 DEF ChooseAddress, WorkTypes, Enter, Others, Locals
  <2>3. QED BY <2>1, <2>2
<1>4. CASE LookForShim(p)
  BY <1>4 DEF LookForShim, WorkTypes, Enter, Others, Locals
<1>5. CASE EnsureShim(p) BY <1>5 DEF EnsureShim
<1>6. CASE AddLink(p) BY <1>6 DEF AddLink
<1>7. CASE Isolate(p)
  <2>1. CASE End(p) BY <2>1
  <2>2. CASE ~End(p)
    BY <1>7, <2>2 DEF Isolate, WorkTypes, Enter, Others, Locals
  <2>3. QED BY <2>1, <2>2
<1>8. CASE SetAddress(p) BY <1>8 DEF SetAddress
<1>9. CASE LinkUp(p)
  <2>1. CASE Abort(p) BY <2>1
  <2>2. CASE ~Abort(p)
    BY <1>9, <2>2 DEF LinkUp, WorkTypes, Enter, Others, Locals
  <2>3. QED BY <2>1, <2>2
<1>10. CASE ReplaceRoute(p) BY <1>10 DEF ReplaceRoute
<1>11. CASE ReplaceNeighbour(p)
  <2>1. CASE Abort(p) BY <2>1
  <2>2. CASE ~Abort(p)
    BY <1>11, <2>2 DEF ReplaceNeighbour, WorkTypes, Enter, Others, Locals
  <2>3. QED BY <2>1, <2>2
<1>12. CASE RemoveLegacyShim(p) BY <1>12 DEF RemoveLegacyShim
<1>13. CASE Undo(p) BY <1>13 DEF Undo
<1>14. CASE UndoLink(p) BY <1>14 DEF UndoLink
<1>15. CASE Unroute(p) BY <1>15 DEF Unroute
<1>16. ASSUME NEW c \in Containers, Launch(p, c) PROVE Others(p)
  BY <1>16 DEF Launch, WorkTypes, Enter, Others, Locals
<1>17. ASSUME NEW c \in Containers, Stop(p, c) PROVE Others(p)
  BY <1>17 DEF Stop, WorkTypes, Enter, Others, Locals
<1>18. QED BY <1>1, <1>2, <1>3, <1>4, <1>5, <1>6, <1>7, <1>8, <1>9, <1>10, <1>11,
             <1>12, <1>13, <1>14, <1>15, <1>16, <1>17 DEF Configure

-----------------------------------------------------------------------------
(* Type correctness.  What is routed and given to the shim are addresses     *)
(* because a command has found its uplink and chosen an address by then, and *)
(* routes only what it has listed.                                           *)

Working == Places \ {"idle", "list", "parent", "unroute"}

Chosen(p) ==
  /\ todo[p] \subseteq Listed(p)
  /\ place[p] \in {"idle", "list"} => todo[p] = {} /\ family[p] = 4
  /\ place[p] = "neigh" => todo[p] # {}
  /\ place[p] \in {"address", "addr"} => family[p] = 4
  /\ place[p] \in Working => parent[p] \in Wired
  /\ place[p] \in Working \ {"address"} /\ family[p] = 4 => pick[p] \in LAN

BridgeTypeInv == BridgeTypeOK /\ \A p \in Procs : Chosen(p)

LEMMA ChosenOthers ==
  ASSUME NEW p \in Procs, Others(p), Chosen(p)', \A q \in Procs : Chosen(q)
  PROVE  \A q \in Procs : Chosen(q)'
<1> TAKE q \in Procs
<1>1. CASE q = p BY <1>1
<1>2. CASE q # p BY <1>2 DEF Others, Locals, Chosen, Listed
<1>3. QED BY <1>1, <1>2

LEMMA EndChosen ==
  ASSUME WorkTypes, NEW p \in Procs, End(p)
  PROVE  Chosen(p)'
BY DEF WorkTypes, End, Enter, Chosen, Working

LEMMA HalfChosen ==
  ASSUME WorkTypes, NEW p \in Procs, HalfDone(p), Chosen(p)
  PROVE  Chosen(p)'
<1>1. CASE Succeed(p) BY <1>1, EndChosen DEF Succeed
<1>2. CASE ~Succeed(p)
  BY <1>2 DEF HalfDone, WorkTypes, Enter, Chosen, Working, Listed
<1>3. QED BY <1>1, <1>2

\* The address chosen for the shim is one of the LAN.
LEMMA ShimAddressesType ==
  ASSUME HostTypes, WorldTypes, NEW p \in Procs
  PROVE  ShimAddresses(p) \subseteq LAN
<1>1. Existing \subseteq LAN
  <2>1. addrs # <<>> => Head(addrs) \in LAN
    BY DEF HostTypes
  <2>2. LastHost \in LAN
    BY HostBridgeAssumption DEF LAN
  <2>3. QED BY <2>1, <2>2 DEF Existing
<1>2. override # None => override \in LAN
  BY HostBridgeAssumption DEF WorldTypes
<1>3. QED BY <1>1, <1>2 DEF ShimAddresses, Candidates

LEMMA TypeStep ==
  ASSUME BridgeTypeInv, [BridgeNext]_bridgeVars
  PROVE  BridgeTypeInv'
<1>0. HostTypes /\ WorkTypes /\ WorldTypes /\ \A p \in Procs : Chosen(p)
  BY Parts DEF BridgeTypeInv
<1> SUFFICES HostTypes' /\ WorkTypes' /\ WorldTypes' /\ \A p \in Procs : Chosen(p)'
  BY DEF BridgeTypeInv, BridgeTypeOK, HostTypes, WorkTypes, WorldTypes, Sights, Settings
<1> USE <1>0
<1>f. ASSUME Fault PROVE faults' \in 0 .. MaxFaults
  BY <1>f, HostBridgeAssumption DEF Fault, WorldTypes
<1>1. ASSUME NEW p \in Procs, Configure(p) \/ Unroute(p)
      PROVE  HostTypes' /\ WorkTypes' /\ WorldTypes' /\ \A q \in Procs : Chosen(q)'
  <2>0. Others(p)
    BY <1>1, StepOthers
  <2> SUFFICES HostTypes' /\ WorkTypes' /\ WorldTypes' /\ Chosen(p)'
    BY <2>0, ChosenOthers
  <2>a. Chosen(p)
    OBVIOUS
  <2> USE <2>a, EndTypes, EndChosen, HalfTypes, HalfChosen, EnterTypes
  <2>1. CASE List(p)
    <3>1. HostTypes' /\ WorldTypes'
      BY <1>f, <2>1 DEF List, HostTypes, WorldTypes, host, world, fixed
    <3>2. CASE End(p) BY <3>1, <3>2
    <3>3. CASE ~End(p)
      <4>1. WorkTypes'
        <5>1. before' \in [Procs -> Sights]
          BY <2>1, <3>3, SightTypes DEF List
        <5>2. place' \in [Procs -> Places]
          BY <2>1, <3>3 DEF List, Enter, WorkTypes, Places
        <5>3. targets' \in [Procs -> [Containers -> Addresses \cup {None}]]
          BY <2>1, <3>3 DEF List, WorkTypes, WorldTypes
        <5>4. UNCHANGED <<subject, family, parent, pick, created, saved, todo>>
          BY <2>1, <3>3 DEF List
        <5>5. QED BY <5>1, <5>2, <5>3, <5>4 DEF WorkTypes
      <4>2. Chosen(p)'
        BY <2>1, <3>3, <4>1 DEF List, WorkTypes, Enter, At, Chosen, Working, Listed
      <4>3. QED BY <3>1, <4>1, <4>2
    <3>4. QED BY <3>2, <3>3
  <2>2. CASE FindParent(p)
    <3>1. HostTypes'
      BY <2>2 DEF FindParent, HostTypes, host
    <3>2. WorldTypes'
      BY <1>f, <2>2 DEF FindParent, WorldTypes, world, fixed
    <3>3. CASE End(p) \/ HalfDone(p) BY <3>1, <3>2, <3>3
    <3>4. CASE ~End(p) /\ ~HalfDone(p)
      <4>1. WorkTypes'
        <5>1. before' \in [Procs -> Sights]
          BY <2>2, <3>4, SightTypes DEF FindParent
        <5>2. place' \in [Procs -> Places]
          BY <2>2, <3>4 DEF FindParent, Enter, WorkTypes, Places
        <5>u. parent' \in [Procs -> Uplinks \cup {None}]
          <6>1. uplink \in Uplinks \cup {None} /\ parent' = [parent EXCEPT ![p] = uplink]
            BY <2>2, <3>4 DEF FindParent, Uplinks
          <6>2. QED BY <6>1 DEF WorkTypes
        <5>3. UNCHANGED <<subject, family, targets, pick, created, saved, todo>>
          BY <2>2, <3>4 DEF FindParent
        <5>4. QED BY <5>1, <5>2, <5>u, <5>3 DEF WorkTypes
      <4>2. Chosen(p)'
        BY <2>2, <3>4, <4>1 DEF FindParent, WorkTypes, Enter, At, Chosen, Working, Listed
      <4>3. QED BY <3>1, <3>2, <4>1, <4>2
    <3>5. QED BY <3>3, <3>4
  <2>3. CASE ChooseAddress(p)
    <3>1. HostTypes' /\ WorldTypes'
      BY <2>3 DEF ChooseAddress, HostTypes, WorldTypes, host, world, fixed
    <3>2. CASE End(p) BY <3>1, <3>2
    <3>3. CASE ~End(p)
      <4>0. PICK a \in LAN : pick' = [pick EXCEPT ![p] = a]
        BY <2>3, <3>3, ShimAddressesType DEF ChooseAddress
      <4>1. WorkTypes'
        BY <2>3, <3>3, <4>0 DEF ChooseAddress, WorkTypes, Enter, Places, Addresses
      <4>2. Chosen(p)'
        BY <2>3, <3>3, <4>0, <4>1
           DEF ChooseAddress, WorkTypes, Enter, At, Chosen, Working, Places, Listed
      <4>3. QED BY <3>1, <4>1, <4>2
    <3>4. QED BY <3>2, <3>3
  <2>4. CASE LookForShim(p)
    <3>1. HostTypes' /\ WorldTypes'
      BY <2>4 DEF LookForShim, HostTypes, WorldTypes, outside, world, fixed
    <3>2. WorkTypes'
      BY <2>4 DEF LookForShim, WorkTypes, outside, Enter, Places
    <3>3. Chosen(p)'
      BY <2>4, <3>2
         DEF LookForShim, WorkTypes, outside, Enter, At, Chosen, Working, Places, Listed
    <3>4. QED BY <3>1, <3>2, <3>3
  <2>5. CASE EnsureShim(p)
    <3>1. HostTypes'
      BY <2>5, DeleteTypes DEF EnsureShim, HostTypes
    <3>2. WorldTypes'
      BY <1>f, <2>5 DEF EnsureShim, WorldTypes, world, fixed
    <3>3. CASE End(p) BY <3>1, <3>2, <3>3
    <3>4. CASE ~End(p)
      BY <2>5, <3>1, <3>2, <3>4
         DEF EnsureShim, WorkTypes, Enter, Places, Chosen, Working, Listed, At, work
    <3>5. QED BY <3>3, <3>4
  <2>6. CASE AddLink(p)
    <3>1. HostTypes'
      BY <2>6 DEF AddLink, HostTypes, Chosen, Working, Places, At
    <3>2. WorldTypes'
      BY <1>f, <2>6 DEF AddLink, WorldTypes, world, fixed
    <3>3. CASE End(p) BY <3>1, <3>2, <3>3
    <3>4. CASE ~End(p)
      BY <2>6, <3>1, <3>2, <3>4
         DEF AddLink, WorkTypes, Enter, Places, Chosen, Working, Listed, At, work
    <3>5. QED BY <3>3, <3>4
  <2>7. CASE Isolate(p)
    <3>0. parent[p] \in Wired /\ Shim \in Wired \cup {Shim}
      BY <2>7 DEF Isolate, Chosen, Working, Places
    <3>1. HostTypes'
      BY <2>7, <3>0, RestoredTypes DEF Isolate, HostTypes
    <3>2. WorldTypes'
      BY <1>f, <2>7 DEF Isolate, WorldTypes, world, fixed
    <3>3. CASE End(p) BY <3>1, <3>2, <3>3
    <3>4. CASE ~End(p)
      <4>0. PICK k \in {parent[p], Shim} :
              \/ saved' = saved
              \/ saved' = [saved EXCEPT ![p] = [set |-> saved[p].set \cup {k},
                                              was |-> saved[p].was \cup ({k} \cap isolated)]]
        BY <2>7, <3>4 DEF Isolate
      <4>1. place'[p] \in {"isolate2", "addr", "up"}
            /\ (place'[p] = "addr" => family[p] = 4)
            /\ place' = [place EXCEPT ![p] = place'[p]]
        BY <2>7, <3>4 DEF Isolate, Enter, At, WorkTypes
      <4>2. UNCHANGED <<subject, family, targets, parent, pick, created, todo, before>>
        BY <2>7, <3>4 DEF Isolate
      <4>3. WorkTypes'
        <5>1. [set |-> saved[p].set \cup {k}, was |-> saved[p].was \cup ({k} \cap isolated)]
                \in Settings
          BY <3>0, <4>0 DEF WorkTypes, Settings
        <5>2. saved' \in [Procs -> Settings]
          BY <4>0, <5>1 DEF WorkTypes
        <5>3. place' \in [Procs -> Places]
          BY <4>1 DEF WorkTypes, Places
        <5>4. QED BY <4>2, <5>2, <5>3 DEF WorkTypes
      <4>4. Chosen(p)'
        BY <2>7, <4>1, <4>2, <4>3 DEF Isolate, WorkTypes, Chosen, Working, Listed, Places
      <4>5. QED BY <3>1, <3>2, <4>3, <4>4
    <3>5. QED BY <3>3, <3>4
  <2>8. CASE SetAddress(p)
    <3>1. HostTypes'
      <4>1. CASE family[p] = 4
        <5>1. pick[p] \in LAN
          BY <2>8, <4>1 DEF SetAddress, Chosen, Working, Places, At
        <5>2. Append(addrs, pick[p]) \in Seq(LAN)
          BY <5>1 DEF HostTypes
        <5>3. QED BY <2>8, <5>2 DEF SetAddress, HostTypes
      <4>2. QED BY <2>8, <4>1 DEF SetAddress, Chosen, At
    <3>2. WorldTypes'
      BY <1>f, <2>8 DEF SetAddress, WorldTypes, world, fixed
    <3>3. QED
      BY <2>8, <3>1, <3>2
         DEF SetAddress, Abort, WorkTypes, Enter, Places, Chosen, Working, Listed, At, work
  <2>9. CASE LinkUp(p)
    <3>1. HostTypes' /\ WorldTypes'
      BY <1>f, <2>9 DEF LinkUp, Abort, HostTypes, WorldTypes, world, fixed
    <3>2. QED
      <4>1. WorkTypes'
        <5>1. CASE Abort(p) BY <5>1 DEF Abort, Places
        <5>2. CASE ~Abort(p)
          <6>1. todo' \in [Procs -> SUBSET Containers]
            <7>1. PICK T \in SUBSET Containers : todo' = [todo EXCEPT ![p] = T]
              BY <2>9, <5>2 DEF LinkUp, Listed, ListedSix
            <7>2. QED BY <7>1 DEF WorkTypes
          <6>2. QED BY <2>9, <5>2, <6>1 DEF LinkUp, WorkTypes, Enter, Places
        <5>3. QED BY <5>1, <5>2
      <4>2. Chosen(p)'
        BY <2>9, <4>1
           DEF LinkUp, Abort, WorkTypes, Enter, At, Chosen, Working, Places, Listed, ListedSix, work
      <4>3. QED BY <3>1, <4>1, <4>2
  <2>10. CASE ReplaceRoute(p)
    <3>0. Address(p) \in Addresses \X {4, 6}
      BY <2>10, AddressType DEF ReplaceRoute, Chosen
    <3>1. HostTypes' /\ WorldTypes'
      BY <1>f, <2>10, <3>0 DEF ReplaceRoute, Abort, HostTypes, WorldTypes, world, fixed
    <3>2. QED
      BY <2>10, <3>1
         DEF ReplaceRoute, Abort, WorkTypes, Enter, Places, Chosen, Working, Listed, At, work
  <2>11. CASE ReplaceNeighbour(p)
    <3>0. Target(p) \in Containers /\ Address(p) \in Addresses \X {4, 6}
      BY <2>11, AddressType DEF ReplaceNeighbour, Chosen, At, WorkTypes
    <3>1. HostTypes' /\ WorldTypes'
      BY <1>f, <2>11, <3>0 DEF ReplaceNeighbour, HostTypes, WorldTypes, world, fixed
    <3>2. WorkTypes'
      <4>1. CASE Abort(p) BY <4>1 DEF Abort, Places
      <4>2. CASE ~Abort(p)
        <5>1. todo' \in [Procs -> SUBSET Containers]
          <6>1. todo[p] \ {Target(p)} \in SUBSET Containers
            BY DEF WorkTypes
          <6>2. todo' = [todo EXCEPT ![p] = todo[p] \ {Target(p)}]
            BY <2>11, <4>2 DEF ReplaceNeighbour
          <6>3. QED BY <6>1, <6>2 DEF WorkTypes
        <5>2. QED BY <2>11, <4>2, <5>1 DEF ReplaceNeighbour, WorkTypes, Enter, Places
      <4>3. QED BY <4>1, <4>2
    <3>3. Chosen(p)'
      BY <2>11, <3>2
         DEF ReplaceNeighbour, Abort, WorkTypes, Enter, At, Chosen, Working, Places, Listed, work
    <3>4. QED BY <3>1, <3>2, <3>3
  <2>12. CASE RemoveLegacyShim(p)
    <3>1. HostTypes' /\ WorldTypes'
      BY <2>12 DEF RemoveLegacyShim, HostTypes, WorldTypes, world, fixed
    <3>2. QED BY <2>12, <3>1 DEF RemoveLegacyShim
  <2>13. CASE Undo(p)
    <3>1. HostTypes' /\ WorldTypes'
      BY <2>13, RestoredTypes DEF Undo, HostTypes, WorldTypes, world, fixed
    <3>2. QED
      BY <2>13, <3>1
         DEF Undo, WorkTypes, Enter, Places, Chosen, Working, Listed, At, work
  <2>14. CASE UndoLink(p)
    <3>1. HostTypes'
      BY <2>14, DeleteTypes DEF UndoLink, HostTypes
    <3>2. WorldTypes'
      BY <2>14 DEF UndoLink, WorldTypes, world, fixed
    <3>3. QED BY <2>14, <3>1, <3>2 DEF UndoLink
  <2>15. CASE Unroute(p)
    <3>1. HostTypes' /\ WorldTypes'
      BY <1>f, <2>15 DEF Unroute, HostTypes, WorldTypes, world, fixed
    <3>2. QED BY <2>15, <3>1 DEF Unroute
  <2>16. QED BY <1>1, <2>1, <2>2, <2>3, <2>4, <2>5, <2>6, <2>7, <2>8, <2>9, <2>10, <2>11,
                <2>12, <2>13, <2>14, <2>15 DEF Configure
<1>2. ASSUME NEW p \in Procs, NEW c \in Containers, Launch(p, c)
      PROVE  HostTypes' /\ WorkTypes' /\ WorldTypes' /\ \A q \in Procs : Chosen(q)'
  <2>0. Others(p) BY <1>2, StepOthers
  <2>1. HostTypes' BY <1>2 DEF Launch, HostTypes
  <2>2. WorldTypes'
    <3>1. nic' \in [Containers -> Uplinks \cup {Managed, None}]
      BY <1>2 DEF Launch, WorldTypes
    <3>2. PICK a \in IF nic'[c] = Managed THEN {c} ELSE Leases \ InUse :
             addr' = [addr EXCEPT ![c] = a]
      BY <1>2 DEF Launch
    <3>3. a \in Addresses
      BY <3>2, HostBridgeAssumption DEF Addresses
    <3>4. QED BY <1>2, <3>1, <3>2, <3>3 DEF Launch, WorldTypes, fixed
  <2>3. WorkTypes' BY <1>2 DEF Launch, WorkTypes, Enter, Places
  <2>4. Chosen(p)'
    BY <1>2 DEF Launch, MayBegin, At, WorkTypes, Enter, Chosen, Working, Listed
  <2>5. QED BY <2>0, <2>1, <2>2, <2>3, <2>4, ChosenOthers
<1>3. ASSUME NEW p \in Procs, NEW c \in Containers, Stop(p, c)
      PROVE  HostTypes' /\ WorkTypes' /\ WorldTypes' /\ \A q \in Procs : Chosen(q)'
  <2>0. Others(p) BY <1>3, StepOthers
  <2>1. HostTypes' /\ WorldTypes'
    BY <1>3 DEF Stop, HostTypes, WorldTypes, host, fixed
  <2>3. WorkTypes' BY <1>3 DEF Stop, WorkTypes, WorldTypes, Enter, Places
  <2>4. Chosen(p)'
    BY <1>3 DEF Stop, MayBegin, At, WorkTypes, Enter, Chosen, Working, Listed
  <2>5. QED BY <2>0, <2>1, <2>3, <2>4, ChosenOthers
<1>4. ASSUME NEW c \in Containers, PowerOff(c)
      PROVE  HostTypes' /\ WorkTypes' /\ WorldTypes' /\ \A q \in Procs : Chosen(q)'
  BY <1>4 DEF PowerOff, HostTypes, WorkTypes, WorldTypes, Chosen, Listed, host, work, fixed
<1>5. CASE MoveUplink
  BY <1>5, HostBridgeAssumption
     DEF MoveUplink, HostTypes, WorkTypes, WorldTypes, Chosen, Listed, host, work, fixed
<1>6. CASE UNCHANGED bridgeVars
  BY <1>6 DEF bridgeVars, HostTypes, WorkTypes, WorldTypes, Chosen, Listed, host, work, fixed, world
<1>7. QED BY <1>1, <1>2, <1>3, <1>4, <1>5, <1>6 DEF BridgeNext

LEMMA TypeInit == BridgeInit => BridgeTypeInv
<1> SUFFICES ASSUME BridgeInit PROVE BridgeTypeInv
  OBVIOUS
<1>1. <<>> \in Seq(LAN)
  OBVIOUS
<1>2. BridgeTypeOK
  <2>1. HostTypes
    BY <1>1 DEF BridgeInit, HostTypes
  <2>2. WorkTypes
    BY Constants DEF BridgeInit, WorkTypes, Places
  <2>3. WorldTypes
    BY Constants, HostBridgeAssumption DEF BridgeInit, WorldTypes
  <2>4. QED BY <2>1, <2>2, <2>3, Parts
<1>3. ASSUME NEW p \in Procs PROVE Chosen(p)
  BY DEF BridgeInit, Chosen, Working
<1>4. QED BY <1>2, <1>3 DEF BridgeTypeInv

-----------------------------------------------------------------------------
(* Reachability.  Most steps only add to the host (Grows), which disturbs   *)
(* nobody.  What takes something away - a rollback, a stop, the deletion of *)
(* another parent's shim - happens only while one command runs alone, and   *)
(* then it takes nothing a reached container needs (Spares).                *)

First == CHOOSE q \in Procs : TRUE

\* Either commands overlap or one process runs them all; a command that is over
\* has nothing to undo.
ModeInv ==
  /\ ~concurrent => \A p \in Procs : place[p] # "idle" => p = First
  /\ concurrent => /\ faults = 0 /\ moves = 0
                   /\ \A p \in Procs : place[p] \notin {"undo", "undo2", "unroute"}
  /\ \A p \in Procs : place[p] = "idle" => saved[p] = Unsaved /\ ~created[p]

\* No two containers have one address.
AddrInv ==
  /\ \A c \in Containers : nic[c] \in Wired \cup {Managed, None}
  /\ \A c \in Containers : addr[c] \in Leases \cup {c, None}
  /\ \A c, d \in Containers : addr[c] # None /\ addr[c] = addr[d] => c = d

LinkInv ==
  /\ link = None => addrs = <<>> /\ ~up /\ Shim \notin isolated
  /\ concurrent => link \in {None, uplink}

\* What a command has listed is still so, but for containers that have stopped.
Knows(p) ==
  place[p] \notin {"idle", "list", "unroute"} =>
    /\ \A c, d \in Containers : targets[p][c] # None /\ targets[p][c] = targets[p][d] => c = d
    /\ concurrent => \A c \in Listed(p) : addr[c] = targets[p][c]
    /\ ~concurrent => \A c \in Containers : addr[c] # None => addr[c] = targets[p][c]
    /\ before[p].moves <= moves
    /\ Steady(p) /\ place[p] # "parent" => parent[p] = uplink
    /\ ~Steady(p) => reached = {}

\* What a command has done to the shim, and nobody has undone.
Linked == {"isolate", "isolate2", "addr", "up", "route", "neigh", "undo", "undo2"}
Holds(p) ==
  /\ place[p] \in Linked => link = parent[p]
  /\ ~concurrent /\ place[p] = "add" => link = None
  /\ place[p] \in {"isolate2", "addr", "up", "route", "neigh"} => parent[p] \in isolated
  /\ place[p] \in {"addr", "up", "route", "neigh"} => Shim \in isolated
  /\ place[p] \in {"up", "route", "neigh"} /\ family[p] = 4 => pick[p] \in ToSet(addrs)
  /\ place[p] \in {"route", "neigh"} => up

\* What it has routed.
Routes(p) ==
  place[p] \in {"route", "neigh"} =>
    /\ family[p] = 4 => \A c \in Listed(p) \ todo[p] : Routed(<<targets[p][c], 4>>, c)
    /\ family[p] = 6 => /\ todo[p] \subseteq Six
                        /\ \A c \in ListedSix(p) \ todo[p] : Routed(<<c, 6>>, c)
    /\ place[p] = "neigh" => Address(p) \in routes

Serving == link = uplink /\ up /\ {uplink, Shim} \subseteq isolated

\* In its second half it relies on what the first one did.
HalfWay(p) ==
  family[p] = 6 /\ place[p] \notin {"idle", "list", "unroute", "undo", "undo2"}
    /\ Steady(p) /\ uplink \in Wired =>
    Serving /\ \A c \in Listed(p) : Routed(<<targets[p][c], 4>>, c)

\* A command that runs alone undoes nothing a reached container needs.
NoneHere == \A c \in reached : nic[c] # uplink
Spares(p) ==
  /\ ~concurrent /\ (saved[p].set \ saved[p].was) \cap {uplink, Shim} # {} => NoneHere
  /\ ~concurrent /\ created[p] => NoneHere
  /\ place[p] = "unroute" => \A c \in reached : addr[c] # pick[p] /\ c # subject[p]

Reached ==
  \A c \in reached : /\ addr[c] # None
                     /\ nic[c] = uplink => /\ Serving
                                           /\ Routed(<<addr[c], 4>>, c)
                                           /\ c \in Six => Routed(<<c, 6>>, c)

Standing(p) == Knows(p) /\ Holds(p) /\ Routes(p) /\ HalfWay(p) /\ Spares(p)
ReachInv == ModeInv /\ AddrInv /\ LinkInv /\ Reached /\ \A p \in Procs : Standing(p)

\* A step that takes nothing from the host and changes no neighbour that is right.
Grows ==
  /\ UNCHANGED <<concurrent, uplink, nic, addr, moves>>
  /\ link # None => link' = link
  /\ up => up'
  /\ ToSet(addrs) \subseteq ToSet(addrs')
  /\ isolated \subseteq isolated' /\ routes \subseteq routes'
  /\ \A c \in Containers : neigh[<<c, 6>>] = c => neigh'[<<c, 6>>] = c
  /\ \A c \in Containers :
       addr[c] # None /\ neigh[<<addr[c], 4>>] = c => neigh'[<<addr[c], 4>>] = c

\* A command that is over knows nothing and owes nothing.
LEMMA IdleStanding ==
  ASSUME NEW p \in Procs, place[p] = "idle", saved[p] = Unsaved, ~created[p]
  PROVE  Standing(p)
BY DEF Standing, Knows, Holds, Linked, Routes, HalfWay, Spares, Unsaved

\* What was reached before such a step is so after it.
LEMMA GrowsReached ==
  ASSUME BridgeTypeInv, ReachInv, Grows, reached' \subseteq reached
  PROVE  Reached'
<1>1. reached \subseteq Containers
  BY DEF BridgeTypeInv, BridgeTypeOK
<1>2. None \notin Uplinks /\ uplink \in Uplinks
  BY HostBridgeAssumption DEF BridgeTypeInv, BridgeTypeOK
<1>3. QED BY <1>1, <1>2 DEF ReachInv, Reached, Grows, Serving, Routed

LEMMA GrowsAddr ==
  ASSUME AddrInv, Grows
  PROVE  AddrInv'
BY DEF AddrInv, Grows

\* In behaviours with overlapping commands such a step leaves the others what
\* they know; otherwise the others are idle.
LEMMA OthersStand ==
  ASSUME BridgeTypeInv, ReachInv, NEW p \in Procs, Others(p), concurrent' = concurrent,
         concurrent => Grows, ~concurrent => p = First
  PROVE  \A q \in Procs \ {p} : Standing(q)'
<1> SUFFICES ASSUME NEW q \in Procs \ {p} PROVE Standing(q)'
  OBVIOUS
<1>0. UNCHANGED <<place[q], subject[q], family[q], targets[q], parent[q], pick[q],
                  created[q], saved[q], todo[q], before[q]>>
  BY DEF Others, Locals
<1>1. CASE ~concurrent
  <2>1. place[q] = "idle"
    BY <1>1 DEF ReachInv, ModeInv
  <2>2. saved[q] = Unsaved /\ ~created[q]
    BY <2>1 DEF ReachInv, ModeInv
  <2>3. place'[q] = "idle" /\ saved'[q] = Unsaved /\ ~created'[q]
    BY <1>0, <2>1, <2>2
  <2>4. QED BY <2>3 DEF Standing, Knows, Holds, Linked, Routes, HalfWay, Spares, Unsaved
<1>2. CASE concurrent
  <2> USE <1>0, <1>2
  <2>0. Grows
    OBVIOUS
  <2>1. Standing(q) /\ place[q] \notin {"undo", "undo2", "unroute"} /\ moves = 0
    BY DEF ReachInv, ModeInv
  <2>2. moves' = 0 /\ before[q].moves \in Nat
    BY <2>0, <2>1, HostBridgeAssumption DEF Grows, BridgeTypeInv, BridgeTypeOK
  <2>3. Knows(q)'
    BY <2>0, <2>1, <2>2 DEF Standing, Knows, Listed, Steady, Grows
  <2>4. Holds(q)'
    <3>1. link \in {None, uplink}
      BY DEF ReachInv, LinkInv
    <3>2. parent[q] # None \/ place[q] \notin Linked
      BY HostBridgeAssumption DEF BridgeTypeInv, Chosen, Working, Linked, Places, Uplinks
    <3>3. QED BY <2>0, <2>1, <3>1, <3>2 DEF Standing, Holds, Linked, Grows
  <2>5. Address(q)' = Address(q) /\ Listed(q)' = Listed(q) /\ ListedSix(q)' = ListedSix(q)
    BY DEF Address, Target, Listed, ListedSix
  <2>6. Routes(q)'
    BY <2>0, <2>1, <2>5 DEF Standing, Knows, Routes, Routed, Grows, Listed, ListedSix
  <2>7. HalfWay(q)'
    <3>1. None # uplink
      BY HostBridgeAssumption DEF BridgeTypeInv, BridgeTypeOK
    <3>2. QED
      BY <2>0, <2>1, <2>5, <3>1
         DEF Standing, Knows, HalfWay, Serving, Steady, Routed, Grows, Listed
  <2>8. Spares(q)'
    BY <2>1 DEF Spares
  <2>9. QED BY <2>3, <2>4, <2>6, <2>7, <2>8 DEF Standing
<1>3. QED BY <1>1, <1>2

\* What is left to show of a step of one command.
LEMMA Conclude ==
  ASSUME BridgeTypeInv, ReachInv, NEW p \in Procs, Others(p), concurrent' = concurrent,
         concurrent => Grows, ~concurrent => p = First,
         concurrent => faults' = 0 /\ moves' = 0 /\ place'[p] \notin {"undo", "undo2", "unroute"},
         place'[p] = "idle" => saved'[p] = Unsaved /\ ~created'[p],
         Standing(p)', LinkInv', AddrInv', Reached'
  PROVE  ReachInv'
<1>1. \A q \in Procs : Standing(q)'
  BY OthersStand
<1>2. ModeInv'
  <2>1. \A q \in Procs \ {p} : /\ place'[q] = place[q] /\ saved'[q] = saved[q]
                               /\ created'[q] = created[q]
    BY DEF Others, Locals
  <2>2. QED BY <2>1 DEF ReachInv, ModeInv, First
<1>3. QED BY <1>1, <1>2 DEF ReachInv

\* A command that acts is the only one, unless commands overlap.
LEMMA Alone ==
  ASSUME ReachInv, NEW p \in Procs, place[p] # "idle"
  PROVE  ~concurrent => p = First
BY DEF ReachInv, ModeInv

LEMMA EndStanding ==
  ASSUME BridgeTypeInv, NEW p \in Procs, End(p)
  PROVE  /\ place'[p] = "idle" /\ saved'[p] = Unsaved /\ ~created'[p]
         /\ Standing(p)'
<1>1. place'[p] = "idle" /\ saved'[p] = Unsaved /\ ~created'[p]
  BY DEF End, Enter, BridgeTypeInv, BridgeTypeOK
<1>2. QED BY <1>1 DEF Standing, Knows, Holds, Linked, Routes, HalfWay, Spares, Unsaved

\* A step that leaves host, world and history alone and ends the command.
LEMMA QuietEnd ==
  ASSUME BridgeTypeInv, ReachInv, NEW p \in Procs, place[p] # "idle", End(p), Others(p),
         UNCHANGED <<fixed, world, reached, moves, link, addrs, up, isolated, routes, neigh>>,
         Fault \/ UNCHANGED faults
  PROVE  ReachInv'
<1>1. concurrent' = concurrent /\ Grows
  BY DEF fixed, world, Grows
<1>2. Reached' /\ AddrInv'
  BY <1>1, GrowsReached, GrowsAddr DEF ReachInv
<1>3. LinkInv'
  BY DEF ReachInv, LinkInv, fixed, world
<1>4. concurrent => faults' = 0 /\ moves' = 0
  BY DEF ReachInv, ModeInv, Fault
<1>5. QED BY <1>1, <1>2, <1>3, <1>4, EndStanding, Alone, Conclude

LEMMA ListReach ==
  ASSUME BridgeTypeInv, ReachInv, NEW p \in Procs, List(p)
  PROVE  ReachInv'
<1>0. Others(p) /\ place[p] = "list" /\ Standing(p) /\ Chosen(p)
  BY StepOthers, Parts DEF BridgeTypeInv, Configure, List, At, ReachInv
<1>1. CASE End(p)
  BY <1>0, <1>1, QuietEnd DEF List, host
<1>2. CASE ~End(p)
  <2>1. /\ targets'[p] = addr /\ place'[p] = "parent" /\ before'[p].moves = moves
        /\ UNCHANGED <<subject, family, parent, pick, created, saved, todo, faults>>
        /\ UNCHANGED <<fixed, world, host, reached, moves>>
    BY <1>2 DEF List, Enter, BridgeTypeInv, BridgeTypeOK
  <2>2. concurrent' = concurrent /\ Grows
    BY <2>1 DEF fixed, world, host, Grows
  <2>3. Reached' /\ AddrInv' /\ LinkInv'
    BY <2>1, <2>2, GrowsReached, GrowsAddr DEF ReachInv, LinkInv, fixed, world, host
  <2>4. Knows(p)'
    BY <2>1, HostBridgeAssumption
       DEF Knows, ReachInv, AddrInv, fixed, world, Listed, Steady, BridgeTypeInv, BridgeTypeOK
  <2>5. Holds(p)' /\ Routes(p)' /\ HalfWay(p)'
    BY <1>0, <2>1 DEF Holds, Linked, Routes, HalfWay, Chosen
  <2>6. Spares(p)'
    BY <1>0, <2>1 DEF Standing, Spares, NoneHere, fixed, world
  <2>7. QED BY <1>0, <2>1, <2>2, <2>3, <2>4, <2>5, <2>6, Alone, Conclude
            DEF Standing, ReachInv, ModeInv
<1>3. QED BY <1>1, <1>2

\* Behind a Wi-Fi uplink a call succeeds at once, and its containers are not on
\* the uplink.
LEMMA FindParentReach ==
  ASSUME BridgeTypeInv, ReachInv, NEW p \in Procs, FindParent(p)
  PROVE  ReachInv'
<1>0. Others(p) /\ place[p] = "parent" /\ Standing(p) /\ Chosen(p)
  BY StepOthers, Parts DEF BridgeTypeInv, Configure, FindParent, At, ReachInv
<1>1. /\ UNCHANGED <<fixed, world, host, moves>> /\ concurrent' = concurrent /\ Grows
  BY DEF FindParent, fixed, world, host, Grows
<1>2. AddrInv' /\ LinkInv'
  BY <1>1, GrowsAddr DEF ReachInv, LinkInv, fixed, world, host
<1>3. \A c \in reached' : c \in Containers
  BY <1>1, Parts, HalfTypes DEF FindParent, BridgeTypeInv, BridgeTypeOK, Listed, Succeed, HalfDone
<1>4. CASE uplink \in Wireless /\ HalfDone(p) /\ UNCHANGED faults
  <2>1. \A c \in Containers : nic[c] # uplink
    BY <1>4, HostBridgeAssumption DEF ReachInv, AddrInv, Uplinks
  <2>2. CASE Succeed(p)
    <3>1. \A c \in reached' : addr[c] # None
      BY <2>2 DEF Succeed, Listed, ReachInv, Reached
    <3>2. Reached'
      BY <1>1, <1>3, <2>1, <3>1 DEF Reached, world
    <3>3. QED
      BY <1>0, <1>1, <1>2, <1>4, <2>2, <3>2, EndStanding, Alone, Conclude
         DEF Succeed, ReachInv, ModeInv
  <2>3. CASE ~Succeed(p)
    <3>1. /\ place'[p] = "parent" /\ family'[p] = 6 /\ saved'[p] = Unsaved
          /\ UNCHANGED <<subject, targets, parent, pick, created, todo, before, reached>>
      BY <1>4, <2>3 DEF HalfDone, Enter, BridgeTypeInv, BridgeTypeOK
    <3>2. Reached'
      BY <1>1, <3>1, GrowsReached
    <3>3. Knows(p)'
      BY <1>0, <1>1, <3>1 DEF Standing, Knows, Listed, Steady, fixed, world
    <3>4. Holds(p)' /\ Routes(p)'
      BY <3>1 DEF Holds, Linked, Routes
    <3>5. HalfWay(p)'
      BY <1>1, <1>4, HostBridgeAssumption DEF HalfWay, world
    <3>6. Spares(p)'
      BY <1>0, <1>1, <3>1 DEF Standing, Spares, NoneHere, fixed, world, Unsaved
    <3>7. QED BY <1>0, <1>1, <1>2, <1>4, <3>1, <3>2, <3>3, <3>4, <3>5, <3>6, Alone, Conclude
              DEF Standing, ReachInv, ModeInv
  <2>4. QED BY <2>2, <2>3
<1>5. CASE Fault /\ End(p) /\ UNCHANGED reached
  BY <1>0, <1>1, <1>5, QuietEnd DEF host
<1>6. CASE /\ uplink \in Wired
            /\ Enter(p, IF family[p] = 4 THEN "address" ELSE "exists")
            /\ parent' = [parent EXCEPT ![p] = uplink]
            /\ before' = [before EXCEPT ![p] = [@ EXCEPT !.link = link, !.isolated = isolated]]
            /\ UNCHANGED <<subject, family, targets, pick, created, saved, todo, reached, faults>>
  <2>1. /\ place'[p] = IF family[p] = 4 THEN "address" ELSE "exists"
        /\ parent'[p] = uplink /\ before'[p].moves = before[p].moves
        /\ UNCHANGED <<subject, family, targets, pick, created, saved, todo, reached, faults>>
    BY <1>6 DEF Enter, BridgeTypeInv, BridgeTypeOK
  <2>2. Reached'
    BY <1>1, <2>1, GrowsReached
  <2>3. Knows(p)'
    BY <1>0, <1>1, <2>1 DEF Standing, Knows, Listed, Steady, fixed, world
  <2>4. Holds(p)' /\ Routes(p)'
    BY <2>1 DEF Holds, Linked, Routes
  <2>5. HalfWay(p)'
    BY <1>0, <1>1, <2>1 DEF Standing, HalfWay, Steady, Serving, Routed, Listed, fixed, world, host
  <2>6. Spares(p)'
    BY <1>0, <1>1, <2>1 DEF Standing, Spares, NoneHere, fixed, world
  <2>7. QED BY <1>0, <1>1, <1>2, <2>1, <2>2, <2>3, <2>4, <2>5, <2>6, Alone, Conclude
            DEF Standing, ReachInv, ModeInv
<1>7. QED BY <1>4, <1>5, <1>6 DEF FindParent

LEMMA ChooseAddressReach ==
  ASSUME BridgeTypeInv, ReachInv, NEW p \in Procs, ChooseAddress(p)
  PROVE  ReachInv'
<1>0. Others(p) /\ place[p] = "address" /\ Standing(p) /\ Chosen(p)
  BY StepOthers, Parts DEF BridgeTypeInv, Configure, ChooseAddress, At, ReachInv
<1>1. CASE End(p)
  BY <1>0, <1>1, QuietEnd DEF ChooseAddress, host
<1>2. CASE ~End(p)
  <2>1. /\ place'[p] = "exists" /\ family[p] = 4
        /\ UNCHANGED <<subject, family, targets, parent, created, saved, todo, before>>
        /\ UNCHANGED <<fixed, world, host, reached, faults, moves>>
    BY <1>0, <1>2 DEF ChooseAddress, Enter, BridgeTypeInv, BridgeTypeOK, Chosen
  <2>2. concurrent' = concurrent /\ Grows
    BY <2>1 DEF fixed, world, host, Grows
  <2>3. Reached' /\ AddrInv' /\ LinkInv'
    BY <2>1, <2>2, GrowsReached, GrowsAddr DEF ReachInv, LinkInv, fixed, world, host
  <2>4. Knows(p)'
    BY <1>0, <2>1 DEF Standing, Knows, Listed, Steady, fixed, world
  <2>5. Holds(p)' /\ Routes(p)' /\ HalfWay(p)'
    BY <2>1 DEF Holds, Linked, Routes, HalfWay
  <2>6. Spares(p)'
    BY <1>0, <2>1 DEF Standing, Spares, NoneHere, fixed, world
  <2>7. QED BY <1>0, <2>1, <2>2, <2>3, <2>4, <2>5, <2>6, Alone, Conclude
            DEF Standing, ReachInv, ModeInv
<1>3. QED BY <1>1, <1>2

LEMMA LookForShimReach ==
  ASSUME BridgeTypeInv, ReachInv, NEW p \in Procs, LookForShim(p)
  PROVE  ReachInv'
<1>0. Others(p) /\ place[p] = "exists" /\ Standing(p)
  BY StepOthers, Parts DEF BridgeTypeInv, Configure, LookForShim, At, ReachInv
<1>1. /\ place'[p] = "ensure" /\ created'[p] = (link = None)
      /\ UNCHANGED <<subject, family, targets, parent, pick, saved, todo, before>>
      /\ UNCHANGED <<fixed, world, host, reached, faults, moves>>
  BY DEF LookForShim, outside, host, Enter, BridgeTypeInv, BridgeTypeOK
<1>2. concurrent' = concurrent /\ Grows
  BY <1>1 DEF fixed, world, host, Grows
<1>3. Reached' /\ AddrInv' /\ LinkInv'
  BY <1>1, <1>2, GrowsReached, GrowsAddr DEF ReachInv, LinkInv, fixed, world, host
<1>4. Knows(p)'
  BY <1>0, <1>1 DEF Standing, Knows, Listed, Steady, fixed, world
<1>5. Holds(p)' /\ Routes(p)'
  BY <1>1 DEF Holds, Linked, Routes
<1>6. HalfWay(p)'
  BY <1>0, <1>1 DEF Standing, HalfWay, Steady, Serving, Routed, Listed, fixed, world, host
<1>7. Spares(p)'
  <2>1. link = None => NoneHere
    <3>1. uplink # None
      BY HostBridgeAssumption DEF BridgeTypeInv, BridgeTypeOK
    <3>2. QED BY <3>1 DEF ReachInv, Reached, Serving, NoneHere
  <2>2. QED BY <1>0, <1>1, <2>1 DEF Standing, Spares, NoneHere, fixed, world
<1>8. QED BY <1>0, <1>1, <1>2, <1>3, <1>4, <1>5, <1>6, <1>7, Alone, Conclude
          DEF Standing, ReachInv, ModeInv

\* What a command knows outlasts its steps on the host.
LEMMA KnowsOn ==
  ASSUME NEW p \in Procs, Knows(p), place[p] \notin {"idle", "list", "parent", "unroute"},
         UNCHANGED <<concurrent, addr, uplink, moves, reached, targets, before, parent>>
  PROVE  Knows(p)'
BY DEF Knows, Listed, Steady

\* Nothing on the uplink is reached through a shim that another parent has.
LEMMA ElsewhereNone ==
  ASSUME BridgeTypeInv, ReachInv, NEW p \in Procs, Knows(p), link # parent[p],
         place[p] \notin {"idle", "list", "parent", "unroute"}
  PROVE  NoneHere
<1>1. CASE Steady(p)
  BY <1>1 DEF Knows, ReachInv, Reached, Serving, NoneHere
<1>2. CASE ~Steady(p)
  BY <1>2 DEF Knows, NoneHere
<1>3. QED BY <1>1, <1>2

LEMMA EnsureShimReach ==
  ASSUME BridgeTypeInv, ReachInv, NEW p \in Procs, EnsureShim(p)
  PROVE  ReachInv'
<1>0. Others(p) /\ place[p] = "ensure" /\ Standing(p) /\ Chosen(p)
  BY StepOthers, Parts DEF BridgeTypeInv, Configure, EnsureShim, At, ReachInv
<1>p. Knows(p)
  BY <1>0 DEF Standing
<1>1. CASE Fault /\ End(p) /\ UNCHANGED <<link, addrs, up, isolated, routes, neigh>>
  BY <1>0, <1>1, QuietEnd DEF EnsureShim
<1>2. ASSUME NEW s \in {"isolate", "add"}, Enter(p, s), UNCHANGED <<work, faults>>,
             UNCHANGED <<link, addrs, up, isolated, routes, neigh>>,
             s = "isolate" => link = parent[p], s = "add" => link = None
      PROVE  ReachInv'
  <2>1. place'[p] = s /\ UNCHANGED <<work, faults, fixed, world, host, reached, moves>>
    BY <1>2 DEF EnsureShim, Enter, host, BridgeTypeInv, BridgeTypeOK
  <2>2. concurrent' = concurrent /\ Grows
    BY <2>1 DEF fixed, world, host, Grows
  <2>3. Reached' /\ AddrInv' /\ LinkInv'
    BY <2>1, <2>2, GrowsReached, GrowsAddr DEF ReachInv, LinkInv, fixed, world, host
  <2>4. Knows(p)'
    BY <1>0, <1>p, <2>1, KnowsOn DEF fixed, world, work
  <2>5. Holds(p)' /\ Routes(p)'
    BY <1>2, <2>1 DEF Holds, Linked, Routes, work
  <2>6. HalfWay(p)'
    BY <1>0, <2>1 DEF Standing, HalfWay, Steady, Serving, Routed, Listed, fixed, world, host, work
  <2>7. Spares(p)'
    BY <1>0, <2>1 DEF Standing, Spares, NoneHere, fixed, world, work
  <2>8. QED BY <1>0, <2>1, <2>2, <2>3, <2>4, <2>5, <2>6, <2>7, Alone, Conclude
            DEF Standing, ReachInv, ModeInv, work
<1>3. CASE link \notin {None, parent[p]} /\ DeleteLink /\ Enter(p, "add") /\ UNCHANGED <<work, faults>>
  <2>1. place'[p] = "add" /\ UNCHANGED <<work, faults, fixed, world, reached, moves>>
    BY <1>3 DEF EnsureShim, Enter, BridgeTypeInv, BridgeTypeOK
  <2>2. NoneHere
    BY <1>0, <1>p, <1>3, ElsewhereNone
  <2>3. ~concurrent
    <3>1. SUFFICES ASSUME concurrent PROVE FALSE
      OBVIOUS
    <3>2. link \in {None, uplink} /\ moves = 0
      BY <3>1 DEF ReachInv, LinkInv, ModeInv
    <3>3. Steady(p)
      BY <1>0, <1>p, <3>2, HostBridgeAssumption DEF Knows, Steady, BridgeTypeInv, BridgeTypeOK
    <3>4. QED BY <1>0, <1>p, <1>3, <3>2, <3>3 DEF Knows
  <2>4. Reached'
    BY <2>1, <2>2 DEF ReachInv, Reached, NoneHere, world, fixed
  <2>5. AddrInv' /\ LinkInv'
    BY <1>3, <2>1, <2>3, HostBridgeAssumption DEF ReachInv, AddrInv, LinkInv, DeleteLink, world, fixed
  <2>6. Knows(p)'
    BY <1>0, <1>p, <2>1, KnowsOn DEF fixed, world, work
  <2>7. Holds(p)' /\ Routes(p)'
    BY <1>3, <2>1 DEF Holds, Linked, Routes, DeleteLink, work
  <2>8. HalfWay(p)'
    BY <1>0, <1>p, <1>3, <2>1 DEF Standing, Knows, HalfWay, Steady, Serving, fixed, world, work
  <2>9. Spares(p)'
    BY <1>0, <2>1, <2>2 DEF Spares, NoneHere, fixed, world
  <2>10. QED BY <1>0, <2>1, <2>3, <2>4, <2>5, <2>6, <2>7, <2>8, <2>9, Alone, Conclude
             DEF Standing, ReachInv, ModeInv, work, fixed
<1>4. QED BY <1>1, <1>2, <1>3 DEF EnsureShim

LEMMA AddLinkReach ==
  ASSUME BridgeTypeInv, ReachInv, NEW p \in Procs, AddLink(p)
  PROVE  ReachInv'
<1>0. Others(p) /\ place[p] = "add" /\ Standing(p) /\ Chosen(p)
  BY StepOthers, Parts DEF BridgeTypeInv, Configure, AddLink, At, ReachInv
<1>p. Knows(p)
  BY <1>0 DEF Standing
<1>1. CASE (Fault \/ UNCHANGED faults) /\ End(p) /\ UNCHANGED link
  BY <1>0, <1>1, QuietEnd DEF AddLink
<1>2. CASE link = None /\ link' = parent[p] /\ Enter(p, "isolate") /\ UNCHANGED <<work, faults>>
  <2>1. /\ place'[p] = "isolate"
        /\ UNCHANGED <<work, faults, fixed, world, addrs, up, isolated, routes, neigh, reached, moves>>
    BY <1>2 DEF AddLink, Enter, BridgeTypeInv, BridgeTypeOK
  <2>2. concurrent' = concurrent /\ Grows
    BY <1>2, <2>1 DEF fixed, world, Grows
  <2>3. parent[p] # None
    BY <1>0, HostBridgeAssumption DEF Chosen, Working, Places, Uplinks
  <2>4. concurrent => parent[p] = uplink
    BY <1>0, <1>p, HostBridgeAssumption
       DEF Knows, Steady, ReachInv, ModeInv, BridgeTypeInv, BridgeTypeOK
  <2>5. Reached' /\ AddrInv'
    BY <2>1, <2>2, GrowsReached, GrowsAddr DEF ReachInv
  <2>6. LinkInv'
    BY <1>2, <2>1, <2>3, <2>4 DEF LinkInv, fixed, world
  <2>7. Knows(p)'
    BY <1>0, <1>p, <2>1, KnowsOn DEF fixed, world, work
  <2>8. Holds(p)' /\ Routes(p)'
    BY <1>2, <2>1 DEF Holds, Linked, Routes, work
  <2>9. HalfWay(p)'
    <3>1. uplink # None
      BY HostBridgeAssumption DEF BridgeTypeInv, BridgeTypeOK
    <3>2. QED BY <1>0, <1>2, <2>1, <3>1 DEF Standing, HalfWay, Steady, Serving, fixed, world, work
  <2>10. Spares(p)'
    BY <1>0, <2>1 DEF Standing, Spares, NoneHere, fixed, world, work
  <2>11. QED BY <1>0, <2>1, <2>2, <2>5, <2>6, <2>7, <2>8, <2>9, <2>10, Alone, Conclude
             DEF Standing, ReachInv, ModeInv, work
<1>3. QED BY <1>1, <1>2 DEF AddLink

\* A command that runs alone and restores the sysctls keeps those in use.
LEMMA RestoredReached ==
  ASSUME BridgeTypeInv, ReachInv, NEW p \in Procs, Spares(p), ~concurrent,
         isolated' = Restored(p),
         UNCHANGED <<fixed, world, reached, moves, link, addrs, up, routes, neigh>>
  PROVE  Reached' /\ AddrInv' /\ LinkInv'
<1>1. Shim \in isolated' => Shim \in isolated \/ link # None
  BY DEF Restored
<1>2. AddrInv' /\ LinkInv'
  BY <1>1 DEF ReachInv, AddrInv, LinkInv, fixed, world
<1>u. UNCHANGED <<uplink, nic, addr, reached, link, up, routes, neigh>>
  BY DEF world
<1>r. Reached
  BY DEF ReachInv
<1>3. CASE NoneHere
  BY <1>2, <1>u, <1>r, <1>3 DEF Reached, NoneHere
<1>4. CASE ~NoneHere
  <2>1. {uplink, Shim} \cap saved[p].set \subseteq saved[p].was
    BY <1>4 DEF Spares
  <2>2. Serving
    BY <1>4 DEF ReachInv, Reached, NoneHere
  <2>3. uplink # None
    BY HostBridgeAssumption DEF BridgeTypeInv, BridgeTypeOK
  <2>4. {uplink, Shim} \subseteq isolated'
    BY <2>1, <2>2, <2>3 DEF Serving, Restored
  <2>5. Serving'
    BY <1>u, <2>2, <2>4 DEF Serving
  <2>6. QED BY <1>2, <1>u, <1>r, <2>5 DEF Reached, Routed
<1>5. QED BY <1>2, <1>3, <1>4

\* From the isolation on, the link is there.
LEMMA LinkThere ==
  ASSUME BridgeTypeInv, ReachInv, NEW p \in Procs, place[p] \in Linked
  PROVE  link = parent[p] /\ link # None
<1>1. parent[p] \in Wired
  BY DEF BridgeTypeInv, Chosen, Working, Linked, Places
<1>2. QED BY <1>1, HostBridgeAssumption DEF ReachInv, Standing, Holds, Uplinks

LEMMA IsolateReach ==
  ASSUME BridgeTypeInv, ReachInv, NEW p \in Procs, Isolate(p)
  PROVE  ReachInv'
<1>0. Others(p) /\ place[p] \in {"isolate", "isolate2"} /\ Standing(p) /\ Chosen(p)
  BY StepOthers, Parts DEF BridgeTypeInv, Configure, Isolate, ReachInv
<1>p. Knows(p) /\ Holds(p)
  BY <1>0 DEF Standing
<1>l. link = parent[p] /\ link # None
  BY <1>0, LinkThere DEF Linked
<1> DEFINE key == IF At(p, "isolate") THEN parent[p] ELSE Shim
<1>1. CASE Fault /\ End(p) /\ UNCHANGED isolated
  BY <1>0, <1>1, QuietEnd DEF Isolate
<1>2. CASE Fault /\ End(p) /\ isolated' = Restored(p)
  <2>1. ~concurrent
    BY <1>2 DEF Fault
  <2>2. UNCHANGED <<fixed, world, link, addrs, up, routes, neigh, legacy, reached, moves>>
    BY DEF Isolate
  <2>3. Spares(p)
    BY <1>0 DEF Standing
  <2>4. Reached' /\ AddrInv' /\ LinkInv'
    BY <1>2, <2>1, <2>2, <2>3, RestoredReached
  <2>5. concurrent' = concurrent
    BY <2>2 DEF fixed
  <2>6. QED BY <1>0, <1>2, <2>1, <2>4, <2>5, EndStanding, Alone, Conclude
<1>3. CASE /\ isolated' = isolated \cup {key}
           /\ saved' = [saved EXCEPT ![p] = [set |-> @.set \cup {key},
                                            was |-> @.was \cup ({key} \cap isolated)]]
           /\ Enter(p, IF At(p, "isolate") THEN "isolate2"
                       ELSE IF family[p] = 4 THEN "addr" ELSE "up")
           /\ UNCHANGED <<subject, family, targets, parent, pick, created, todo, before, faults>>
  <2>1. /\ place'[p] = IF At(p, "isolate") THEN "isolate2"
                       ELSE IF family[p] = 4 THEN "addr" ELSE "up"
        /\ saved'[p].set = saved[p].set \cup {key}
        /\ saved'[p].was = saved[p].was \cup ({key} \cap isolated)
        /\ UNCHANGED <<subject, family, targets, parent, pick, created, todo, before, faults>>
        /\ UNCHANGED <<fixed, world, link, addrs, up, routes, neigh, legacy, reached, moves>>
    BY <1>3 DEF Isolate, Enter, BridgeTypeInv, BridgeTypeOK
  <2>2. concurrent' = concurrent /\ Grows
    BY <1>3, <2>1 DEF fixed, world, Grows
  <2>3. Reached' /\ AddrInv'
    BY <2>1, <2>2, GrowsReached, GrowsAddr
    DEF ReachInv
  <2>4. LinkInv'
    BY <1>l, <2>1 DEF ReachInv, LinkInv, fixed, world
  <2>5. Knows(p)'
    BY <1>0, <1>p, <2>1, KnowsOn DEF fixed, world
  <2>6. Holds(p)' /\ Routes(p)'
    BY <1>0, <1>p, <1>l, <1>3, <2>1 DEF Holds, Linked, Routes, At
  <2>7. HalfWay(p)'
    BY <1>0, <1>3, <2>1
       DEF Standing, HalfWay, Steady, Serving, Routed, Listed, fixed, world, At
  <2>8. Spares(p)'
    <3>1. key \in {uplink, Shim} /\ key \notin isolated => NoneHere
      BY DEF ReachInv, Reached, Serving, NoneHere
    <3> HIDE DEF key
    <3>2. (saved'[p].set \ saved'[p].was) \cap {uplink, Shim} # {} => 
            \/ (saved[p].set \ saved[p].was) \cap {uplink, Shim} # {}
            \/ key \in {uplink, Shim} /\ key \notin isolated
      BY <2>1
    <3>3. place'[p] # "unroute"
      BY <2>1
    <3>4. QED BY <1>0, <2>1, <3>1, <3>2, <3>3 DEF Standing, Spares, NoneHere, fixed, world
  <2>9. QED BY <1>0, <2>1, <2>2, <2>3, <2>4, <2>5, <2>6, <2>7, <2>8, Alone, Conclude
            DEF Standing, ReachInv, ModeInv
<1>4. QED BY <1>1, <1>2, <1>3, <1>l DEF Isolate

\* A command that runs alone and turns to its rollback has taken nothing yet.
LEMMA AbortReach ==
  ASSUME BridgeTypeInv, ReachInv, NEW p \in Procs, Others(p), Abort(p), ~concurrent,
         place[p] \in {"addr", "up", "route", "neigh"}, Grows,
         UNCHANGED <<fixed, world, reached, moves, link, addrs, up, isolated>>
  PROVE  ReachInv'
<1>1. place'[p] = "undo" /\ UNCHANGED work
  BY DEF Abort, Enter, BridgeTypeInv, BridgeTypeOK
<1>2. Reached' /\ AddrInv' /\ LinkInv'
  BY GrowsReached, GrowsAddr DEF ReachInv, LinkInv, fixed, world
<1>3. Standing(p)
  BY DEF ReachInv
<1>4. Knows(p)'
  BY <1>1, <1>3, KnowsOn DEF Standing, fixed, world, work
<1>5. Holds(p)' /\ Routes(p)' /\ HalfWay(p)'
  BY <1>1, <1>3 DEF Standing, Holds, Linked, Routes, HalfWay, work
<1>6. Spares(p)'
  BY <1>1, <1>3 DEF Standing, Spares, NoneHere, fixed, world, work
<1>7. QED BY <1>1, <1>2, <1>4, <1>5, <1>6, Alone, Conclude DEF Standing, fixed

LEMMA SetAddressReach ==
  ASSUME BridgeTypeInv, ReachInv, NEW p \in Procs, SetAddress(p)
  PROVE  ReachInv'
<1>0. Others(p) /\ place[p] = "addr" /\ Standing(p) /\ Chosen(p)
  BY StepOthers, Parts DEF BridgeTypeInv, Configure, SetAddress, At, ReachInv
<1>p. Knows(p) /\ Holds(p)
  BY <1>0 DEF Standing
<1>l. link = parent[p] /\ link # None
  BY <1>0, LinkThere DEF Linked
<1>u. UNCHANGED <<fixed, world, link, up, isolated, routes, neigh, legacy, reached, moves>>
  BY DEF SetAddress
<1>1. CASE Fault /\ Abort(p) /\ UNCHANGED addrs
  <2>1. ~concurrent /\ Grows
    BY <1>1, <1>u DEF Fault, Grows, fixed, world
  <2>2. QED BY <1>0, <1>1, <1>u, <2>1, AbortReach
<1>2. CASE /\ Enter(p, "up") /\ UNCHANGED <<work, faults>>
           /\ addrs' = IF pick[p] \in ToSet(addrs) THEN addrs ELSE Append(addrs, pick[p])
  <2>1. place'[p] = "up" /\ UNCHANGED <<work, faults>>
    BY <1>2 DEF Enter, BridgeTypeInv, BridgeTypeOK
  <2>2. ToSet(addrs') = ToSet(addrs) \cup {pick[p]}
    <3>1. CASE pick[p] \in ToSet(addrs) BY <1>2, <3>1
    <3>2. CASE pick[p] \notin ToSet(addrs)
      <4>1. addrs' = Append(addrs, pick[p]) /\ addrs \in Seq(LAN)
        BY <1>2, <3>2 DEF BridgeTypeInv, BridgeTypeOK
      <4>2. /\ DOMAIN addrs' = 1 .. Len(addrs) + 1 /\ DOMAIN addrs = 1 .. Len(addrs)
            /\ \A i \in 1 .. Len(addrs) : addrs'[i] = addrs[i]
            /\ addrs'[Len(addrs) + 1] = pick[p] /\ Len(addrs) \in Nat
        BY <4>1
      <4>3. QED BY <4>2 DEF ToSet
    <3>3. QED BY <3>1, <3>2
  <2>3. concurrent' = concurrent /\ Grows
    BY <1>u, <2>2 DEF fixed, world, Grows
  <2>4. Reached' /\ AddrInv' /\ LinkInv'
    BY <1>l, <1>u, <2>3, GrowsReached, GrowsAddr DEF ReachInv, LinkInv, fixed, world
  <2>5. Knows(p)'
    BY <1>0, <1>p, <1>u, <2>1, KnowsOn DEF fixed, world, work
  <2>6. Holds(p)' /\ Routes(p)'
    BY <1>0, <1>p, <1>l, <1>u, <2>1, <2>2 DEF Holds, Linked, Routes, work
  <2>7. HalfWay(p)'
    BY <1>0, <1>u, <2>1 DEF Chosen, HalfWay, work
  <2>8. Spares(p)'
    BY <1>0, <1>u, <2>1 DEF Standing, Spares, NoneHere, fixed, world, work
  <2>9. QED BY <1>0, <1>u, <2>1, <2>3, <2>4, <2>5, <2>6, <2>7, <2>8, Alone, Conclude
            DEF Standing, ReachInv, ModeInv, work
<1>3. QED BY <1>1, <1>2, <1>l DEF SetAddress

LEMMA LinkUpReach ==
  ASSUME BridgeTypeInv, ReachInv, NEW p \in Procs, LinkUp(p)
  PROVE  ReachInv'
<1>0. Others(p) /\ place[p] = "up" /\ Standing(p) /\ Chosen(p)
  BY StepOthers, Parts DEF BridgeTypeInv, Configure, LinkUp, At, ReachInv
<1>p. Knows(p) /\ Holds(p)
  BY <1>0 DEF Standing
<1>l. link = parent[p] /\ link # None
  BY <1>0, LinkThere DEF Linked
<1>u. UNCHANGED <<fixed, world, link, addrs, isolated, routes, neigh, legacy, reached, moves>>
  BY DEF LinkUp
<1>1. CASE Fault /\ Abort(p) /\ UNCHANGED up
  <2>1. ~concurrent /\ Grows
    BY <1>1, <1>u DEF Fault, Grows, fixed, world
  <2>2. QED BY <1>0, <1>1, <1>u, <2>1, AbortReach
<1>2. CASE /\ up' = TRUE /\ Enter(p, "route")
           /\ todo' = [todo EXCEPT ![p] = IF family[p] = 4 THEN Listed(p) ELSE ListedSix(p)]
           /\ UNCHANGED <<subject, family, targets, parent, pick, created, saved, before, faults>>
  <2>1. /\ place'[p] = "route" /\ up'
        /\ todo'[p] = IF family[p] = 4 THEN Listed(p) ELSE ListedSix(p)
        /\ UNCHANGED <<subject, family, targets, parent, pick, created, saved, before, faults>>
    BY <1>2 DEF Enter, BridgeTypeInv, BridgeTypeOK
  <2>3. concurrent' = concurrent /\ Grows
    BY <1>u, <2>1 DEF fixed, world, Grows
  <2>4. Reached' /\ AddrInv' /\ LinkInv'
    BY <1>l, <1>u, <2>1, <2>3, GrowsReached, GrowsAddr DEF ReachInv, LinkInv, fixed, world
  <2>5. Knows(p)'
    BY <1>0, <1>p, <1>u, <2>1, KnowsOn DEF fixed, world
  <2>6. Holds(p)'
    BY <1>0, <1>p, <1>l, <1>u, <2>1 DEF Holds, Linked
  <2>r. Routes(p)'
    BY <2>1 DEF Routes, Listed, ListedSix
  <2>7. HalfWay(p)'
    BY <1>0, <1>u, <2>1 DEF Standing, HalfWay, Steady, Serving, Routed, Listed, fixed, world
  <2>8. Spares(p)'
    BY <1>0, <1>u, <2>1 DEF Standing, Spares, NoneHere, fixed, world
  <2>9. QED BY <1>0, <1>u, <2>1, <2>3, <2>4, <2>5, <2>6, <2>r, <2>7, <2>8, Alone, Conclude
            DEF Standing, ReachInv, ModeInv
<1>3. QED BY <1>1, <1>2, <1>l DEF LinkUp

LEMMA ReplaceRouteReach ==
  ASSUME BridgeTypeInv, ReachInv, NEW p \in Procs, ReplaceRoute(p)
  PROVE  ReachInv'
<1>0. Others(p) /\ place[p] = "route" /\ Standing(p) /\ Chosen(p)
  BY StepOthers, Parts DEF BridgeTypeInv, Configure, ReplaceRoute, At, ReachInv
<1>p. Knows(p) /\ Holds(p) /\ Routes(p)
  BY <1>0 DEF Standing
<1>l. link = parent[p] /\ link # None
  BY <1>0, LinkThere DEF Linked
<1>u. UNCHANGED <<fixed, world, link, addrs, up, isolated, neigh, legacy, reached, moves>>
  BY DEF ReplaceRoute
<1>1. CASE Fault /\ Abort(p) /\ UNCHANGED routes
  <2>1. ~concurrent /\ Grows
    BY <1>1, <1>u DEF Fault, Grows, fixed, world
  <2>2. QED BY <1>0, <1>1, <1>u, <2>1, AbortReach
<1>2. CASE Enter(p, "neigh") /\ routes' = routes \cup {Address(p)} /\ UNCHANGED <<work, faults>>
  <2>1. place'[p] = "neigh" /\ UNCHANGED <<work, faults>>
    BY <1>2 DEF Enter, BridgeTypeInv, BridgeTypeOK
  <2>3. concurrent' = concurrent /\ Grows
    BY <1>2, <1>u DEF fixed, world, Grows
  <2>4. Reached' /\ AddrInv' /\ LinkInv'
    BY <1>u, <2>3, GrowsReached, GrowsAddr DEF ReachInv, LinkInv, fixed, world
  <2>5. Knows(p)'
    BY <1>0, <1>p, <1>u, <2>1, KnowsOn DEF fixed, world, work
  <2>6. Holds(p)'
    BY <1>0, <1>p, <1>u, <2>1 DEF Holds, Linked, work
  <2>a. Address(p)' = Address(p) /\ Listed(p)' = Listed(p) /\ ListedSix(p)' = ListedSix(p)
    BY <2>1 DEF Address, Target, Listed, ListedSix, work
  <2>r. Routes(p)'
    BY <1>0, <1>p, <1>2, <1>u, <2>1, <2>a DEF Routes, Routed, work
  <2>7. HalfWay(p)'
    BY <1>0, <1>2, <1>u, <2>1 DEF Standing, HalfWay, Steady, Serving, Routed, Listed, fixed, world, work
  <2>8. Spares(p)'
    BY <1>0, <1>u, <2>1 DEF Standing, Spares, NoneHere, fixed, world, work
  <2>9. QED BY <1>0, <1>u, <2>1, <2>3, <2>4, <2>5, <2>6, <2>r, <2>7, <2>8, Alone, Conclude
            DEF Standing, ReachInv, ModeInv, work
<1>3. Routable(p)
  BY <1>0, <1>p DEF Routable, Holds, Chosen

<1>4. QED BY <1>1, <1>2, <1>3 DEF ReplaceRoute


\* A target's address, at its place, is the target's alone.
LEMMA TargetsOwn ==
  ASSUME ReachInv, NEW p \in Procs, Knows(p), NEW c \in Containers, NEW d \in Listed(p),
         place[p] \notin {"idle", "list", "unroute"},
         addr[c] # None, addr[c] = targets[p][d]
  PROVE  c = d
<1>1. CASE concurrent
  BY <1>1 DEF Knows, ReachInv, AddrInv, Listed
<1>2. CASE ~concurrent
  BY <1>2 DEF Knows, Listed
<1>3. QED BY <1>1, <1>2

LEMMA ReplaceNeighbourReach ==
  ASSUME BridgeTypeInv, ReachInv, NEW p \in Procs, ReplaceNeighbour(p)
  PROVE  ReachInv'
<1>0. Others(p) /\ place[p] = "neigh" /\ Standing(p) /\ Chosen(p)
  BY StepOthers, Parts DEF BridgeTypeInv, Configure, ReplaceNeighbour, At, ReachInv
<1>p. Knows(p) /\ Holds(p) /\ Routes(p)
  BY <1>0 DEF Standing
<1>l. link = parent[p] /\ link # None
  BY <1>0, LinkThere DEF Linked
<1>u. UNCHANGED <<fixed, world, link, addrs, up, isolated, routes, legacy, reached, moves>>
  BY DEF ReplaceNeighbour
<1>t. /\ Target(p) \in todo[p] /\ Target(p) \in Listed(p) /\ Target(p) \in Containers
      /\ Address(p) \in Addresses \X {4, 6}
  BY <1>0, AddressType, Parts DEF Chosen, BridgeTypeInv, Listed
<1>n. neigh \in [Addresses \X {4, 6} -> Containers \cup {None}] /\ family[p] \in {4, 6}
  BY DEF BridgeTypeInv, BridgeTypeOK
<1>1. CASE Fault /\ Abort(p) /\ UNCHANGED neigh
  <2>1. ~concurrent /\ Grows
    BY <1>1, <1>u DEF Fault, Grows, fixed, world
  <2>2. QED BY <1>0, <1>1, <1>u, <2>1, AbortReach
<1>2. CASE neigh' = [neigh EXCEPT ![Address(p)] = Target(p)]
  <2>1. /\ neigh'[Address(p)] = Target(p)
        /\ \A a \in Addresses \X {4, 6} : a # Address(p) => neigh'[a] = neigh[a]
    BY <1>2, <1>n, <1>t
  <2>2. Grows
    <3>1. ASSUME NEW c \in Containers, neigh[<<c, 6>>] = c PROVE neigh'[<<c, 6>>] = c
      <4>1. <<c, 6>> \in Addresses \X {4, 6}
        BY DEF Addresses
      <4>2. CASE <<c, 6>> # Address(p)
        BY <2>1, <3>1, <4>1, <4>2
      <4>3. CASE <<c, 6>> = Address(p)
        <5>1. family[p] = 6 /\ c = Target(p)
          BY <1>n, <4>3 DEF Address
        <5>2. QED BY <2>1, <4>3, <5>1
      <4>4. QED BY <4>2, <4>3
    <3>2. ASSUME NEW c \in Containers, addr[c] # None, neigh[<<addr[c], 4>>] = c
          PROVE  neigh'[<<addr[c], 4>>] = c
      <4>1. <<addr[c], 4>> \in Addresses \X {4, 6}
        BY <3>2 DEF BridgeTypeInv, BridgeTypeOK
      <4>2. CASE <<addr[c], 4>> # Address(p)
        BY <2>1, <3>2, <4>1, <4>2
      <4>3. CASE <<addr[c], 4>> = Address(p)
        <5>1. addr[c] = targets[p][Target(p)]
          BY <1>n, <4>3 DEF Address
        <5>2. c = Target(p)
          BY <1>0, <1>p, <1>t, <3>2, <5>1, TargetsOwn
        <5>3. QED BY <2>1, <4>3, <5>2
      <4>4. QED BY <4>2, <4>3
    <3>3. QED BY <1>u, <3>1, <3>2 DEF Grows, fixed, world
  <2>3. CASE family[p] = 6 /\ addr[Target(p)] = None /\ Abort(p)
    <3>1. ~concurrent
      BY <1>0, <1>p, <1>t, <2>3 DEF Knows, Listed
    <3>2. QED BY <1>0, <1>u, <2>2, <2>3, <3>1, AbortReach
  <2>4. CASE /\ Enter(p, "route") /\ UNCHANGED faults
             /\ todo' = [todo EXCEPT ![p] = @ \ {Target(p)}]
             /\ UNCHANGED <<subject, family, targets, parent, pick, created, saved, before>>
    <3>1. /\ place'[p] = "route" /\ todo'[p] = todo[p] \ {Target(p)}
          /\ UNCHANGED <<subject, family, targets, parent, pick, created, saved, before>>
      BY <2>4 DEF Enter, BridgeTypeInv, BridgeTypeOK
    <3>2. Reached' /\ AddrInv' /\ LinkInv'
      BY <1>u, <2>2, GrowsReached, GrowsAddr DEF ReachInv, LinkInv, fixed, world
    <3>3. Knows(p)'
      BY <1>0, <1>p, <1>u, <3>1, KnowsOn DEF fixed, world
    <3>4. Holds(p)'
      BY <1>0, <1>p, <1>u, <3>1 DEF Holds, Linked
    <3>5. Listed(p)' = Listed(p) /\ ListedSix(p)' = ListedSix(p)
      BY <3>1 DEF Listed, ListedSix
    <3>r. Routes(p)'
      <4>1. CASE family[p] = 4
        <5>1. ASSUME NEW c \in Listed(p) \ (todo[p] \ {Target(p)})
              PROVE  Routed(<<targets[p][c], 4>>, c)'
          <6>1. CASE c = Target(p)
            BY <1>0, <1>p, <1>u, <2>1, <3>1, <4>1, <6>1 DEF Routes, Routed, Address
          <6>2. CASE c # Target(p)
            <7>1. c \in Listed(p) \ todo[p]
              BY <5>1, <6>2
            <7>2. <<targets[p][c], 4>> # Address(p)
              BY <1>p, <1>0, <1>t, <4>1, <6>2 DEF Address, Knows, Listed
            <7>3. <<targets[p][c], 4>> \in Addresses \X {4, 6}
              BY DEF BridgeTypeInv, BridgeTypeOK, Listed
            <7>4. QED BY <1>0, <1>p, <1>u, <2>1, <3>1, <4>1, <7>1, <7>2, <7>3 DEF Routes, Routed
          <6>3. QED BY <6>1, <6>2
        <5>2. QED BY <3>1, <3>5, <4>1, <5>1 DEF Routes
      <4>2. CASE family[p] = 6
        <5>1. ASSUME NEW c \in ListedSix(p) \ (todo[p] \ {Target(p)})
              PROVE  Routed(<<c, 6>>, c)'
          <6>1. CASE c = Target(p)
            BY <1>0, <1>p, <1>u, <2>1, <3>1, <4>2, <6>1 DEF Routes, Routed, Address
          <6>2. CASE c # Target(p)
            <7>1. c \in ListedSix(p) \ todo[p]
              BY <5>1, <6>2
            <7>2. <<c, 6>> # Address(p) /\ <<c, 6>> \in Addresses \X {4, 6}
              BY <4>2, <6>2 DEF Address, ListedSix, Listed, Addresses
            <7>4. QED BY <1>0, <1>p, <1>u, <2>1, <3>1, <4>2, <7>1, <7>2 DEF Routes, Routed
          <6>3. QED BY <6>1, <6>2
        <5>2. QED BY <1>0, <1>p, <3>1, <3>5, <4>2, <5>1 DEF Routes
      <4>3. QED BY <1>n, <4>1, <4>2
    <3>6. HalfWay(p)'
      <4>1. ASSUME family[p] = 6, NEW c \in Listed(p), Routed(<<targets[p][c], 4>>, c)
            PROVE  Routed(<<targets[p][c], 4>>, c)'
        <5>1. <<targets[p][c], 4>> # Address(p)
          BY <4>1 DEF Address
        <5>2. <<targets[p][c], 4>> \in Addresses \X {4, 6}
          BY DEF BridgeTypeInv, BridgeTypeOK, Listed
        <5>3. neigh'[<<targets[p][c], 4>>] = neigh[<<targets[p][c], 4>>]
          BY <2>1, <5>1, <5>2
        <5>4. QED BY <1>u, <3>1, <4>1, <5>3 DEF Routed
      <4>2. Serving' = Serving /\ Steady(p)' = Steady(p) /\ uplink' = uplink
        BY <1>u, <3>1 DEF Serving, Steady, fixed, world
      <4>3. QED BY <1>0, <3>1, <3>5, <4>1, <4>2 DEF Standing, HalfWay
    <3>7. Spares(p)'
      BY <1>0, <1>u, <3>1 DEF Standing, Spares, NoneHere, fixed, world
    <3>8. concurrent' = concurrent
      BY <1>u DEF fixed
    <3>9. QED BY <1>0, <1>u, <2>2, <2>4, <3>1, <3>2, <3>3, <3>4, <3>r, <3>6, <3>7, <3>8, Alone, Conclude
              DEF Standing, ReachInv, ModeInv
  <2>5. QED BY <1>1, <1>l, <2>3, <2>4 DEF ReplaceNeighbour
<1>3. QED BY <1>1, <1>2, <1>l DEF ReplaceNeighbour

\* Once every target is routed, a steady call has made the shim serve them.
LEMMA AllRouted ==
  ASSUME BridgeTypeInv, ReachInv, NEW p \in Procs, place[p] = "route", todo[p] = {}, Steady(p)
  PROVE  /\ Serving
         /\ \A c \in Listed(p) : Routed(<<targets[p][c], 4>>, c)
         /\ family[p] = 6 => \A c \in ListedSix(p) : Routed(<<c, 6>>, c)
<1>1. Knows(p) /\ Holds(p) /\ Routes(p) /\ HalfWay(p) /\ Chosen(p) /\ family[p] \in {4, 6}
  BY DEF ReachInv, Standing, BridgeTypeInv, BridgeTypeOK
<1>2. parent[p] = uplink /\ uplink \in Wired
  BY <1>1 DEF Knows, Chosen, Working, Places
<1>3. Serving
  BY <1>1, <1>2 DEF Holds, Linked, Serving
<1>4. CASE family[p] = 4
  BY <1>1, <1>3, <1>4 DEF Routes
<1>5. CASE family[p] = 6
  BY <1>1, <1>2, <1>3, <1>5 DEF Routes, HalfWay
<1>6. QED BY <1>1, <1>4, <1>5

LEMMA RemoveLegacyShimReach ==
  ASSUME BridgeTypeInv, ReachInv, NEW p \in Procs, RemoveLegacyShim(p)
  PROVE  ReachInv'
<1>0. Others(p) /\ place[p] = "route" /\ todo[p] = {} /\ Standing(p) /\ Chosen(p)
  BY StepOthers, Parts DEF BridgeTypeInv, Configure, RemoveLegacyShim, At, ReachInv
<1>p. Knows(p)
  BY <1>0 DEF Standing
<1>u. UNCHANGED <<fixed, world, link, addrs, up, isolated, routes, neigh, faults, moves>>
  BY DEF RemoveLegacyShim
<1>1. concurrent' = concurrent /\ Grows
  BY <1>u DEF fixed, world, Grows
<1>2. AddrInv' /\ LinkInv'
  BY <1>u, <1>1, GrowsAddr DEF ReachInv, LinkInv, fixed, world
<1>3. CASE Succeed(p)
  <2>1. family[p] = 6 \/ ListedSix(p) = {}
    BY <1>3, <1>0 DEF RemoveLegacyShim, HalfDone, Succeed, End, Enter, BridgeTypeInv, BridgeTypeOK
  <2>2. CASE ~Steady(p)
    <3>1. Reached'
      BY <1>1, <1>3, <2>2, GrowsReached DEF Succeed
    <3>2. QED BY <1>0, <1>u, <1>1, <1>2, <1>3, <3>1, EndStanding, Alone, Conclude
              DEF Succeed, ReachInv, ModeInv
  <2>3. CASE Steady(p)
    <3>1. reached' = reached \cup {c \in Listed(p) : addr[c] = targets[p][c]}
      BY <1>3, <2>3 DEF Succeed
    <3>2. ASSUME NEW c \in Listed(p), addr[c] = targets[p][c]
          PROVE  /\ addr[c] # None /\ Serving
                 /\ Routed(<<addr[c], 4>>, c)
                 /\ c \in Six => Routed(<<c, 6>>, c)
      BY <1>0, <2>1, <2>3, <3>2, AllRouted DEF Listed, ListedSix
    <3>3. \A c \in reached' : /\ addr[c] # None
                              /\ nic[c] = uplink => /\ Serving
                                                    /\ Routed(<<addr[c], 4>>, c)
                                                    /\ c \in Six => Routed(<<c, 6>>, c)
      BY <3>1, <3>2 DEF ReachInv, Reached
    <3>4. Reached'
      BY <1>u, <3>3 DEF Reached, Serving, Routed, world
    <3>5. QED BY <1>0, <1>u, <1>1, <1>2, <1>3, <3>4, EndStanding, Alone, Conclude
              DEF Succeed, ReachInv, ModeInv
  <2>4. QED BY <2>2, <2>3
<1>4. CASE ~Succeed(p)
  <2>1. /\ place'[p] = "parent" /\ family'[p] = 6 /\ saved'[p] = Unsaved /\ family[p] = 4
        /\ UNCHANGED <<subject, targets, parent, pick, created, todo, before, reached>>
    BY <1>4 DEF RemoveLegacyShim, HalfDone, Enter, BridgeTypeInv, BridgeTypeOK
  <2>2. Reached'
    BY <1>1, <2>1, GrowsReached
  <2>3. Knows(p)'
    BY <1>0, <1>p, <1>u, <2>1 DEF Knows, Listed, Steady, fixed, world
  <2>4. Holds(p)' /\ Routes(p)'
    BY <2>1 DEF Holds, Linked, Routes
  <2>5. HalfWay(p)'
    <3>1. Steady(p)' = Steady(p) /\ Listed(p)' = Listed(p) /\ Serving' = Serving
      BY <1>u, <2>1 DEF Steady, Listed, Serving, fixed, world
    <3>2. QED BY <1>0, <1>u, <2>1, <3>1, AllRouted DEF HalfWay, Routed
  <2>6. Spares(p)'
    BY <1>0, <1>u, <2>1 DEF Standing, Spares, NoneHere, fixed, world, Unsaved
  <2>7. QED BY <1>0, <1>u, <1>1, <1>2, <2>1, <2>2, <2>3, <2>4, <2>5, <2>6, Alone, Conclude
            DEF Standing, ReachInv, ModeInv
<1>5. QED BY <1>3, <1>4

LEMMA UndoReach ==
  ASSUME BridgeTypeInv, ReachInv, NEW p \in Procs, Undo(p)
  PROVE  ReachInv'
<1>0. Others(p) /\ place[p] = "undo" /\ Standing(p)
  BY StepOthers, Parts DEF BridgeTypeInv, Configure, Undo, At, ReachInv
<1>1. ~concurrent
  BY <1>0 DEF ReachInv, ModeInv
<1>2. /\ place'[p] = "undo2" /\ isolated' = Restored(p)
      /\ UNCHANGED <<fixed, world, link, addrs, up, routes, neigh, legacy, work, reached, faults, moves>>
  BY DEF Undo, Enter, BridgeTypeInv, BridgeTypeOK
<1>3. Reached' /\ AddrInv' /\ LinkInv'
  BY <1>0, <1>1, <1>2, RestoredReached DEF Standing
<1>4. Knows(p)'
  BY <1>0, <1>2, KnowsOn DEF Standing, fixed, world, work
<1>5. Holds(p)' /\ Routes(p)' /\ HalfWay(p)'
  BY <1>0, <1>2 DEF Standing, Holds, Linked, Routes, HalfWay, work
<1>6. Spares(p)'
  BY <1>0, <1>2 DEF Standing, Spares, NoneHere, fixed, world, work
<1>7. concurrent' = concurrent
  BY <1>2 DEF fixed
<1>8. QED BY <1>0, <1>1, <1>2, <1>3, <1>4, <1>5, <1>6, <1>7, Alone, Conclude DEF Standing

LEMMA UndoLinkReach ==
  ASSUME BridgeTypeInv, ReachInv, NEW p \in Procs, UndoLink(p)
  PROVE  ReachInv'
<1>0. Others(p) /\ place[p] = "undo2" /\ Standing(p) /\ End(p)
  BY StepOthers, Parts DEF BridgeTypeInv, Configure, UndoLink, At, ReachInv
<1>1. ~concurrent
  BY <1>0 DEF ReachInv, ModeInv
<1>2. UNCHANGED <<fixed, world, legacy, reached, faults, moves>>
  BY DEF UndoLink
<1>3. CASE ~created[p]
  BY <1>0, <1>2, <1>3, QuietEnd DEF UndoLink
<1>4. CASE created[p]
  <2>1. NoneHere /\ DeleteLink
    BY <1>0, <1>1, <1>4 DEF Standing, Spares, UndoLink
  <2>2. Reached'
    BY <1>2, <2>1 DEF ReachInv, Reached, NoneHere, world
  <2>3. AddrInv' /\ LinkInv'
    BY <1>1, <1>2, <2>1 DEF ReachInv, AddrInv, LinkInv, DeleteLink, world, fixed
  <2>4. concurrent' = concurrent
    BY <1>2 DEF fixed
  <2>5. QED BY <1>0, <1>1, <2>2, <2>3, <2>4, EndStanding, Alone, Conclude
<1>5. QED BY <1>3, <1>4

\* The route a stop removes is no other container's.
LEMMA UnrouteReach ==
  ASSUME BridgeTypeInv, ReachInv, NEW p \in Procs, Unroute(p)
  PROVE  ReachInv'
<1>0. Others(p) /\ place[p] = "unroute" /\ Standing(p) /\ End(p)
  BY StepOthers, Parts DEF BridgeTypeInv, Unroute, At, ReachInv
<1>1. ~concurrent
  BY <1>0 DEF ReachInv, ModeInv
<1>2. UNCHANGED <<fixed, world, link, addrs, up, isolated, legacy, reached, moves>>
  BY DEF Unroute
<1>3. CASE Fault /\ UNCHANGED <<routes, neigh>>
  BY <1>0, <1>2, <1>3, QuietEnd
<1>4. CASE /\ routes' = routes \ {<<pick[p], 4>>, <<subject[p], 6>>}
           /\ neigh' = [neigh EXCEPT ![<<subject[p], 6>>] = None]
  <2>1. ASSUME NEW c \in reached
        PROVE  /\ Routed(<<addr[c], 4>>, c) => Routed(<<addr[c], 4>>, c)'
               /\ Routed(<<c, 6>>, c) => Routed(<<c, 6>>, c)'
    <3>1. addr[c] # pick[p] /\ c # subject[p]
      BY <1>0 DEF Standing, Spares
    <3>2. /\ addr[c] \in Addresses /\ c \in Containers /\ addr' = addr
          /\ neigh \in [Addresses \X {4, 6} -> Containers \cup {None}]
      BY <1>2 DEF BridgeTypeInv, BridgeTypeOK, ReachInv, Reached, world
    <3>3. neigh'[<<addr[c], 4>>] = neigh[<<addr[c], 4>>] /\ neigh'[<<c, 6>>] = neigh[<<c, 6>>]
      BY <1>4, <3>1, <3>2 DEF Addresses
    <3>4. QED BY <1>4, <3>1, <3>2, <3>3 DEF Routed
  <2>2. UNCHANGED <<uplink, nic, addr, reached, link, up, isolated>>
    BY <1>2 DEF world
  <2>3. Reached'
    BY <2>1, <2>2 DEF ReachInv, Reached, Serving
  <2>4. AddrInv' /\ LinkInv'
    BY <1>2 DEF ReachInv, AddrInv, LinkInv, world, fixed
  <2>5. concurrent' = concurrent
    BY <1>2 DEF fixed
  <2>6. QED BY <1>0, <1>1, <2>3, <2>4, <2>5, EndStanding, Alone, Conclude
<1>5. QED BY <1>3, <1>4 DEF Unroute

\* A container gets an address that no other has, and none was reached by it.
LEMMA LaunchReach ==
  ASSUME BridgeTypeInv, ReachInv, NEW p \in Procs, NEW c \in Containers, Launch(p, c)
  PROVE  ReachInv'
<1>0. Others(p) /\ place[p] = "idle" /\ Standing(p) /\ addr[c] = None
  BY StepOthers, Parts DEF BridgeTypeInv, Launch, MayBegin, At, ReachInv
<1>1. /\ UNCHANGED <<fixed, uplink, link, addrs, up, isolated, routes, neigh, family,
                     targets, parent, pick, created, saved, todo, before, reached, faults, moves>>
      /\ place'[p] = "list" /\ (~concurrent => p = First)
  BY DEF Launch, MayBegin, Enter, First, BridgeTypeInv, BridgeTypeOK
<1>2. /\ \A d \in Containers \ {c} : addr'[d] = addr[d] /\ nic'[d] = nic[d]
      /\ addr'[c] \in (Leases \ InUse) \cup {c}
      /\ nic'[c] \in Wired \cup {Managed, None} /\ nic'[c] # None
  <2>1. PICK a \in IF nic'[c] = Managed THEN {c} ELSE Leases \ InUse : addr' = [addr EXCEPT ![c] = a]
    BY DEF Launch
  <2>2. nic' = [nic EXCEPT ![c] = IF @ # None THEN @
                              ELSE IF uplink \in Wireless THEN Managed ELSE uplink]
    BY DEF Launch
  <2>3. nic[c] \in Wired \cup {Managed, None} /\ uplink \in Uplinks /\ None \notin Uplinks \cup {Managed}
    BY HostBridgeAssumption DEF ReachInv, AddrInv, BridgeTypeInv, BridgeTypeOK
  <2>4. nic'[c] = IF nic[c] # None THEN nic[c] ELSE IF uplink \in Wireless THEN Managed ELSE uplink
    BY <2>2 DEF BridgeTypeInv, BridgeTypeOK
  <2>5. QED BY <2>1, <2>2, <2>3, <2>4 DEF BridgeTypeInv, BridgeTypeOK, Uplinks
<1>3. AddrInv'
  <2>1. Leases \subseteq LAN /\ c \notin LAN /\ None \notin LAN /\ \A d \in Containers : d \notin LAN
    BY HostBridgeAssumption DEF Addresses
  <2>2. \A d \in Containers \ {c} : addr[d] # addr'[c]
    <3> TAKE d \in Containers \ {c}
    <3>1. addr[d] \in Leases \cup {d, None} /\ c # None
      BY HostBridgeAssumption DEF ReachInv, AddrInv, Addresses
    <3>2. CASE addr'[c] = c
      BY <2>1, <3>1, <3>2
    <3>3. CASE addr'[c] \in Leases \ InUse
      BY <2>1, <3>3 DEF InUse
    <3>4. QED BY <1>2, <3>2, <3>3
  <2>3. QED BY <1>2, <2>2 DEF ReachInv, AddrInv
<1>4. c \notin reached /\ reached \subseteq Containers
  BY <1>0 DEF ReachInv, Reached, BridgeTypeInv, BridgeTypeOK
<1>5. Reached'
  BY <1>1, <1>2, <1>4 DEF ReachInv, Reached, Serving, Routed
<1>6. LinkInv'
  BY <1>1 DEF ReachInv, LinkInv, fixed
<1>7. ModeInv'
  <2>1. concurrent' = concurrent /\ \A q \in Procs \ {p} : place'[q] = place[q]
    BY <1>0, <1>1 DEF Others, Locals, fixed
  <2>2. QED BY <1>1, <2>1 DEF ReachInv, ModeInv, First
<1>8. saved[p] = Unsaved /\ ~created[p]
  BY <1>0 DEF ReachInv, ModeInv
<1>9. Standing(p)'
  BY <1>1, <1>8 DEF Standing, Knows, Holds, Linked, Routes, HalfWay, Spares, Unsaved
<1>10. ASSUME NEW q \in Procs \ {p} PROVE Standing(q)'
  <2>0. place'[q] = place[q] /\ Standing(q)
    BY <1>0 DEF Others, Locals, ReachInv
  <2>1. concurrent' = concurrent
    BY <1>1 DEF fixed
  <2>2. CASE ~concurrent
    <3>1. place[q] = "idle" /\ saved[q] = Unsaved /\ ~created[q]
      BY <1>1, <2>2 DEF ReachInv, ModeInv
    <3>2. place'[q] = "idle" /\ saved'[q] = Unsaved /\ ~created'[q]
      BY <1>1, <2>0, <3>1
    <3>3. QED BY <3>2 DEF Standing, Knows, Holds, Linked, Routes, HalfWay, Spares, Unsaved
  <2>3. CASE concurrent
    <3>1. Listed(q)' = Listed(q) /\ Steady(q)' = Steady(q)
      BY <1>1 DEF Listed, Steady
    <3>2. Knows(q)'
      <4>1. place[q] \notin {"idle", "list", "unroute"} =>
              \A d \in Listed(q) : d # c /\ addr'[d] = targets[q][d]
        BY <1>0, <1>2, <2>0, <2>3 DEF Standing, Knows, Listed
      <4>2. QED BY <1>1, <2>0, <2>1, <2>3, <3>1, <4>1 DEF Standing, Knows
    <3>3. Holds(q)'
      BY <1>1, <2>0, <2>1 DEF Standing, Holds
    <3>4. Routes(q)'
      <4>1. Address(q)' = Address(q) /\ ListedSix(q)' = ListedSix(q)
        BY <1>1 DEF Address, Target, Listed, ListedSix
      <4>2. QED BY <1>1, <2>0, <3>1, <4>1 DEF Standing, Routes, Routed
    <3>5. HalfWay(q)'
      BY <1>1, <2>0, <3>1 DEF Standing, HalfWay, Serving, Routed
    <3>6. Spares(q)'
      BY <2>0, <2>1, <2>3 DEF ReachInv, ModeInv, Spares
    <3>7. QED BY <3>2, <3>3, <3>4, <3>5, <3>6 DEF Standing
  <2>4. QED BY <2>2, <2>3
<1>11. QED BY <1>3, <1>5, <1>6, <1>7, <1>9, <1>10 DEF ReachInv

LEMMA StopReach ==
  ASSUME BridgeTypeInv, ReachInv, NEW p \in Procs, NEW c \in Containers, Stop(p, c)
  PROVE  ReachInv'
<1>0. Others(p) /\ place[p] = "idle" /\ Standing(p) /\ addr[c] # None /\ ~concurrent /\ p = First
  BY StepOthers, Parts DEF BridgeTypeInv, Stop, MayBegin, At, ReachInv, First
<1>1. /\ UNCHANGED <<fixed, uplink, nic, host, family, targets, parent, created, saved,
                     todo, before, faults, moves>>
      /\ place'[p] = "unroute" /\ pick'[p] = addr[c] /\ subject'[p] = c
      /\ reached' = reached \ {c}
      /\ addr'[c] = None /\ \A d \in Containers \ {c} : addr'[d] = addr[d]
  BY DEF Stop, Enter, BridgeTypeInv, BridgeTypeOK
<1>2. reached \subseteq Containers
  BY DEF BridgeTypeInv, BridgeTypeOK
<1>3. Reached'
  BY <1>1, <1>2 DEF ReachInv, Reached, Serving, Routed, host
<1>4. AddrInv' /\ LinkInv'
  BY <1>1 DEF ReachInv, AddrInv, LinkInv, host, fixed
<1>5. saved'[p] = Unsaved /\ ~created'[p]
  BY <1>0, <1>1 DEF ReachInv, ModeInv
<1>6. Spares(p)'
  <2>1. \A d \in reached' : addr'[d] # pick'[p] /\ d # subject'[p]
    BY <1>0, <1>1, <1>2 DEF ReachInv, AddrInv
  <2>2. QED BY <1>5, <2>1 DEF Spares, Unsaved
<1>7. Standing(p)'
  BY <1>1, <1>6 DEF Standing, Knows, Holds, Linked, Routes, HalfWay
<1>8. concurrent' = concurrent
  BY <1>1 DEF fixed
<1>9. QED BY <1>0, <1>1, <1>3, <1>4, <1>7, <1>8, Conclude

\* A container that stops by itself is reached no more, and nothing else changes.
LEMMA PowerOffReach ==
  ASSUME BridgeTypeInv, ReachInv, NEW c \in Containers, PowerOff(c)
  PROVE  ReachInv'
<1>1. /\ UNCHANGED <<fixed, uplink, nic, host, place, work, faults, moves>>
      /\ ~concurrent /\ reached' = reached \ {c} /\ reached \subseteq Containers
      /\ addr'[c] = None /\ \A d \in Containers \ {c} : addr'[d] = addr[d]
  BY DEF PowerOff, BridgeTypeInv, BridgeTypeOK
<1>2. Reached'
  BY <1>1 DEF ReachInv, Reached, Serving, Routed, host
<1>3. AddrInv' /\ LinkInv' /\ ModeInv'
  BY <1>1 DEF ReachInv, AddrInv, LinkInv, ModeInv, host, fixed, work
<1>4. ASSUME NEW p \in Procs PROVE Standing(p)'
  <2>1. Standing(p)
    BY DEF ReachInv
  <2>2. Listed(p)' = Listed(p) /\ ListedSix(p)' = ListedSix(p) /\ Steady(p)' = Steady(p)
        /\ Address(p)' = Address(p)
    BY <1>1 DEF Listed, ListedSix, Steady, Address, Target, work
  <2>3. Knows(p)'
    BY <1>1, <2>1, <2>2 DEF Standing, Knows, fixed, work
  <2>4. Holds(p)'
    BY <1>1, <2>1 DEF Standing, Holds, fixed, work, host
  <2>5. Routes(p)' /\ HalfWay(p)'
    BY <1>1, <2>1, <2>2 DEF Standing, Routes, HalfWay, Serving, Routed, fixed, work, host
  <2>6. Spares(p)'
    BY <1>1, <2>1 DEF Standing, Spares, NoneHere, fixed, work
  <2>7. QED BY <2>3, <2>4, <2>5, <2>6 DEF Standing
<1>5. QED BY <1>2, <1>3, <1>4 DEF ReachInv

\* Nothing has been reached on a new uplink, and no call in progress is steady.
LEMMA MoveUplinkReach ==
  ASSUME BridgeTypeInv, ReachInv, MoveUplink
  PROVE  ReachInv'
<1>1. /\ UNCHANGED <<fixed, nic, addr, host, place, work, faults>>
      /\ ~concurrent /\ reached' = {} /\ moves' = moves + 1 /\ moves \in Nat
  BY DEF MoveUplink, BridgeTypeInv, BridgeTypeOK
<1>2. Reached' /\ AddrInv' /\ LinkInv' /\ ModeInv'
  BY <1>1 DEF ReachInv, Reached, AddrInv, LinkInv, ModeInv, host, fixed, work
<1>3. ASSUME NEW p \in Procs PROVE Standing(p)'
  <2>1. Standing(p)
    BY DEF ReachInv
  <2>2. Listed(p)' = Listed(p) /\ ListedSix(p)' = ListedSix(p) /\ Address(p)' = Address(p)
    BY <1>1 DEF Listed, ListedSix, Address, Target, work
  <2>3. before'[p] = before[p] /\ before[p].moves \in Nat
    BY <1>1, HostBridgeAssumption DEF work, BridgeTypeInv, BridgeTypeOK
  <2>4. place[p] \notin {"idle", "list", "unroute"} => ~Steady(p)'
    BY <1>1, <2>1, <2>3 DEF Standing, Knows, Steady
  <2>5. Knows(p)'
    BY <1>1, <2>1, <2>2, <2>3, <2>4 DEF Standing, Knows, fixed, work
  <2>6. Holds(p)' /\ Routes(p)'
    BY <1>1, <2>1, <2>2 DEF Standing, Holds, Routes, Routed, fixed, work, host
  <2>7. HalfWay(p)'
    BY <1>1, <2>4 DEF HalfWay
  <2>8. Spares(p)'
    BY <1>1, <2>1 DEF Standing, Spares, NoneHere, fixed, work
  <2>9. QED BY <2>5, <2>6, <2>7, <2>8 DEF Standing
<1>4. QED BY <1>2, <1>3 DEF ReachInv

LEMMA ReachStep ==
  ASSUME BridgeTypeInv, ReachInv, [BridgeNext]_bridgeVars
  PROVE  ReachInv'
<1>1. ASSUME NEW p \in Procs, Configure(p) PROVE ReachInv'
  BY <1>1, ListReach, FindParentReach, ChooseAddressReach, LookForShimReach,
     EnsureShimReach, AddLinkReach, IsolateReach, SetAddressReach, LinkUpReach,
     ReplaceRouteReach, ReplaceNeighbourReach, RemoveLegacyShimReach, UndoReach,
     UndoLinkReach DEF Configure
<1>2. CASE UNCHANGED bridgeVars
  <2>1. /\ UNCHANGED <<concurrent, uplink, nic, addr, link, addrs, up, isolated, routes, neigh>>
        /\ UNCHANGED <<place, family, targets, parent, pick, created, saved, todo, before, subject>>
        /\ UNCHANGED <<reached, faults, moves>>
    BY <1>2 DEF bridgeVars, fixed, world, host, work
  <2>2. ASSUME NEW p \in Procs PROVE Standing(p)'
    <3>1. Listed(p)' = Listed(p) /\ ListedSix(p)' = ListedSix(p) /\ Address(p)' = Address(p)
      BY <2>1 DEF Listed, ListedSix, Address, Target
    <3>2. QED BY <2>1, <3>1
              DEF ReachInv, Standing, Knows, Holds, Routes, HalfWay, Spares, NoneHere, Serving,
                  Routed, Steady
  <2>3. QED BY <2>1, <2>2 DEF ReachInv, ModeInv, AddrInv, LinkInv, Reached, Serving, Routed
<1>3. QED BY <1>1, <1>2, UnrouteReach, LaunchReach, StopReach, PowerOffReach, MoveUplinkReach
          DEF BridgeNext

LEMMA ReachInit == BridgeInit => ReachInv
<1> SUFFICES ASSUME BridgeInit PROVE ReachInv
  OBVIOUS
<1>1. /\ \A c \in Containers : nic[c] = None /\ addr[c] = None
      /\ \A p \in Procs : place[p] = "idle" /\ saved[p] = Unsaved /\ ~created[p]
      /\ reached = {} /\ faults = 0 /\ moves = 0 /\ link = None /\ addrs = <<>> /\ ~up
      /\ isolated = {}
  BY DEF BridgeInit, Nothing
<1>2. \A p \in Procs : Standing(p)
  BY <1>1, IdleStanding
<1>3. QED BY <1>1, <1>2 DEF ReachInv, ModeInv, AddrInv, LinkInv, Reached

-----------------------------------------------------------------------------
(* Rollbacks and ARP flux.  A command that runs alone remembers what it      *)
(* found, so that a rollback brings it back (Recalls); what a rollback       *)
(* unisolates is a shim that goes at once, as long as no earlier failure and *)
(* no move of the uplink has come between (Excused).                         *)

\* Neither the shim nor its parent answers for the other.
Apart == {link, Shim} \subseteq isolated
Pardon == faults = 0 \/ faults + moves <= 1
Calm == faults = 0 /\ moves = 0
Undone(p) == saved[p].set \ saved[p].was

\* Until a step has failed or the uplink has moved, the shim has the parent of the
\* uplink and only the command that made it can have left it unisolated.
CalmInv ==
  ~concurrent /\ Calm /\ link # None =>
    /\ link = uplink
    /\ Apart \/ \E p \in Procs : /\ place[p] \in {"isolate", "isolate2", "undo2"}
                                 /\ created[p] /\ family[p] = 4

FluxInv ==
  addrs # <<>> /\ Pardon /\ (\A p \in Procs : ~At(p, "undo2")) => Apart

\* What a command that runs alone remembers of what it found, and what taking its
\* settings back would do.
Recalls(p) ==
  /\ place[p] \in {"list", "parent", "address", "exists", "ensure", "add", "isolate"} =>
       saved[p] = Unsaved
  /\ place[p] = "isolate2" => saved[p].set \subseteq {parent[p]}
  /\ before[p].link = None => Shim \notin before[p].isolated
  /\ place[p] \in {"address", "exists", "ensure"} =>
       before[p].link = link /\ before[p].isolated = isolated
  /\ place[p] \in {"ensure", "add"} \cup Linked => (created[p] <=> before[p].link = None)
  /\ place[p] \in ({"ensure", "add"} \cup Linked) \ {"undo2"}
       /\ before[p].link \in {None, parent[p]} =>
       /\ isolated = before[p].isolated \cup saved[p].set
       /\ saved[p].was = saved[p].set \cap before[p].isolated
  /\ place[p] = "undo2" /\ before[p].link \in {None, parent[p]} =>
       isolated = before[p].isolated

Excused(p) ==
  /\ Calm /\ place[p] = "add" => created[p] /\ family[p] = 4
  /\ Calm /\ Undone(p) \cap {link, Shim} # {} => created[p] /\ family[p] = 4
  /\ Pardon /\ addrs # <<>> /\ Undone(p) \cap {link, Shim} # {} =>
       /\ place[p] \in {"up", "route", "neigh", "undo", "undo2"} /\ family[p] = 4
       /\ place[p] \in {"undo", "undo2"} => created[p]
  /\ Pardon /\ addrs # <<>> /\ place[p] = "undo2" /\ ~created[p] => Apart

RollInv ==
  /\ CalmInv /\ FluxInv
  /\ ~concurrent => \A p \in Procs : Recalls(p) /\ Excused(p)

\* No step forgives a failure.
LEMMA Pardons ==
  ASSUME BridgeTypeInv, moves' = moves, Fault \/ UNCHANGED faults
  PROVE  (Calm' => Calm /\ UNCHANGED faults) /\ (Pardon' => Pardon)
         /\ (Pardon' /\ Fault => Calm)
BY HostBridgeAssumption DEF Calm, Pardon, Fault, BridgeTypeInv, BridgeTypeOK

\* A behaviour with overlapping commands rolls nothing back.
LEMMA TogetherRoll ==
  ASSUME BridgeTypeInv, ReachInv, RollInv, concurrent, UNCHANGED <<concurrent, addrs>>,
         isolated \subseteq isolated', link # None => link' = link
  PROVE  RollInv'
<1>1. Pardon /\ \A p \in Procs : ~At(p, "undo2")
  BY DEF ReachInv, ModeInv, Pardon, At
<1>2. addrs # <<>> => Apart /\ link # None
  BY <1>1 DEF RollInv, FluxInv, ReachInv, LinkInv
<1>3. addrs' # <<>> => Apart'
  BY <1>2 DEF Apart
<1>4. QED BY <1>3 DEF RollInv, FluxInv, CalmInv

\* What is left to show of a step of the one command that runs.
LEMMA AloneRoll ==
  ASSUME BridgeTypeInv, ReachInv, RollInv, NEW p \in Procs, Others(p), ~concurrent,
         concurrent' = concurrent, p = First, CalmInv', FluxInv', Recalls(p)', Excused(p)'
  PROVE  RollInv'
<1>1. ASSUME NEW q \in Procs \ {p} PROVE Recalls(q)' /\ Excused(q)'
  <2>1. place[q] = "idle" /\ saved[q] = Unsaved /\ ~created[q] /\ Recalls(q)
    BY DEF ReachInv, ModeInv, RollInv
  <2>2. place'[q] = "idle" /\ saved'[q] = Unsaved /\ before'[q] = before[q]
    BY <2>1 DEF Others, Locals
  <2>3. QED BY <2>1, <2>2 DEF Recalls, Excused, Linked, Undone, Unsaved
<1>2. QED BY <1>1 DEF RollInv

\* The steps that leave the shim, its addresses and its isolation alone.
LEMMA StillRoll ==
  ASSUME BridgeTypeInv, ReachInv, RollInv, NEW p \in Procs, ~concurrent, p = First,
         UNCHANGED <<concurrent, link, addrs, isolated, uplink, moves>>,
         Fault \/ UNCHANGED faults,
         place[p] # "undo2", Fault \/ place[p] \notin {"isolate", "isolate2"}
  PROVE  CalmInv' /\ FluxInv'
<1>1. \A q \in Procs : q = p \/ place[q] = "idle"
  BY DEF ReachInv, ModeInv
<1>2. FluxInv'
  <2>1. FluxInv /\ \A q \in Procs : ~At(q, "undo2")
    BY <1>1 DEF RollInv, At
  <2>2. QED BY <2>1, Pardons DEF FluxInv, Apart
<1>3. CalmInv'
  <2>1. ASSUME Fault PROVE ~Calm'
    BY <2>1, HostBridgeAssumption DEF Fault, Calm, BridgeTypeInv, BridgeTypeOK
  <2>2. ASSUME Calm', link # None PROVE link = uplink /\ Apart
    BY <1>1, <2>1, <2>2, Pardons DEF RollInv, CalmInv
  <2>3. QED BY <2>2 DEF CalmInv, Apart
<1>4. QED BY <1>2, <1>3

\* A command that is over remembers nothing and can undo nothing.
LEMMA EndRecalls ==
  ASSUME BridgeTypeInv, NEW p \in Procs, End(p)
  PROVE  Recalls(p)' /\ Excused(p)'
<1>1. place'[p] = "idle" /\ saved'[p] = Unsaved /\ before'[p] = Unseen
  BY DEF End, Enter, BridgeTypeInv, BridgeTypeOK
<1>2. QED BY <1>1 DEF Recalls, Excused, Linked, Undone, Unsaved, Unseen

LEMMA EndRoll ==
  ASSUME BridgeTypeInv, ReachInv, RollInv, NEW p \in Procs, Others(p), End(p),
         UNCHANGED <<concurrent, link, addrs, isolated, uplink, moves>>,
         Fault \/ UNCHANGED faults, place[p] \notin {"idle", "undo2"},
         Fault \/ place[p] \notin {"isolate", "isolate2"}
  PROVE  RollInv'
<1>1. CASE concurrent BY <1>1, TogetherRoll
<1>2. CASE ~concurrent BY <1>2, StillRoll, AloneRoll, Alone, EndRecalls
<1>3. QED BY <1>1, <1>2

\* A command that has not begun to set anything passes on.
LEMMA EarlyRoll ==
  ASSUME BridgeTypeInv, ReachInv, RollInv, NEW p \in Procs, Others(p), ~concurrent => p = First,
         UNCHANGED <<concurrent, link, addrs, isolated, uplink, moves, faults>>,
         place[p] \notin {"undo2", "isolate", "isolate2"},
         place'[p] \in {"list", "parent", "address", "exists", "ensure", "unroute"},
         saved'[p] = Unsaved, ~concurrent => Recalls(p)'
  PROVE  RollInv'
<1>1. CASE concurrent BY <1>1, TogetherRoll
<1>2. CASE ~concurrent
  <2>1. Excused(p)'
    BY DEF Excused, Undone, Unsaved
  <2>2. QED BY <1>2, <2>1, StillRoll, AloneRoll
<1>3. QED BY <1>1, <1>2

LEMMA ListRoll ==
  ASSUME BridgeTypeInv, ReachInv, RollInv, NEW p \in Procs, List(p)
  PROVE  RollInv'
<1>0. Others(p) /\ place[p] = "list"
  BY StepOthers, Parts DEF BridgeTypeInv, Configure, List, At
<1>u. UNCHANGED <<concurrent, link, addrs, isolated, uplink, moves>>
  BY DEF List, fixed, world, host
<1>1. CASE End(p)
  BY <1>0, <1>u, <1>1, EndRoll DEF List
<1>2. CASE ~End(p)
  <2>1. /\ place'[p] = "parent" /\ saved'[p] = saved[p] /\ faults' = faults
        /\ before'[p].link = before[p].link /\ before'[p].isolated = before[p].isolated
    BY <1>2 DEF List, Enter, BridgeTypeInv, BridgeTypeOK
  <2>2. ~concurrent => Recalls(p)'
    BY <1>0, <2>1 DEF RollInv, Recalls, Linked
  <2>3. CASE concurrent
    BY <1>u, <2>3, TogetherRoll
  <2>4. CASE ~concurrent
    <3>1. saved[p] = Unsaved
      BY <1>0, <2>4 DEF RollInv, Recalls
    <3>2. QED BY <1>0, <1>u, <2>1, <2>2, <3>1, EarlyRoll, Alone
  <2>5. QED BY <2>3, <2>4
<1>3. QED BY <1>1, <1>2

\* The end of a half takes nothing back.
LEMMA HalfRoll ==
  ASSUME BridgeTypeInv, ReachInv, RollInv, NEW p \in Procs, Others(p), HalfDone(p),
         UNCHANGED <<concurrent, link, addrs, isolated, uplink, moves, faults>>,
         place[p] \in {"parent", "route"}
  PROVE  RollInv'
<1>1. CASE End(p)
  BY <1>1, EndRoll
<1>2. CASE ~End(p)
  <2>1. place'[p] = "parent" /\ saved'[p] = Unsaved /\ before' = before
    BY <1>2 DEF HalfDone, Succeed, Enter, BridgeTypeInv, BridgeTypeOK
  <2>2. ~concurrent => Recalls(p)'
    BY <2>1 DEF RollInv, Recalls, Linked
  <2>3. QED BY <2>1, <2>2, EarlyRoll, Alone
<1>3. QED BY <1>1, <1>2

LEMMA FindParentRoll ==
  ASSUME BridgeTypeInv, ReachInv, RollInv, NEW p \in Procs, FindParent(p)
  PROVE  RollInv'
<1>0. Others(p) /\ place[p] = "parent"
  BY StepOthers, Parts DEF BridgeTypeInv, Configure, FindParent, At
<1>u. UNCHANGED <<concurrent, link, addrs, isolated, uplink, moves>>
  BY DEF FindParent, fixed, world, host
<1>1. CASE HalfDone(p) /\ UNCHANGED faults
  BY <1>0, <1>u, <1>1, HalfRoll
<1>2. CASE End(p) /\ Fault
  BY <1>0, <1>u, <1>2, EndRoll
<1>3. CASE /\ Enter(p, IF family[p] = 4 THEN "address" ELSE "exists")
           /\ before' = [before EXCEPT ![p] = [@ EXCEPT !.link = link, !.isolated = isolated]]
           /\ UNCHANGED <<saved, faults>>
  <2>1. /\ place'[p] \in {"address", "exists"} /\ saved'[p] = saved[p] /\ faults' = faults
        /\ before'[p].link = link /\ before'[p].isolated = isolated
    BY <1>3 DEF Enter, BridgeTypeInv, BridgeTypeOK
  <2>2. ~concurrent => saved'[p] = Unsaved /\ Recalls(p)'
    BY <1>0, <1>u, <2>1 DEF RollInv, Recalls, Linked, ReachInv, LinkInv
  <2>3. CASE concurrent
    BY <1>u, <2>3, TogetherRoll
  <2>4. CASE ~concurrent
    BY <1>0, <1>u, <2>1, <2>2, <2>4, EarlyRoll, Alone
  <2>5. QED BY <2>3, <2>4
<1>4. QED BY <1>1, <1>2, <1>3 DEF FindParent

LEMMA ChooseAddressRoll ==
  ASSUME BridgeTypeInv, ReachInv, RollInv, NEW p \in Procs, ChooseAddress(p)
  PROVE  RollInv'
<1>0. Others(p) /\ place[p] = "address"
  BY StepOthers, Parts DEF BridgeTypeInv, Configure, ChooseAddress, At
<1>u. UNCHANGED <<concurrent, link, addrs, isolated, uplink, moves, faults>>
  BY DEF ChooseAddress, fixed, world, host
<1>1. CASE End(p)
  BY <1>0, <1>u, <1>1, EndRoll
<1>2. CASE ~End(p)
  <2>1. place'[p] = "exists" /\ UNCHANGED <<saved, before>>
    BY <1>2 DEF ChooseAddress, Enter, BridgeTypeInv, BridgeTypeOK
  <2>2. ~concurrent => saved'[p] = Unsaved /\ Recalls(p)'
    BY <1>0, <1>u, <2>1 DEF RollInv, Recalls, Linked
  <2>3. CASE concurrent
    BY <1>u, <2>3, TogetherRoll
  <2>4. CASE ~concurrent
    BY <1>0, <1>u, <2>1, <2>2, <2>4, EarlyRoll, Alone
  <2>5. QED BY <2>3, <2>4
<1>3. QED BY <1>1, <1>2

LEMMA LookForShimRoll ==
  ASSUME BridgeTypeInv, ReachInv, RollInv, NEW p \in Procs, LookForShim(p)
  PROVE  RollInv'
<1>0. Others(p) /\ place[p] = "exists"
  BY StepOthers, Parts DEF BridgeTypeInv, Configure, LookForShim, At
<1>u. UNCHANGED <<concurrent, link, addrs, isolated, uplink, moves, faults, saved, before>>
  BY DEF LookForShim, outside, fixed, world
<1>1. place'[p] = "ensure" /\ created'[p] = (link = None)
  BY DEF LookForShim, Enter, BridgeTypeInv, BridgeTypeOK
<1>2. ~concurrent => saved'[p] = Unsaved /\ Recalls(p)'
  <2>1. SUFFICES ASSUME ~concurrent PROVE saved'[p] = Unsaved /\ Recalls(p)'
    OBVIOUS
  <2>2. /\ saved[p] = Unsaved /\ before[p].link = link /\ before[p].isolated = isolated
        /\ before[p].link = None => Shim \notin before[p].isolated
    BY <1>0, <2>1 DEF RollInv, Recalls
  <2>3. created'[p] <=> before'[p].link = None
    BY <1>u, <1>1, <2>2
  <2>4. isolated' = before'[p].isolated \cup {} /\ {} = {} \cap before'[p].isolated
    BY <1>u, <2>2
  <2>5. QED BY <1>u, <1>1, <2>2, <2>3, <2>4 DEF Recalls, Linked, Unsaved
<1>3. CASE concurrent
  BY <1>u, <1>3, TogetherRoll
<1>4. CASE ~concurrent
  BY <1>0, <1>u, <1>1, <1>2, <1>4, EarlyRoll, Alone
<1>5. QED BY <1>3, <1>4

\* While nothing has failed and the uplink has not moved, the second half of a
\* call finds the shim of the first.
LEMMA CalmShim ==
  ASSUME BridgeTypeInv, ReachInv, RollInv, NEW p \in Procs, place[p] = "ensure",
         ~concurrent, Calm
  PROVE  /\ link \in {None, parent[p]}
         /\ link = None => created[p] /\ family[p] = 4
<1>1. Knows(p) /\ HalfWay(p) /\ Chosen(p) /\ Recalls(p) /\ family[p] \in {4, 6}
  BY DEF ReachInv, Standing, BridgeTypeInv, BridgeTypeOK, RollInv
<1>2. Steady(p) /\ uplink # None
  BY <1>1, HostBridgeAssumption DEF Knows, Steady, Calm, BridgeTypeInv, BridgeTypeOK
<1>3. parent[p] = uplink /\ uplink \in Wired
  BY <1>1, <1>2 DEF Knows, Chosen, Working, Places
<1>4. link \in {None, parent[p]}
  BY <1>3 DEF RollInv, CalmInv
<1>5. link = None => created[p]
  BY <1>1 DEF Recalls
<1>6. link = None => family[p] # 6
  BY <1>1, <1>2, <1>3 DEF HalfWay, Serving
<1>7. QED BY <1>1, <1>4, <1>5, <1>6

\* Commands that overlap delete no shim.
LEMMA DeletesAlone ==
  ASSUME BridgeTypeInv, ReachInv, NEW p \in Procs, place[p] = "ensure",
         link \notin {None, parent[p]}
  PROVE  ~concurrent
<1>1. SUFFICES ASSUME concurrent PROVE FALSE
  OBVIOUS
<1>2. link \in {None, uplink} /\ moves = 0 /\ Knows(p)
  BY <1>1 DEF ReachInv, Standing, LinkInv, ModeInv
<1>3. Steady(p)
  BY <1>2, HostBridgeAssumption DEF Knows, Steady, BridgeTypeInv, BridgeTypeOK
<1>4. QED BY <1>2, <1>3 DEF Knows

LEMMA EnsureShimRoll ==
  ASSUME BridgeTypeInv, ReachInv, RollInv, NEW p \in Procs, EnsureShim(p)
  PROVE  RollInv'
<1>0. Others(p) /\ place[p] = "ensure"
  BY StepOthers, Parts DEF BridgeTypeInv, Configure, EnsureShim, At
<1>u. UNCHANGED <<concurrent, uplink, moves>>
  BY DEF EnsureShim, fixed, world
<1>1. CASE Fault /\ End(p) /\ UNCHANGED <<link, addrs, up, isolated, routes, neigh>>
  BY <1>0, <1>u, <1>1, EndRoll
<1>2. ASSUME NEW s \in {"isolate", "add"}, Enter(p, s), UNCHANGED <<work, faults>>,
             UNCHANGED <<link, addrs, isolated>>, s = "add" => link = None
      PROVE  RollInv'
  <2>1. place'[p] = s /\ UNCHANGED <<family, parent, created, saved, before>>
    BY <1>2 DEF Enter, work, BridgeTypeInv, BridgeTypeOK
  <2>2. CASE concurrent
    BY <1>2, <1>u, <2>2, TogetherRoll
  <2>3. CASE ~concurrent
    <3>1. Recalls(p) /\ saved[p] = Unsaved
      BY <1>0, <2>3 DEF RollInv, Recalls
    <3>2. Recalls(p)'
      BY <1>0, <1>2, <1>u, <2>1, <3>1 DEF Recalls, Linked, Unsaved
    <3>3. Excused(p)'
      BY <1>0, <1>2, <1>u, <2>1, <2>3, <3>1, CalmShim DEF Excused, Undone, Unsaved, Calm
    <3>4. QED BY <1>0, <1>2, <1>u, <2>3, <3>2, <3>3, StillRoll, AloneRoll, Alone
  <2>4. QED BY <2>2, <2>3
<1>3. CASE link \notin {None, parent[p]} /\ DeleteLink /\ Enter(p, "add") /\ UNCHANGED <<work, faults>>
  <2>1. place'[p] = "add" /\ UNCHANGED <<family, parent, created, saved, before>>
    BY <1>3 DEF Enter, work, BridgeTypeInv, BridgeTypeOK
  <2>2. ~concurrent /\ ~Calm
    BY <1>0, <1>3, DeletesAlone, CalmShim
  <2>3. Recalls(p) /\ saved[p] = Unsaved
    BY <1>0, <2>2 DEF RollInv, Recalls
  <2>4. Recalls(p)'
    BY <1>0, <1>3, <2>1, <2>3 DEF Recalls, Linked
  <2>5. Excused(p)'
    BY <1>3, <1>u, <2>1, <2>2, <2>3 DEF Excused, Undone, Unsaved, Calm
  <2>6. CalmInv' /\ FluxInv'
    BY <1>3 DEF DeleteLink, CalmInv, FluxInv
  <2>7. QED BY <1>0, <1>u, <2>2, <2>4, <2>5, <2>6, AloneRoll, Alone
<1>4. QED BY <1>1, <1>2, <1>3 DEF EnsureShim

LEMMA AddLinkRoll ==
  ASSUME BridgeTypeInv, ReachInv, RollInv, NEW p \in Procs, AddLink(p)
  PROVE  RollInv'
<1>0. Others(p) /\ place[p] = "add" /\ Chosen(p) /\ Knows(p)
  BY StepOthers, Parts DEF BridgeTypeInv, Configure, AddLink, At, ReachInv, Standing
<1>u. UNCHANGED <<concurrent, uplink, addrs, isolated, moves>>
  BY DEF AddLink, fixed, world
<1>1. CASE (Fault \/ UNCHANGED faults) /\ End(p) /\ UNCHANGED link
  BY <1>0, <1>u, <1>1, EndRoll
<1>2. CASE link = None /\ link' = parent[p] /\ Enter(p, "isolate") /\ UNCHANGED <<work, faults>>
  <2>1. place'[p] = "isolate" /\ UNCHANGED <<family, parent, created, saved, before>>
    BY <1>2 DEF Enter, work, BridgeTypeInv, BridgeTypeOK
  <2>2. CASE concurrent
    BY <1>2, <1>u, <2>2, TogetherRoll
  <2>3. CASE ~concurrent
    <3>1. Recalls(p) /\ Excused(p) /\ saved[p] = Unsaved
      BY <1>0, <2>3 DEF RollInv, Recalls
    <3>2. Recalls(p)'
      BY <1>0, <1>u, <2>1, <3>1 DEF Recalls, Linked
    <3>3. Excused(p)'
      BY <2>1, <3>1 DEF Excused, Undone, Unsaved
    <3>4. addrs' = <<>>
      BY <1>2, <1>u DEF ReachInv, LinkInv
    <3>5. FluxInv'
      BY <3>4 DEF FluxInv
    <3>6. CalmInv'
      <4>1. ASSUME Calm PROVE parent[p] = uplink /\ created[p] /\ family[p] = 4
        <5>1. Steady(p)
          BY <1>0, <4>1, HostBridgeAssumption DEF Knows, Steady, Calm, BridgeTypeInv, BridgeTypeOK
        <5>2. QED BY <1>0, <3>1, <4>1, <5>1 DEF Knows, Excused
      <4>2. QED BY <1>2, <1>u, <2>1, <4>1 DEF CalmInv, Calm
    <3>7. QED BY <1>0, <1>u, <2>3, <3>2, <3>3, <3>5, <3>6, AloneRoll, Alone
  <2>4. QED BY <2>2, <2>3
<1>3. QED BY <1>1, <1>2 DEF AddLink

\* Taking settings back keeps the shim apart when none was this command's to make.
LEMMA RestoredApart ==
  ASSUME NEW p \in Procs, Apart, link # None, Undone(p) \cap {link, Shim} = {}
  PROVE  {link, Shim} \subseteq Restored(p)
BY DEF Apart, Restored, Undone

LEMMA IsolateRoll ==
  ASSUME BridgeTypeInv, ReachInv, RollInv, NEW p \in Procs, Isolate(p)
  PROVE  RollInv'
<1>0. Others(p) /\ place[p] \in {"isolate", "isolate2"} /\ Holds(p) /\ Chosen(p)
  BY StepOthers, Parts DEF BridgeTypeInv, Configure, Isolate, ReachInv, Standing
<1>u. UNCHANGED <<concurrent, uplink, link, addrs, moves>>
  BY DEF Isolate, fixed, world
<1>l. link = parent[p] /\ link # None /\ parent[p] # Shim
  <2>1. parent[p] \in Wired
    BY <1>0 DEF Chosen, Working, Places
  <2>2. QED BY <1>0, <2>1, LinkThere, HostBridgeAssumption DEF Linked, Uplinks
<1>q. ~concurrent => \A q \in Procs : q = p \/ place[q] = "idle"
  BY <1>0 DEF ReachInv, ModeInv
<1> DEFINE key == IF At(p, "isolate") THEN parent[p] ELSE Shim
<1>k. key \in {link, Shim} /\ (place[p] = "isolate2" => key = Shim)
  BY <1>l DEF At
<1>1. CASE Fault /\ End(p) /\ UNCHANGED isolated
  BY <1>0, <1>u, <1>1, EndRoll
<1>2. CASE Fault /\ End(p) /\ isolated' = Restored(p)
  <2>1. ~concurrent /\ ~Calm'
    BY <1>2, HostBridgeAssumption DEF Fault, Calm, BridgeTypeInv, BridgeTypeOK
  <2>2. FluxInv'
    <3>1. SUFFICES ASSUME addrs # <<>>, Pardon' PROVE Apart'
      BY <1>u DEF FluxInv
    <3>2. Pardon
      BY <1>2, <1>u, <3>1, Pardons
    <3>3. Apart
      BY <1>0, <1>q, <2>1, <3>1, <3>2 DEF RollInv, FluxInv, At
    <3>4. Undone(p) \cap {link, Shim} = {}
      BY <1>0, <2>1, <3>1, <3>2 DEF RollInv, Excused
    <3>5. QED BY <1>2, <1>l, <1>u, <3>3, <3>4, RestoredApart DEF Apart
  <2>3. QED BY <1>0, <1>2, <1>u, <2>1, <2>2, AloneRoll, Alone, EndRecalls DEF CalmInv
<1>3. CASE /\ isolated' = isolated \cup {key}
           /\ saved' = [saved EXCEPT ![p] = [set |-> @.set \cup {key},
                                            was |-> @.was \cup ({key} \cap isolated)]]
           /\ Enter(p, IF At(p, "isolate") THEN "isolate2"
                       ELSE IF family[p] = 4 THEN "addr" ELSE "up")
           /\ UNCHANGED <<subject, family, targets, parent, pick, created, todo, before, faults>>
  <2>1. /\ place'[p] = IF place[p] = "isolate" THEN "isolate2"
                       ELSE IF family[p] = 4 THEN "addr" ELSE "up"
        /\ saved'[p].set = saved[p].set \cup {key}
        /\ saved'[p].was = saved[p].was \cup ({key} \cap isolated)
        /\ UNCHANGED <<family, parent, created, before, faults>>
    BY <1>3 DEF Enter, At, BridgeTypeInv, BridgeTypeOK
  <2>2. isolated' = isolated \cup {key}
    BY <1>3
  <2>3. CASE concurrent
    BY <1>u, <2>2, <2>3, TogetherRoll
  <2>4. CASE ~concurrent
    <3>1. Recalls(p) /\ Excused(p) /\ CalmInv /\ FluxInv
      BY <2>4 DEF RollInv
    <3>2. FluxInv'
      <4>1. SUFFICES ASSUME addrs # <<>>, Pardon PROVE Apart'
        BY <1>u, <2>1 DEF FluxInv, Pardon
      <4>2. Apart
        BY <1>0, <1>q, <2>4, <3>1, <4>1 DEF FluxInv, At
      <4>3. QED BY <1>u, <2>2, <4>2 DEF Apart
    <3>3. CalmInv'
      <4>1. SUFFICES ASSUME Calm
                     PROVE  /\ link = uplink
                            /\ Apart' \/ (place'[p] = "isolate2" /\ created[p] /\ family[p] = 4)
        BY <1>u, <2>1 DEF CalmInv, Calm
      <4>2. link = uplink /\ (Apart \/ (created[p] /\ family[p] = 4))
        BY <1>l, <1>q, <2>4, <3>1, <4>1 DEF CalmInv
      <4>3. CASE place[p] = "isolate"
        BY <1>u, <2>1, <2>2, <4>2, <4>3 DEF Apart
      <4>4. CASE place[p] = "isolate2"
        BY <1>0, <1>k, <1>l, <1>u, <2>2, <4>2, <4>4 DEF Apart, Holds
      <4>5. QED BY <1>0, <4>3, <4>4
    <3>4. Recalls(p)'
      <4>1. key \notin saved[p].set
        BY <1>0, <1>k, <1>l, <3>1 DEF Recalls, Unsaved
      <4>2. CASE before[p].link \in {None, parent[p]}
        <5>1. /\ isolated = before[p].isolated \cup saved[p].set
              /\ saved[p].was = saved[p].set \cap before[p].isolated
          BY <1>0, <3>1, <4>2 DEF Recalls, Linked
        <5>2. {key} \cap isolated = {key} \cap before[p].isolated
          BY <4>1, <5>1
        <5>3. /\ isolated' = before[p].isolated \cup saved'[p].set
              /\ saved'[p].was = saved'[p].set \cap before[p].isolated
          BY <2>1, <2>2, <5>1, <5>2
        <5>4. saved[p].set = {} \/ place[p] = "isolate2"
          BY <1>0, <3>1 DEF Recalls, Unsaved
        <5>5. place'[p] = "isolate2" => saved'[p].set \subseteq {parent[p]}
          BY <1>0, <2>1, <5>4 DEF At
        <5>6. QED BY <1>0, <2>1, <3>1, <5>3, <5>5 DEF Recalls, Linked
      <4>3. CASE before[p].link \notin {None, parent[p]}
        <5>4. saved[p].set = {} \/ place[p] = "isolate2"
          BY <1>0, <3>1 DEF Recalls, Unsaved
        <5>5. place'[p] = "isolate2" => saved'[p].set \subseteq {parent[p]}
          BY <1>0, <2>1, <5>4 DEF At
        <5>6. QED BY <1>0, <2>1, <3>1, <4>3, <5>5 DEF Recalls, Linked
      <4>4. QED BY <4>2, <4>3
    <3>5. Excused(p)'
      <4>1. Undone(p)' \subseteq Undone(p) \cup ({key} \ isolated)
        BY <2>1 DEF Undone
      <4>2. key \notin isolated => ~Apart
        BY <1>k DEF Apart
      <4>3. Calm /\ key \notin isolated => created[p] /\ family[p] = 4
        BY <1>l, <1>q, <2>4, <3>1, <4>2 DEF CalmInv
      <4>4. Pardon /\ addrs # <<>> => key \in isolated
        BY <1>0, <1>q, <2>4, <3>1, <4>2 DEF FluxInv, At
      <4>5. Calm /\ Undone(p)' \cap {link, Shim} # {} => created[p] /\ family[p] = 4
        BY <3>1, <4>1, <4>3 DEF Excused
      <4>6. Pardon /\ addrs # <<>> => Undone(p)' \cap {link, Shim} = {}
        BY <1>0, <3>1, <4>1, <4>4 DEF Excused
      <4>7. (Calm' <=> Calm) /\ (Pardon' <=> Pardon) /\ place'[p] \notin {"add", "undo2"}
        BY <1>u, <2>1 DEF Calm, Pardon
      <4>8. QED BY <1>u, <2>1, <4>5, <4>6, <4>7 DEF Excused
    <3>6. QED BY <1>0, <1>u, <2>4, <3>2, <3>3, <3>4, <3>5, AloneRoll, Alone
  <2>5. QED BY <2>3, <2>4
<1>4. QED BY <1>1, <1>2, <1>3, <1>l DEF Isolate

\* On the way to the routes a command that runs alone changes no setting back.
LEMMA LateRoll ==
  ASSUME BridgeTypeInv, ReachInv, RollInv, NEW p \in Procs, Others(p),
         UNCHANGED <<concurrent, link, addrs, isolated, uplink, moves, faults>>,
         UNCHANGED <<family, parent, created, saved, before>>,
         place[p] \in {"up", "route", "neigh"}, place'[p] \in {"route", "neigh"}
  PROVE  RollInv'
<1>1. CASE concurrent BY <1>1, TogetherRoll
<1>2. CASE ~concurrent
  <2>1. Recalls(p) /\ Excused(p)
    BY <1>2 DEF RollInv
  <2>2. Recalls(p)'
    BY <2>1 DEF Recalls, Linked
  <2>3. Excused(p)'
    BY <2>1 DEF Excused, Undone, Calm, Pardon
  <2>4. QED BY <1>2, <2>2, <2>3, StillRoll, AloneRoll, Alone
<1>3. QED BY <1>1, <1>2

\* A command turns to its rollback.
LEMMA AbortRoll ==
  ASSUME BridgeTypeInv, ReachInv, RollInv, NEW p \in Procs, Others(p), Abort(p),
         UNCHANGED <<concurrent, link, addrs, isolated, uplink, moves>>,
         place[p] \in {"addr", "up", "route", "neigh"},
         Fault \/ (family[p] = 6 /\ UNCHANGED faults)
  PROVE  RollInv'
<1>1. CASE concurrent BY <1>1, TogetherRoll
<1>2. CASE ~concurrent
  <2>1. Recalls(p) /\ Excused(p)
    BY <1>2 DEF RollInv
  <2>2. place'[p] = "undo" /\ UNCHANGED <<family, parent, created, saved, before>>
    BY DEF Abort, Enter, work, BridgeTypeInv, BridgeTypeOK
  <2>3. Recalls(p)'
    BY <2>1, <2>2 DEF Recalls, Linked
  <2>4. (Calm' => Calm) /\ (Pardon' => Pardon) /\ (Pardon' /\ Fault => Calm)
    BY Pardons
  <2>5. Undone(p)' = Undone(p)
    BY <2>2 DEF Undone
  <2>6. Excused(p)'
    BY <2>1, <2>2, <2>4, <2>5 DEF Excused
  <2>7. QED BY <1>2, <2>3, <2>6, StillRoll, AloneRoll, Alone
<1>3. QED BY <1>1, <1>2

LEMMA SetAddressRoll ==
  ASSUME BridgeTypeInv, ReachInv, RollInv, NEW p \in Procs, SetAddress(p)
  PROVE  RollInv'
<1>0. Others(p) /\ place[p] = "addr" /\ Holds(p) /\ Chosen(p)
  BY StepOthers, Parts DEF BridgeTypeInv, Configure, SetAddress, At, ReachInv, Standing
<1>u. UNCHANGED <<concurrent, uplink, link, isolated, moves>>
  BY DEF SetAddress, fixed, world
<1>l. link = parent[p] /\ link # None
  BY <1>0, LinkThere DEF Linked
<1>1. CASE Fault /\ Abort(p) /\ UNCHANGED addrs
  BY <1>0, <1>u, <1>1, AbortRoll
<1>2. CASE Enter(p, "up") /\ UNCHANGED <<work, faults>>
  <2>1. place'[p] = "up" /\ UNCHANGED <<family, parent, created, saved, before>>
    BY <1>2 DEF Enter, work, BridgeTypeInv, BridgeTypeOK
  <2>2. Apart'
    BY <1>0, <1>l, <1>u DEF Holds, Apart
  <2>3. CASE concurrent
    BY <1>u, <2>2, <2>3 DEF RollInv, FluxInv, CalmInv
  <2>4. CASE ~concurrent
    <3>1. Recalls(p) /\ Excused(p) /\ CalmInv
      BY <2>4 DEF RollInv
    <3>2. Recalls(p)'
      BY <1>0, <1>u, <2>1, <3>1 DEF Recalls, Linked
    <3>3. Excused(p)'
      BY <1>0, <1>2, <1>u, <2>1, <3>1 DEF Excused, Undone, Calm, Pardon, Chosen
    <3>4. CalmInv' /\ FluxInv'
      BY <1>2, <1>u, <2>2, <2>4, <3>1 DEF CalmInv, FluxInv, Calm
    <3>5. QED BY <1>0, <1>u, <2>4, <3>2, <3>3, <3>4, AloneRoll, Alone
  <2>5. QED BY <2>3, <2>4
<1>3. QED BY <1>1, <1>2, <1>l DEF SetAddress

LEMMA LinkUpRoll ==
  ASSUME BridgeTypeInv, ReachInv, RollInv, NEW p \in Procs, LinkUp(p)
  PROVE  RollInv'
<1>0. Others(p) /\ place[p] = "up" /\ link # None
  BY StepOthers, Parts, LinkThere DEF BridgeTypeInv, Configure, LinkUp, At, Linked
<1>u. UNCHANGED <<concurrent, uplink, link, addrs, isolated, moves>>
  BY DEF LinkUp, fixed, world
<1>1. CASE Fault /\ Abort(p)
  BY <1>0, <1>u, <1>1, AbortRoll
<1>2. CASE Enter(p, "route") /\ UNCHANGED <<family, parent, created, saved, before, faults>>
  <2>1. place'[p] = "route"
    BY <1>2 DEF Enter, BridgeTypeInv, BridgeTypeOK
  <2>2. QED BY <1>0, <1>u, <1>2, <2>1, LateRoll
<1>3. QED BY <1>0, <1>1, <1>2 DEF LinkUp

LEMMA ReplaceRouteRoll ==
  ASSUME BridgeTypeInv, ReachInv, RollInv, NEW p \in Procs, ReplaceRoute(p)
  PROVE  RollInv'
<1>0. Others(p) /\ place[p] = "route" /\ Holds(p) /\ Chosen(p) /\ family[p] \in {4, 6}
  BY StepOthers, Parts
     DEF BridgeTypeInv, BridgeTypeOK, Configure, ReplaceRoute, At, ReachInv, Standing
<1>u. UNCHANGED <<concurrent, uplink, link, addrs, isolated, moves>>
  BY DEF ReplaceRoute, fixed, world
<1>1. CASE Fault /\ Abort(p)
  BY <1>0, <1>u, <1>1, AbortRoll
<1>2. CASE Enter(p, "neigh") /\ UNCHANGED <<work, faults>>
  <2>1. place'[p] = "neigh"
    BY <1>2 DEF Enter, BridgeTypeInv, BridgeTypeOK
  <2>2. QED BY <1>0, <1>u, <1>2, <2>1, LateRoll DEF work
<1>3. Routable(p)
  BY <1>0 DEF Routable, Holds
<1>4. QED BY <1>1, <1>2, <1>3 DEF ReplaceRoute

LEMMA ReplaceNeighbourRoll ==
  ASSUME BridgeTypeInv, ReachInv, RollInv, NEW p \in Procs, ReplaceNeighbour(p)
  PROVE  RollInv'
<1>0. Others(p) /\ place[p] = "neigh" /\ link # None
  BY StepOthers, Parts, LinkThere DEF BridgeTypeInv, Configure, ReplaceNeighbour, At, Linked
<1>u. UNCHANGED <<concurrent, uplink, link, addrs, isolated, moves>>
  BY DEF ReplaceNeighbour, fixed, world
<1>1. CASE Abort(p) /\ (Fault \/ (family[p] = 6 /\ UNCHANGED faults))
  BY <1>0, <1>u, <1>1, AbortRoll
<1>2. CASE Enter(p, "route") /\ UNCHANGED <<family, parent, created, saved, before, faults>>
  <2>1. place'[p] = "route"
    BY <1>2 DEF Enter, BridgeTypeInv, BridgeTypeOK
  <2>2. QED BY <1>0, <1>u, <1>2, <2>1, LateRoll
<1>3. QED BY <1>0, <1>1, <1>2 DEF ReplaceNeighbour

LEMMA RemoveLegacyShimRoll ==
  ASSUME BridgeTypeInv, ReachInv, RollInv, NEW p \in Procs, RemoveLegacyShim(p)
  PROVE  RollInv'
<1>1. Others(p) /\ place[p] = "route" /\ HalfDone(p)
  BY StepOthers, Parts DEF BridgeTypeInv, Configure, RemoveLegacyShim, At
<1>2. UNCHANGED <<concurrent, link, addrs, isolated, uplink, moves, faults>>
  BY DEF RemoveLegacyShim, fixed, world
<1>3. QED BY <1>1, <1>2, HalfRoll

\* The settings of a command that runs alone go back to what it found.
LEMMA UndoRoll ==
  ASSUME BridgeTypeInv, ReachInv, RollInv, NEW p \in Procs, Undo(p)
  PROVE  RollInv'
<1>0. Others(p) /\ place[p] = "undo"
  BY StepOthers, Parts DEF BridgeTypeInv, Configure, Undo, At
<1>1. ~concurrent
  BY <1>0 DEF ReachInv, ModeInv
<1>2. Recalls(p) /\ Excused(p) /\ CalmInv /\ FluxInv
  BY <1>1 DEF RollInv
<1>3. link = parent[p] /\ link # None
  BY <1>0, LinkThere DEF Linked
<1>4. \A q \in Procs : q = p \/ place[q] = "idle"
  BY <1>0, <1>1 DEF ReachInv, ModeInv
<1>5. /\ place'[p] = "undo2" /\ isolated' = Restored(p)
      /\ UNCHANGED <<concurrent, link, addrs, uplink, moves, faults>>
      /\ UNCHANGED <<family, parent, created, saved, before>>
  BY DEF Undo, Enter, fixed, world, work, BridgeTypeInv, BridgeTypeOK
<1>6. Apart /\ Undone(p) \cap {link, Shim} = {} => Apart'
  BY <1>3, <1>5, RestoredApart DEF Apart
<1>7. (Calm' <=> Calm) /\ (Pardon' <=> Pardon) /\ Undone(p)' = Undone(p)
  BY <1>5 DEF Calm, Pardon, Undone
<1>8. CalmInv'
  <2>1. SUFFICES ASSUME Calm
                 PROVE  /\ link = uplink
                        /\ Apart' \/ (created[p] /\ family[p] = 4)
    BY <1>5, <1>7 DEF CalmInv
  <2>2. link = uplink /\ Apart
    BY <1>0, <1>1, <1>2, <1>3, <1>4, <2>1 DEF CalmInv
  <2>3. QED BY <1>2, <1>6, <2>1, <2>2 DEF Excused
<1>9. FluxInv'
  BY <1>5 DEF FluxInv, At
<1>10. Recalls(p)'
  <2>1. CASE before[p].link \in {None, parent[p]}
    <3>1. /\ isolated = before[p].isolated \cup saved[p].set
          /\ saved[p].was = saved[p].set \cap before[p].isolated
      BY <1>0, <1>2, <2>1 DEF Recalls, Linked
    <3>2. Restored(p) = before[p].isolated
      BY <1>3, <3>1 DEF Restored
    <3>3. QED BY <1>0, <1>2, <1>5, <3>2 DEF Recalls, Linked
  <2>2. CASE before[p].link \notin {None, parent[p]}
    BY <1>0, <1>2, <1>5, <2>2 DEF Recalls, Linked
  <2>3. QED BY <2>1, <2>2
<1>11. Excused(p)'
  <2>1. Pardon /\ addrs # <<>> /\ ~created[p] => Apart'
    <3>1. SUFFICES ASSUME Pardon, addrs # <<>>, ~created[p] PROVE Apart'
      OBVIOUS
    <3>2. Undone(p) \cap {link, Shim} = {}
      BY <1>0, <1>2, <3>1 DEF Excused
    <3>3. Apart
      BY <1>0, <1>2, <1>4, <3>1 DEF FluxInv, At
    <3>4. QED BY <1>6, <3>2, <3>3
  <2>2. QED BY <1>0, <1>2, <1>5, <1>7, <2>1 DEF Excused
<1>12. QED BY <1>0, <1>1, <1>5, <1>8, <1>9, <1>10, <1>11, AloneRoll, Alone

LEMMA UndoLinkRoll ==
  ASSUME BridgeTypeInv, ReachInv, RollInv, NEW p \in Procs, UndoLink(p)
  PROVE  RollInv'
<1>0. Others(p) /\ place[p] = "undo2" /\ End(p)
  BY StepOthers, Parts DEF BridgeTypeInv, Configure, UndoLink, At
<1>1. ~concurrent
  BY <1>0 DEF ReachInv, ModeInv
<1>2. Excused(p) /\ CalmInv
  BY <1>1 DEF RollInv
<1>3. UNCHANGED <<concurrent, uplink, moves, faults>>
  BY DEF UndoLink, fixed, world
<1>4. \A q \in Procs : q = p \/ place[q] = "idle"
  BY <1>0, <1>1 DEF ReachInv, ModeInv
<1>5. CalmInv' /\ FluxInv'
  <2>1. CASE created[p]
    BY <2>1 DEF UndoLink, DeleteLink, CalmInv, FluxInv
  <2>2. CASE ~created[p]
    <3>1. UNCHANGED <<link, addrs, isolated>>
      BY <2>2 DEF UndoLink
    <3>2. Calm /\ link # None => link = uplink /\ Apart
      BY <1>0, <1>1, <1>2, <1>4, <2>2 DEF CalmInv
    <3>3. Pardon /\ addrs # <<>> => Apart
      BY <1>0, <1>2, <2>2 DEF Excused
    <3>4. QED BY <1>3, <3>1, <3>2, <3>3 DEF CalmInv, FluxInv, Calm, Pardon, Apart
  <2>3. QED BY <2>1, <2>2
<1>6. QED BY <1>0, <1>1, <1>3, <1>5, AloneRoll, Alone, EndRecalls

LEMMA UnrouteRoll ==
  ASSUME BridgeTypeInv, ReachInv, RollInv, NEW p \in Procs, Unroute(p)
  PROVE  RollInv'
<1>1. Others(p) /\ place[p] = "unroute" /\ End(p)
  BY StepOthers, Parts DEF BridgeTypeInv, Unroute, At
<1>2. UNCHANGED <<concurrent, link, addrs, isolated, uplink, moves>> /\ (Fault \/ UNCHANGED faults)
  BY DEF Unroute, fixed, world
<1>3. QED BY <1>1, <1>2, EndRoll

LEMMA BeginRoll ==
  ASSUME BridgeTypeInv, ReachInv, RollInv, NEW p \in Procs, NEW c \in Containers,
         Launch(p, c) \/ Stop(p, c)
  PROVE  RollInv'
<1>1. Others(p) /\ place[p] = "idle" /\ (~concurrent => p = First)
  BY StepOthers, Parts DEF BridgeTypeInv, Launch, Stop, MayBegin, At, First
<1>2. /\ UNCHANGED <<concurrent, link, addrs, isolated, uplink, moves, faults, saved, before>>
      /\ place'[p] \in {"list", "unroute"}
  BY DEF Launch, Stop, Enter, fixed, host, BridgeTypeInv, BridgeTypeOK
<1>3. saved[p] = Unsaved
  BY <1>1 DEF ReachInv, ModeInv
<1>4. ~concurrent => Recalls(p)'
  BY <1>2, <1>3 DEF RollInv, Recalls, Linked
<1>5. QED BY <1>1, <1>2, <1>3, <1>4, EarlyRoll

\* The containers and the uplink change without the shim.
LEMMA WorldRoll ==
  ASSUME BridgeTypeInv, ReachInv, RollInv,
         (\E c \in Containers : PowerOff(c)) \/ MoveUplink
  PROVE  RollInv'
<1>1. /\ ~concurrent
      /\ UNCHANGED <<concurrent, link, addrs, isolated, place, family, parent, created, saved,
                     before, faults>>
  BY DEF PowerOff, MoveUplink, fixed, host, work
<1>2. (Calm' => Calm /\ UNCHANGED uplink) /\ (Pardon' => Pardon)
  BY HostBridgeAssumption
     DEF PowerOff, MoveUplink, fixed, Calm, Pardon, BridgeTypeInv, BridgeTypeOK
<1>3. CalmInv' /\ FluxInv'
  BY <1>1, <1>2 DEF RollInv, CalmInv, FluxInv, Apart, At
<1>4. ASSUME NEW p \in Procs PROVE Recalls(p)' /\ Excused(p)'
  <2>1. Recalls(p) /\ Excused(p) /\ Undone(p)' = Undone(p)
    BY <1>1 DEF RollInv, Undone
  <2>2. Recalls(p)'
    BY <1>1, <2>1 DEF Recalls
  <2>3. Excused(p)'
    BY <1>1, <1>2, <2>1 DEF Excused, Apart
  <2>4. QED BY <2>2, <2>3
<1>5. QED BY <1>3, <1>4 DEF RollInv

LEMMA RollStep ==
  ASSUME BridgeTypeInv, ReachInv, RollInv, [BridgeNext]_bridgeVars
  PROVE  RollInv'
<1>1. ASSUME NEW p \in Procs, Configure(p) PROVE RollInv'
  BY <1>1, ListRoll, FindParentRoll, ChooseAddressRoll, LookForShimRoll,
     EnsureShimRoll, AddLinkRoll, IsolateRoll, SetAddressRoll, LinkUpRoll,
     ReplaceRouteRoll, ReplaceNeighbourRoll, RemoveLegacyShimRoll, UndoRoll,
     UndoLinkRoll DEF Configure
<1>2. CASE UNCHANGED bridgeVars
  <2>1. UNCHANGED <<concurrent, link, addrs, isolated, place, family, parent, created, saved,
                    before, faults, moves, uplink>>
    BY <1>2 DEF bridgeVars, fixed, world, host, work
  <2>2. QED
    BY <2>1 DEF RollInv, CalmInv, FluxInv, Recalls, Excused, Apart, At, Calm, Pardon, Undone
<1>3. QED BY <1>1, <1>2, UnrouteRoll, BeginRoll, WorldRoll DEF BridgeNext

LEMMA RollInit == BridgeInit => RollInv
BY DEF BridgeInit, RollInv, CalmInv, FluxInv, Recalls, Excused, Linked, Undone, Unsaved, Unseen

-----------------------------------------------------------------------------
(* The theorems.                                                             *)

BridgeInv == BridgeTypeInv /\ ReachInv /\ RollInv

LEMMA BridgeInductive == BridgeSpec => []BridgeInv
<1>1. BridgeInit => BridgeInv
  BY TypeInit, ReachInit, RollInit DEF BridgeInv
<1>2. BridgeInv /\ [BridgeNext]_bridgeVars => BridgeInv'
  BY TypeStep, ReachStep, RollStep DEF BridgeInv
<1>3. QED BY <1>1, <1>2, PTL DEF BridgeSpec

THEOREM BridgeTypeCorrect == BridgeSpec => []BridgeTypeOK
<1>1. BridgeInv => BridgeTypeOK
  BY DEF BridgeInv, BridgeTypeInv
<1>2. QED BY <1>1, BridgeInductive, PTL

THEOREM StaysReachable == BridgeSpec => []Reachable
<1>1. BridgeInv => Reachable
  BY DEF BridgeInv, ReachInv, Reached, Serving, Reachable
<1>2. QED BY <1>1, BridgeInductive, PTL

THEOREM NeverFlux == BridgeSpec => []NoFlux
<1>1. BridgeInv => NoFlux
  BY DEF BridgeInv, RollInv, FluxInv, NoFlux, Pardon, Apart
<1>2. QED BY <1>1, BridgeInductive, PTL

LEMMA RestoreStep ==
  ASSUME BridgeInv, [BridgeNext]_bridgeVars, NEW p \in Procs, ~concurrent,
         At(p, "undo2"), place'[p] = "idle"
  PROVE  /\ before[p].link = None => link' = None
         /\ before[p].link = link' => isolated' = before[p].isolated
<1>1. UndoLink(p)
  <2>1. place \in [Procs -> Places]
    BY DEF BridgeInv, BridgeTypeInv, BridgeTypeOK
  <2>2. ASSUME NEW q \in Procs \ {p},
               Configure(q) \/ Unroute(q) \/ \E c \in Containers : Launch(q, c) \/ Stop(q, c)
        PROVE  FALSE
    <3>1. Others(q)
      BY <2>2, StepOthers, Parts DEF BridgeInv, BridgeTypeInv
    <3>2. QED BY <3>1 DEF Others, Locals, At
  <2>3. ASSUME Configure(p) \/ Unroute(p) \/ \E c \in Containers : Launch(p, c) \/ Stop(p, c)
        PROVE  UndoLink(p)
    BY <2>3 DEF Configure, List, FindParent, ChooseAddress, LookForShim, EnsureShim, AddLink,
                Isolate, SetAddress, LinkUp, ReplaceRoute, ReplaceNeighbour, RemoveLegacyShim,
                Undo, Unroute, Launch, Stop, MayBegin, At
  <2>4. (\E c \in Containers : PowerOff(c)) \/ MoveUplink \/ UNCHANGED bridgeVars => FALSE
    BY DEF PowerOff, MoveUplink, bridgeVars, At
  <2>5. QED BY <2>2, <2>3, <2>4 DEF BridgeNext
<1>2. Recalls(p) /\ place[p] = "undo2" /\ (created[p] <=> before[p].link = None)
  BY DEF BridgeInv, RollInv, At, Recalls, Linked
<1>3. link = parent[p] /\ link # None
  BY <1>2, LinkThere DEF BridgeInv, Linked
<1>4. CASE created[p]
  BY <1>1, <1>2, <1>4 DEF UndoLink, DeleteLink, Recalls
<1>5. CASE ~created[p]
  BY <1>1, <1>2, <1>3, <1>5 DEF UndoLink, Recalls
<1>6. QED BY <1>4, <1>5

THEOREM RollbackKeeps == BridgeSpec => RollbackRestores
<1>1. BridgeInv /\ [BridgeNext]_bridgeVars =>
        [\A p \in Procs : ~concurrent /\ At(p, "undo2") /\ place'[p] = "idle" =>
           /\ before[p].link = None => link' = None
           /\ before[p].link = link' => isolated' = before[p].isolated]_bridgeVars
  BY RestoreStep
<1>2. QED BY <1>1, BridgeInductive, PTL DEF BridgeSpec, RollbackRestores
=============================================================================
