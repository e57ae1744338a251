-------------------------- MODULE SupervisorProofs --------------------------
(***************************************************************************)
(* Proofs about Supervisor.  The inductive invariants are ExtractInv about *)
(* the extraction lock and the marker, ServiceInv about daemon.lock and    *)
(* who may run an incusd, and LeavesInv about what a supervisor has left   *)
(* at each of its steps; then ConfigInv about the commands'                *)
(* initialisation, and VersionInv about which versions are in use.         *)
(***************************************************************************)
EXTENDS Supervisor, TLAPS

\* A function changed in one place, which may lie outside its domain.
LEMMA ExceptKept ==
  ASSUME NEW S, NEW T, NEW f \in [S -> T], NEW a, NEW e, a \in S => e \in T
  PROVE  [f EXCEPT ![a] = e] \in [S -> T]
OBVIOUS

\* Every step keeps the types.
LEMMA TypeStep == TypeOK /\ [Next]_vars => TypeOK'
<1> SUFFICES ASSUME TypeOK, [Next]_vars PROVE TypeOK'
  OBVIOUS
<1> USE SupervisorAssumption DEF TypeOK, Procs, Files, Goto, Move, Fault, disk, service, systemd,
      untouched, away, Alive, Ended, Extracting, Owning, Running, Calling, Extracted
<1>1. ASSUME NEW p \in Procs, FindMarker(p) PROVE TypeOK'
  BY <1>1 DEF FindMarker
<1>2. ASSUME NEW p \in Procs, LockRuntime(p) PROVE TypeOK'
  BY <1>2 DEF LockRuntime
<1>3. ASSUME NEW p \in Procs, Unpack(p) PROVE TypeOK'
  <2>1. CASE unpacked[p] < NumFiles
    <3>1. /\ unpacked[p] + 1 \in 0 .. NumFiles /\ unpacked[p] + 1 \in Files
          /\ files' = files \cup {unpacked[p] + 1}
          /\ unpacked' = [unpacked EXCEPT ![p] = unpacked[p] + 1]
      BY <1>3, <2>1 DEF Unpack
    <3>2. files' \subseteq Files /\ unpacked' \in [Procs -> 0 .. NumFiles]
      BY <3>1
    <3> QED
      BY <1>3, <2>1, <3>2 DEF Unpack
  <2>2. CASE ~(unpacked[p] < NumFiles)
    <3>1. 0 \in 0 .. NumFiles
      OBVIOUS
    <3>2. unpacked' \in [Procs -> 0 .. NumFiles] /\ files' = files
      BY <1>3, <2>2, <3>1 DEF Unpack
    <3>3. pc' \in [Procs -> Running \cup Calling \cup Ended
                          \cup {"off", "done", "failed"}]
      BY <1>3, <2>2 DEF Unpack
    <3> QED
      BY <1>3, <3>2, <3>3 DEF Unpack
  <2> QED
    BY <2>1, <2>2
<1>4. ASSUME NEW p \in Procs, WriteLXCFSConfig(p) PROVE TypeOK'
  BY <1>4 DEF WriteLXCFSConfig
<1>5. ASSUME NEW p \in Procs, WriteMarker(p) PROVE TypeOK'
  BY <1>5 DEF WriteMarker
<1>6. ASSUME NEW p \in Procs, ExtractFails(p) PROVE TypeOK'
  <2>1. marker' \in BOOLEAN
    BY <1>6 DEF ExtractFails
  <2>2. pc' \in [Procs -> Running \cup Calling \cup Ended
                          \cup {"off", "done", "failed"}]
    BY <1>6 DEF ExtractFails
  <2>3. faults' \in 0 .. MaxFaults /\ unpacked' \in [Procs -> 0 .. NumFiles]
        /\ xlock' \in Procs \cup {None}
    BY <1>6 DEF ExtractFails
  <2> QED
    BY <1>6, <2>1, <2>2, <2>3 DEF ExtractFails
<1>7. ASSUME NEW p \in Procs, Killed(p) PROVE TypeOK'
  BY <1>7 DEF Killed
<1>8. ASSUME NEW s \in Supervisors, TakeDaemonLock(s) PROVE TypeOK'
  BY <1>8 DEF TakeDaemonLock
<1>9. ASSUME NEW s \in Supervisors, StartLXCFS(s) PROVE TypeOK'
  BY <1>9 DEF StartLXCFS
<1>10. ASSUME NEW s \in Supervisors, StartIncusd(s) PROVE TypeOK'
  BY <1>10 DEF StartIncusd, Abort
<1>11. ASSUME NEW s \in Supervisors, StartControl(s) PROVE TypeOK'
  BY <1>11 DEF StartControl, Abort
<1>12. ASSUME NEW s \in Supervisors, WritePid(s) PROVE TypeOK'
  BY <1>12 DEF WritePid, Abort
<1>13. ASSUME NEW s \in Supervisors, StopProcess(s) PROVE TypeOK'
  BY <1>13 DEF StopProcess
<1>14. ASSUME NEW s \in Supervisors, ReapIncusd(s) PROVE TypeOK'
  BY <1>14 DEF ReapIncusd
<1>15. ASSUME NEW s \in Supervisors, StopTimesOut(s) PROVE TypeOK'
  BY <1>15 DEF StopTimesOut
<1>16. ASSUME NEW s \in Supervisors, Unwind(s) PROVE TypeOK'
  BY <1>16 DEF Unwind
<1>17. ASSUME NEW s \in Supervisors, Release(s) PROVE TypeOK'
  BY <1>17 DEF Release
<1>18. ASSUME NEW s \in Supervisors, Boot(s) PROVE TypeOK'
  BY <1>18 DEF Boot
<1>19. ASSUME NEW s \in Supervisors, Exit(s) PROVE TypeOK'
  BY <1>19 DEF Exit
<1>20. ASSUME NEW s \in Supervisors, Reaper(s) PROVE TypeOK'
  BY <1>20 DEF Reaper
<1>21. ASSUME NEW s \in Supervisors, Signalled(s) PROVE TypeOK'
  BY <1>21 DEF Signalled, AfterTerm
<1>22. ASSUME NEW s \in Supervisors, StartUnit(s) PROVE TypeOK'
  <2>1. installed["bin"] \in Versions \cup {None} /\ 0 \in 0 .. NumFiles
    OBVIOUS
  <2>2. pc' \in [Procs -> Running \cup Calling \cup Ended
                          \cup {"off", "done", "failed"}]
    BY <1>22 DEF StartUnit
  <2>3. /\ version' \in [Supervisors -> Versions \cup {None}]
        /\ outcome' \in [Supervisors -> {"ok", "error"}]
        /\ unpacked' \in [Procs -> 0 .. NumFiles]
        /\ incusd' \in [Supervisors -> Alive \cup {"none", "clean", "failed"}]
        /\ condemned' \subseteq Supervisors /\ pidfile' \in Supervisors \cup {None}
    BY <1>22, <2>1 DEF StartUnit, Begin
  <2> QED
    BY <1>22, <2>2, <2>3 DEF StartUnit
<1>23. ASSUME UnitEnds PROVE TypeOK'
  BY <1>23 DEF UnitEnds
<1>24. ASSUME NEW c \in Callers, Connect(c) PROVE TypeOK'
  BY <1>24 DEF Connect
<1>25. ASSUME NEW c \in Callers, ConnectAgain(c) PROVE TypeOK'
  BY <1>25 DEF ConnectAgain
<1>26. ASSUME NEW c \in Callers, Install(c, "bin", "binary", "unit") PROVE TypeOK'
  <2>1. Executable[c]["bin"] \in Versions
    BY DEF Versions
  <2>2. /\ installed' \in [{"bin", "unit"} -> Versions \cup {None}]
        /\ changed' \in [Callers -> SUBSET {"bin", "unit"}]
    BY <1>26, <2>1 DEF Install
  <2> QED
    BY <1>26, <2>2 DEF Install
<1>27. ASSUME NEW c \in Callers, Install(c, "unit", "unit", "reload") PROVE TypeOK'
  <2>1. Executable[c]["unit"] \in Versions
    BY DEF Versions
  <2>2. /\ installed' \in [{"bin", "unit"} -> Versions \cup {None}]
        /\ changed' \in [Callers -> SUBSET {"bin", "unit"}]
    BY <1>27, <2>1 DEF Install
  <2> QED
    BY <1>27, <2>2 DEF Install
<1>28. ASSUME NEW c \in Callers, Reload(c) PROVE TypeOK'
  BY <1>28 DEF Reload
<1>29. ASSUME NEW c \in Callers, IsActive(c) PROVE TypeOK'
  BY <1>29 DEF IsActive
<1>30. ASSUME NEW c \in Callers, Restart(c) PROVE TypeOK'
  <2> DEFINE PC == Running \cup Calling \cup Ended \cup {"off", "done", "failed"}
  <2>1. CASE unit = "active" /\ pc' = [pc EXCEPT ![c] = "started", ![main] = AfterTerm(main)]
             /\ xlock' = Held(xlock, main) /\ dlock' = Held(dlock, main)
             /\ unit' = "stopping" /\ job' = TRUE /\ UNCHANGED faults
    <3>1. main \in Procs => AfterTerm(main) \in PC
      BY DEF AfterTerm
    <3>2. "started" \in PC /\ pc \in [Procs -> PC] /\ c \in Procs
      OBVIOUS
    <3>3. pc' \in [Procs -> PC]
      <4> HIDE DEF PC
      <4>1. [pc EXCEPT ![c] = "started"] \in [Procs -> PC]
        BY <3>2
      <4>2. \A f \in [Procs -> PC] :
              [f EXCEPT ![main] = AfterTerm(main)] \in [Procs -> PC]
        BY <3>1, ExceptKept
      <4>3. pc' = [[pc EXCEPT ![c] = "started"] EXCEPT ![main] = AfterTerm(main)]
        BY <2>1
      <4> QED
        BY <4>1, <4>2, <4>3
    <3>4. xlock' \in Procs \cup {None} /\ dlock' \in Supervisors \cup {None}
      BY <2>1, Zenon DEF Held
    <3> QED
      BY <1>30, <2>1, <3>3, <3>4 DEF Restart
  <2>2. CASE unit # "active" /\ Goto(c, "started") /\ job' = TRUE
             /\ UNCHANGED <<unit, xlock, dlock, faults>>
    BY <1>30, <2>2 DEF Restart
  <2>3. CASE Goto(c, "failed") /\ Fault /\ UNCHANGED <<job, unit, xlock, dlock>>
    BY <1>30, <2>3 DEF Restart
  <2> QED
    BY <1>30, <2>1, <2>2, <2>3 DEF Restart
<1>31. ASSUME NEW c \in Callers, Enable(c) PROVE TypeOK'
  <2>1. job' \in BOOLEAN
    BY <1>31, Zenon DEF Enable
  <2> QED
    BY <1>31, <2>1 DEF Enable
<1>32. ASSUME NEW c \in Callers, Started(c) PROVE TypeOK'
  BY <1>32 DEF Started
<1>33. ASSUME NEW c \in Callers, Spawn(c) PROVE TypeOK'
  <2> DEFINE PC == Running \cup Calling \cup Ended \cup {"off", "done", "failed"}
  <2>1. ASSUME NEW s \in Supervisors, Begin(s, Executable[c]["bin"]),
               pc' = [pc EXCEPT ![c] = "wait", ![s] = "stat"],
               UNCHANGED faults
        PROVE TypeOK'
    <3>1. Executable[c]["bin"] \in Versions /\ 0 \in 0 .. NumFiles
      BY DEF Versions
    <3>2. {"wait", "stat"} \subseteq PC /\ pc \in [Procs -> PC]
      OBVIOUS
    <3>3. pc' \in [Procs -> PC]
      <4> HIDE DEF PC
      <4> QED
        BY <2>1, <3>2
    <3>4. /\ version' \in [Supervisors -> Versions \cup {None}]
          /\ outcome' \in [Supervisors -> {"ok", "error"}]
          /\ unpacked' \in [Procs -> 0 .. NumFiles]
          /\ incusd' \in [Supervisors -> Alive \cup {"none", "clean", "failed"}]
          /\ condemned' \subseteq Supervisors /\ pidfile' \in Supervisors \cup {None}
      BY <2>1, <3>1 DEF Begin
    <3> QED
      BY <1>33, <2>1, <3>3, <3>4, SMTT(30) DEF Spawn
  <2>2. CASE Move(c, "spawn", "failed") /\ Fault
             /\ UNCHANGED <<unpacked, incusd, condemned, outcome, pidfile, version>>
    BY <1>33, <2>2 DEF Spawn
  <2> QED
    BY <1>33, <2>1, <2>2 DEF Spawn
<1>34. ASSUME NEW c \in Callers, Wait(c) PROVE TypeOK'
  BY <1>34 DEF Wait
<1>35. ASSUME NEW c \in Callers, DefaultConfig(c) PROVE TypeOK'
  <2>1. storage' \subseteq {"pool", "profile"}
    BY <1>35 DEF DefaultConfig
  <2>2. pc' \in [Procs -> Running \cup Calling \cup Ended
                          \cup {"off", "done", "failed"}]
    BY <1>35 DEF DefaultConfig
  <2> QED
    BY <1>35, <2>1, <2>2 DEF DefaultConfig
<1>36. ASSUME NEW c \in Callers, ConfigFails(c) PROVE TypeOK'
  BY <1>36 DEF ConfigFails
<1>37. CASE UNCHANGED vars
  BY <1>37 DEF vars
<1> QED
  BY <1>1, <1>2, <1>3, <1>4, <1>5, <1>6, <1>7, <1>8, <1>9, <1>10, <1>11, <1>12, <1>13,
     <1>14, <1>15, <1>16, <1>17, <1>18, <1>19, <1>20, <1>21, <1>22, <1>23, <1>24,
     <1>25, <1>26, <1>27, <1>28, <1>29, <1>30, <1>31, <1>32, <1>33, <1>34, <1>35,
     <1>36, <1>37, ZenonT(60)
    DEF Next, Extract, Supervise, Call

\* What a restart does to the processes' places: the caller's and the main
\* process's change.
LEMMA RestartMoves ==
  ASSUME TypeOK, NEW c \in Callers, Restart(c)
  PROVE  /\ \A p \in Procs \ {c} : pc'[p] = pc[p] \/ (p = main /\ pc'[p] = AfterTerm(p))
         /\ pc'[c] \in {"started", "failed"}
         /\ xlock' = xlock \/ (xlock = main /\ pc'[main] = "killed" /\ xlock' = None)
         /\ dlock' = dlock \/ (dlock = main /\ pc'[main] = "killed" /\ dlock' = None)
<1> USE SupervisorAssumption DEF Procs, Goto
<1>t. pc \in [Procs -> Running \cup Calling \cup Ended \cup {"off", "done", "failed"}]
      /\ main \in Supervisors \cup {None} /\ xlock \in Procs \cup {None}
      /\ dlock \in Supervisors \cup {None}
  BY DEF TypeOK
<1>1. CASE pc' = [pc EXCEPT ![c] = "started", ![main] = AfterTerm(main)]
           /\ xlock' = Held(xlock, main) /\ dlock' = Held(dlock, main)
  <2>1. c # main
    BY <1>t
  <2>2. pc'[c] = "started" /\ \A p \in Procs \ {c, main} : pc'[p] = pc[p]
    BY <1>t, <1>1, <2>1
  <2>3. main \in Procs => pc'[main] = AfterTerm(main)
    BY <1>t, <1>1, <2>1
  <2>4. (xlock = main \/ dlock = main) /\ main # None => main \in Procs
    BY <1>t
  <2>5. xlock' = xlock \/ (xlock = main /\ AfterTerm(main) = "killed" /\ xlock' = None)
    BY <1>1, Zenon DEF Held
  <2>6. dlock' = dlock \/ (dlock = main /\ AfterTerm(main) = "killed" /\ dlock' = None)
    BY <1>1, Zenon DEF Held
  <2>7. xlock' = xlock \/ (xlock = main /\ pc'[main] = "killed" /\ xlock' = None)
    BY <2>3, <2>4, <2>5
  <2>8. dlock' = dlock \/ (dlock = main /\ pc'[main] = "killed" /\ dlock' = None)
    BY <2>3, <2>4, <2>6
  <2>9. \A p \in Procs \ {c} : pc'[p] = pc[p] \/ (p = main /\ pc'[p] = AfterTerm(p))
    BY <2>2, <2>3
  <2> QED
    BY <2>2, <2>7, <2>8, <2>9
<1>2. CASE (Goto(c, "started") \/ Goto(c, "failed")) /\ UNCHANGED <<xlock, dlock>>
  BY <1>t, <1>2
<1> QED
  BY <1>1, <1>2 DEF Restart

\* Slot s begins for caller c, who waits.
SpawnedIn(s, c) ==
  /\ Free(s) /\ pc[c] = "spawn" /\ pc'[c] = "wait" /\ pc'[s] = "stat"
  /\ \A p \in Procs \ {c, s} : pc'[p] = pc[p]
  /\ incusd' = [incusd EXCEPT ![s] = "none"]
  /\ condemned' = condemned \ {s}
  /\ pidfile' # s /\ (pidfile' = pidfile \/ pidfile' = None)
  /\ unpacked' = [unpacked EXCEPT ![s] = 0]
  /\ outcome' = [outcome EXCEPT ![s] = "ok"]

\* What a spawn does: the caller waits, and one slot begins.
LEMMA SpawnMoves ==
  ASSUME TypeOK, NEW c \in Callers, Spawn(c)
  PROVE  \/ /\ pc' = [pc EXCEPT ![c] = "failed"] /\ pc[c] = "spawn"
            /\ UNCHANGED <<incusd, condemned, outcome, pidfile, unpacked>>
         \/ \E s \in Supervisors : SpawnedIn(s, c)
<1> USE SupervisorAssumption DEF Procs, Goto, Move
<1>t. pc \in [Procs -> Running \cup Calling \cup Ended \cup {"off", "done", "failed"}]
  BY DEF TypeOK
<1>1. CASE Move(c, "spawn", "failed")
           /\ UNCHANGED <<unpacked, incusd, condemned, outcome, pidfile, version>>
  BY <1>1
<1>2. ASSUME pc[c] = "spawn", NEW s \in Supervisors, Begin(s, Executable[c]["bin"]),
             pc' = [pc EXCEPT ![c] = "wait", ![s] = "stat"]
      PROVE  SpawnedIn(s, c)
  <2>1. c # s /\ s # None
    OBVIOUS
  <2>2. pc'[c] = "wait" /\ pc'[s] = "stat" /\ \A p \in Procs \ {c, s} : pc'[p] = pc[p]
    BY <1>t, <1>2, <2>1
  <2>3. pidfile' # s /\ (pidfile' = pidfile \/ pidfile' = None)
    BY <1>2, <2>1 DEF Begin
  <2>4. Free(s)
    BY <1>2, Zenon DEF Begin
  <2> QED
    BY <1>2, <2>2, <2>3, <2>4 DEF Begin, SpawnedIn
<1> QED
  BY <1>1, <1>2 DEF Spawn

---------------------------------------------------------------------------
\* Who is between taking the extraction lock and writing the marker holds
\* the lock and found no marker; the marker implies a complete runtime, and
\* who passed the extraction, and who runs incusd, has seen the marker.
ExtractInv ==
  /\ \A p \in Procs : 1 .. unpacked[p] \subseteq files
  /\ \A p \in Procs : pc[p] \in {"unpack", "config", "config2", "mark"}
                         => xlock = p /\ ~marker
  /\ \A p \in Procs : pc[p] \in {"config", "config2", "mark"} => files = Files
  /\ \A p \in Procs : pc[p] = "mark" => config = "whole"
  /\ marker => files = Files /\ config = "whole"
  /\ \A s \in Supervisors :
       pc[s] \in {"guard"} \cup Owning \/ incusd[s] \in Alive => marker

\* Every step keeps ExtractInv.
LEMMA ExtractStep == TypeOK /\ ExtractInv /\ [Next]_vars => ExtractInv'
<1> SUFFICES ASSUME TypeOK, ExtractInv, [Next]_vars PROVE ExtractInv'
  OBVIOUS
<1>t. /\ pc \in [Procs -> Running \cup Calling \cup Ended \cup {"off", "done", "failed"}]
      /\ unpacked \in [Procs -> 0 .. NumFiles]
      /\ incusd \in [Supervisors -> Alive \cup {"none", "clean", "failed"}]
      /\ outcome \in [Supervisors -> {"ok", "error"}]
      /\ files \subseteq Files /\ main \in Supervisors \cup {None}
  BY DEF TypeOK
<1> USE SupervisorAssumption DEF Procs, Files, Goto, Move, Fault, disk, service,
      systemd, untouched, away, Alive, Ended, Extracting, Owning, Running, Calling,
      Extracted
<1> USE <1>t DEF ExtractInv
<1>1. ASSUME NEW p \in Procs, FindMarker(p) PROVE ExtractInv'
  BY <1>1 DEF FindMarker
<1>2. ASSUME NEW p \in Procs, LockRuntime(p) PROVE ExtractInv'
  BY <1>2 DEF LockRuntime
<1>3. ASSUME NEW p \in Procs, Unpack(p) PROVE ExtractInv'
  <2>1. CASE unpacked[p] < NumFiles
    <3>1. /\ files' = files \cup {unpacked[p] + 1} /\ unpacked[p] + 1 \in Files
          /\ unpacked' = [unpacked EXCEPT ![p] = unpacked[p] + 1]
          /\ UNCHANGED <<pc, marker, config, xlock, incusd>>
      BY <1>3, <2>1 DEF Unpack
    <3>2. 1 .. (unpacked[p] + 1) = (1 .. unpacked[p]) \cup {unpacked[p] + 1}
      BY <2>1
    <3>3. \A q \in Procs : 1 .. unpacked'[q] \subseteq files'
      BY <3>1, <3>2
    <3>4. ~marker
      BY <1>3 DEF Unpack
    <3> QED
      BY <3>1, <3>3, <3>4
  <2>2. CASE ~(unpacked[p] < NumFiles)
    <3>1. unpacked[p] = NumFiles
      BY <2>2
    <3>2. files = Files /\ UNCHANGED <<files, marker, config, xlock, incusd>>
      BY <1>3, <2>2, <3>1 DEF Unpack
    <3>3. pc' = [pc EXCEPT ![p] = "config"] /\ unpacked' = [unpacked EXCEPT ![p] = 0]
          /\ pc[p] = "unpack"
      BY <1>3, <2>2 DEF Unpack
    <3> QED
      BY <3>2, <3>3
  <2> QED
    BY <2>1, <2>2
<1>4. ASSUME NEW p \in Procs, WriteLXCFSConfig(p) PROVE ExtractInv'
  BY <1>4 DEF WriteLXCFSConfig
<1>5. ASSUME NEW p \in Procs, WriteMarker(p) PROVE ExtractInv'
  BY <1>5 DEF WriteMarker
<1>6. ASSUME NEW p \in Procs, ExtractFails(p) PROVE ExtractInv'
  <2>1. CASE marker' = marker
    BY <1>6, <2>1 DEF ExtractFails
  <2>2. CASE pc[p] = "mark" /\ marker' = TRUE
    <3>1. UNCHANGED <<files, config, incusd>> /\ files = Files /\ config = "whole"
          /\ xlock = p /\ unpacked' = [unpacked EXCEPT ![p] = 0]
          /\ pc' = [pc EXCEPT ![p] = IF p \in Callers THEN "failed" ELSE "error"]
      BY <1>6, <2>2 DEF ExtractFails
    <3>2. \A q \in Procs : pc'[q] \notin {"unpack", "config", "config2", "mark"}
      BY <3>1
    <3>3. \A q \in Procs : 1 .. unpacked'[q] \subseteq files'
      BY <3>1
    <3> QED
      BY <2>2, <3>1, <3>2, <3>3
  <2> QED
    BY <1>6, <2>1, <2>2 DEF ExtractFails
<1>7. ASSUME NEW p \in Procs, Killed(p) PROVE ExtractInv'
  BY <1>7 DEF Killed
<1>8. ASSUME NEW s \in Supervisors, TakeDaemonLock(s) PROVE ExtractInv'
  BY <1>8 DEF TakeDaemonLock
<1>9. ASSUME NEW s \in Supervisors, StartLXCFS(s) PROVE ExtractInv'
  BY <1>9 DEF StartLXCFS
<1>10. ASSUME NEW s \in Supervisors, StartIncusd(s) PROVE ExtractInv'
  BY <1>10 DEF StartIncusd, Abort
<1>11. ASSUME NEW s \in Supervisors, StartControl(s) PROVE ExtractInv'
  BY <1>11 DEF StartControl, Abort
<1>12. ASSUME NEW s \in Supervisors, WritePid(s) PROVE ExtractInv'
  BY <1>12 DEF WritePid, Abort
<1>13. ASSUME NEW s \in Supervisors, StopProcess(s) PROVE ExtractInv'
  BY <1>13 DEF StopProcess
<1>14. ASSUME NEW s \in Supervisors, ReapIncusd(s) PROVE ExtractInv'
  BY <1>14 DEF ReapIncusd
<1>15. ASSUME NEW s \in Supervisors, StopTimesOut(s) PROVE ExtractInv'
  BY <1>15 DEF StopTimesOut
<1>16. ASSUME NEW s \in Supervisors, Unwind(s) PROVE ExtractInv'
  BY <1>16 DEF Unwind
<1>17. ASSUME NEW s \in Supervisors, Release(s) PROVE ExtractInv'
  BY <1>17 DEF Release
<1>18. ASSUME NEW s \in Supervisors, Boot(s) PROVE ExtractInv'
  BY <1>18 DEF Boot
<1>19. ASSUME NEW s \in Supervisors, Exit(s) PROVE ExtractInv'
  BY <1>19 DEF Exit
<1>20. ASSUME NEW s \in Supervisors, Reaper(s) PROVE ExtractInv'
  BY <1>20 DEF Reaper
<1>21. ASSUME NEW s \in Supervisors, Signalled(s) PROVE ExtractInv'
  BY <1>21 DEF Signalled, AfterTerm
<1>22. ASSUME NEW s \in Supervisors, StartUnit(s) PROVE ExtractInv'
  BY <1>22 DEF StartUnit, Begin, Free
<1>23. ASSUME UnitEnds PROVE ExtractInv'
  BY <1>23 DEF UnitEnds
<1>24. ASSUME NEW c \in Callers, Connect(c) PROVE ExtractInv'
  BY <1>24 DEF Connect
<1>25. ASSUME NEW c \in Callers, ConnectAgain(c) PROVE ExtractInv'
  BY <1>25 DEF ConnectAgain
<1>26. ASSUME NEW c \in Callers, Install(c, "bin", "binary", "unit") PROVE ExtractInv'
  BY <1>26 DEF Install
<1>27. ASSUME NEW c \in Callers, Install(c, "unit", "unit", "reload") PROVE ExtractInv'
  BY <1>27 DEF Install
<1>28. ASSUME NEW c \in Callers, Reload(c) PROVE ExtractInv'
  BY <1>28 DEF Reload
<1>29. ASSUME NEW c \in Callers, IsActive(c) PROVE ExtractInv'
  BY <1>29 DEF IsActive
<1>30. ASSUME NEW c \in Callers, Restart(c) PROVE ExtractInv'
  <2>1. UNCHANGED <<unpacked, files, marker, config, incusd>>
    BY <1>30 DEF Restart
  <2>2. \A p \in Procs : pc'[p] = pc[p] \/ pc'[p] \in {"started", "failed", "killed"}
                        \/ (pc'[p] = "drain" /\ pc[p] = "serve")
    <3>1. \A p \in Procs : \/ AfterTerm(p) = pc[p] \/ AfterTerm(p) = "killed"
                          \/ (AfterTerm(p) = "drain" /\ pc[p] = "serve")
      BY DEF AfterTerm
    <3>2. /\ \A p \in Procs \ {c} : pc'[p] = pc[p] \/ pc'[p] = AfterTerm(p)
          /\ pc'[c] \in {"started", "failed"}
      BY <1>30, RestartMoves
    <3>3. ASSUME NEW p \in Procs \ {c}
          PROVE  \/ pc'[p] = pc[p] \/ pc'[p] = "killed"
                 \/ (pc'[p] = "drain" /\ pc[p] = "serve")
      BY <3>1, <3>2, Zenon
    <3> QED
      BY <3>2, <3>3, Zenon
  <2>3. ASSUME NEW p \in Procs, pc'[p] \in {"unpack", "config", "config2", "mark"}
        PROVE  pc[p] = pc'[p] /\ xlock' = p
    <3>1. pc[p] = pc'[p] /\ xlock = p
      BY <2>2, <2>3
    <3> QED
      BY <1>30, <2>3, <3>1, RestartMoves
  <2>4. ASSUME NEW s \in Supervisors, pc'[s] \in {"guard"} \cup Owning
        PROVE  pc[s] \in {"guard"} \cup Owning
    BY <2>2, <2>4
  <2> QED
    BY <2>1, <2>3, <2>4
<1>31. ASSUME NEW c \in Callers, Enable(c) PROVE ExtractInv'
  BY <1>31 DEF Enable
<1>32. ASSUME NEW c \in Callers, Started(c) PROVE ExtractInv'
  BY <1>32 DEF Started
<1>33. ASSUME NEW c \in Callers, Spawn(c) PROVE ExtractInv'
  <2>1. UNCHANGED <<files, marker, config, xlock>>
    BY <1>33 DEF Spawn
  <2>2. CASE /\ pc' = [pc EXCEPT ![c] = "failed"] /\ pc[c] = "spawn"
             /\ UNCHANGED <<incusd, condemned, outcome, pidfile, unpacked>>
    BY <2>1, <2>2
  <2>3. ASSUME NEW s \in Supervisors, SpawnedIn(s, c)
        PROVE  ExtractInv'
    <3>1. \A p \in Procs : 1 .. unpacked'[p] \subseteq files'
      <4>1. unpacked'[s] = 0 /\ 1 .. 0 = {}
        BY <2>3 DEF SpawnedIn
      <4>2. \A p \in Procs \ {s} : unpacked'[p] = unpacked[p]
        BY <2>3 DEF SpawnedIn
      <4> QED
        BY <2>1, <4>1, <4>2
    <3>2. \A p \in Procs : pc'[p] = pc[p] \/ pc'[p] \in {"wait", "stat"}
      BY <2>3 DEF SpawnedIn
    <3>3. \A t \in Supervisors : incusd'[t] \in Alive => incusd[t] \in Alive
      BY <2>3 DEF SpawnedIn
    <3> QED
      BY <2>1, <3>1, <3>2, <3>3
  <2> QED
    BY <1>33, <2>2, <2>3, SpawnMoves
<1>34. ASSUME NEW c \in Callers, Wait(c) PROVE ExtractInv'
  BY <1>34 DEF Wait
<1>35. ASSUME NEW c \in Callers, DefaultConfig(c) PROVE ExtractInv'
  BY <1>35 DEF DefaultConfig
<1>36. ASSUME NEW c \in Callers, ConfigFails(c) PROVE ExtractInv'
  BY <1>36 DEF ConfigFails
<1>37. CASE UNCHANGED vars
  BY <1>37 DEF vars
<1> QED
  BY <1>1, <1>2, <1>3, <1>4, <1>5, <1>6, <1>7, <1>8, <1>9, <1>10, <1>11, <1>12, <1>13,
     <1>14, <1>15, <1>16, <1>17, <1>18, <1>19, <1>20, <1>21, <1>22, <1>23, <1>24,
     <1>25, <1>26, <1>27, <1>28, <1>29, <1>30, <1>31, <1>32, <1>33, <1>34, <1>35,
     <1>36, <1>37
    DEF Next, Extract, Supervise, Call

---------------------------------------------------------------------------
\* Who owns daemon.lock; where a live incusd's supervisor is unless it was
\* sent SIGKILL; and under systemd nobody runs but the main process.
ServiceInv ==
  /\ \A s \in Supervisors : pc[s] \in Owning <=> dlock = s
  /\ \A s \in Supervisors : incusd[s] \in Alive =>
       \/ pc[s] \in {"control", "pid", "serve", "drain", "term", "kill", "stop", "killed"}
       \/ s \in condemned
  /\ \A s \in Supervisors : pc[s] = "kill" => s \in condemned
  /\ unit = "inactive" <=> main = None
  /\ managed => \A s \in Supervisors :
       pc[s] \in Running \/ incusd[s] \in Alive => s = main
  /\ managed => \A c \in Callers : pc[c] \notin Extracting \cup {"spawn"}

\* Every step keeps ServiceInv.
LEMMA ServiceStep == TypeOK /\ ServiceInv /\ [Next]_vars => ServiceInv'
<1> SUFFICES ASSUME TypeOK, ServiceInv, [Next]_vars PROVE ServiceInv'
  OBVIOUS
<1>t. /\ pc \in [Procs -> Running \cup Calling \cup Ended \cup {"off", "done", "failed"}]
      /\ unpacked \in [Procs -> 0 .. NumFiles]
      /\ incusd \in [Supervisors -> Alive \cup {"none", "clean", "failed"}]
      /\ outcome \in [Supervisors -> {"ok", "error"}]
      /\ files \subseteq Files /\ main \in Supervisors \cup {None}
  BY DEF TypeOK
<1> USE SupervisorAssumption DEF Procs, Files, Goto, Move, Fault, disk, service,
      systemd, untouched, away, Alive, Ended, Extracting, Owning, Running, Calling,
      Extracted
<1> USE <1>t DEF ServiceInv
<1>1. ASSUME NEW p \in Procs, FindMarker(p) PROVE ServiceInv'
  BY <1>1 DEF FindMarker
<1>2. ASSUME NEW p \in Procs, LockRuntime(p) PROVE ServiceInv'
  BY <1>2 DEF LockRuntime
<1>3. ASSUME NEW p \in Procs, Unpack(p) PROVE ServiceInv'
  BY <1>3 DEF Unpack
<1>4. ASSUME NEW p \in Procs, WriteLXCFSConfig(p) PROVE ServiceInv'
  BY <1>4 DEF WriteLXCFSConfig
<1>5. ASSUME NEW p \in Procs, WriteMarker(p) PROVE ServiceInv'
  BY <1>5 DEF WriteMarker
<1>6. ASSUME NEW p \in Procs, ExtractFails(p) PROVE ServiceInv'
  BY <1>6 DEF ExtractFails
<1>7. ASSUME NEW p \in Procs, Killed(p) PROVE ServiceInv'
  BY <1>7 DEF Killed
<1>8. ASSUME NEW s \in Supervisors, TakeDaemonLock(s) PROVE ServiceInv'
  BY <1>8 DEF TakeDaemonLock
<1>9. ASSUME NEW s \in Supervisors, StartLXCFS(s) PROVE ServiceInv'
  BY <1>9 DEF StartLXCFS
<1>10. ASSUME NEW s \in Supervisors, StartIncusd(s) PROVE ServiceInv'
  BY <1>10 DEF StartIncusd, Abort
<1>11. ASSUME NEW s \in Supervisors, StartControl(s) PROVE ServiceInv'
  BY <1>11 DEF StartControl, Abort
<1>12. ASSUME NEW s \in Supervisors, WritePid(s) PROVE ServiceInv'
  BY <1>12 DEF WritePid, Abort
<1>13. ASSUME NEW s \in Supervisors, StopProcess(s) PROVE ServiceInv'
  BY <1>13 DEF StopProcess
<1>14. ASSUME NEW s \in Supervisors, ReapIncusd(s) PROVE ServiceInv'
  BY <1>14 DEF ReapIncusd
<1>15. ASSUME NEW s \in Supervisors, StopTimesOut(s) PROVE ServiceInv'
  BY <1>15 DEF StopTimesOut
<1>16. ASSUME NEW s \in Supervisors, Unwind(s) PROVE ServiceInv'
  BY <1>16 DEF Unwind
<1>17. ASSUME NEW s \in Supervisors, Release(s) PROVE ServiceInv'
  BY <1>17 DEF Release
<1>18. ASSUME NEW s \in Supervisors, Boot(s) PROVE ServiceInv'
  BY <1>18 DEF Boot
<1>19. ASSUME NEW s \in Supervisors, Exit(s) PROVE ServiceInv'
  BY <1>19 DEF Exit
<1>20. ASSUME NEW s \in Supervisors, Reaper(s) PROVE ServiceInv'
  BY <1>20 DEF Reaper
<1>21. ASSUME NEW s \in Supervisors, Signalled(s) PROVE ServiceInv'
  BY <1>21 DEF Signalled, AfterTerm
<1>22. ASSUME NEW s \in Supervisors, StartUnit(s) PROVE ServiceInv'
  BY <1>22 DEF StartUnit, Begin, Free
<1>23. ASSUME UnitEnds PROVE ServiceInv'
  BY <1>23 DEF UnitEnds
<1>24. ASSUME NEW c \in Callers, Connect(c) PROVE ServiceInv'
  BY <1>24 DEF Connect
<1>25. ASSUME NEW c \in Callers, ConnectAgain(c) PROVE ServiceInv'
  BY <1>25 DEF ConnectAgain
<1>26. ASSUME NEW c \in Callers, Install(c, "bin", "binary", "unit") PROVE ServiceInv'
  BY <1>26 DEF Install
<1>27. ASSUME NEW c \in Callers, Install(c, "unit", "unit", "reload") PROVE ServiceInv'
  BY <1>27 DEF Install
<1>28. ASSUME NEW c \in Callers, Reload(c) PROVE ServiceInv'
  BY <1>28 DEF Reload
<1>29. ASSUME NEW c \in Callers, IsActive(c) PROVE ServiceInv'
  BY <1>29 DEF IsActive
<1>30. ASSUME NEW c \in Callers, Restart(c) PROVE ServiceInv'
  BY <1>30 DEF Restart, AfterTerm, Held
<1>31. ASSUME NEW c \in Callers, Enable(c) PROVE ServiceInv'
  BY <1>31 DEF Enable
<1>32. ASSUME NEW c \in Callers, Started(c) PROVE ServiceInv'
  BY <1>32 DEF Started
<1>33. ASSUME NEW c \in Callers, Spawn(c) PROVE ServiceInv'
  BY <1>33 DEF Spawn, Begin, Free
<1>34. ASSUME NEW c \in Callers, Wait(c) PROVE ServiceInv'
  BY <1>34 DEF Wait
<1>35. ASSUME NEW c \in Callers, DefaultConfig(c) PROVE ServiceInv'
  BY <1>35 DEF DefaultConfig
<1>36. ASSUME NEW c \in Callers, ConfigFails(c) PROVE ServiceInv'
  BY <1>36 DEF ConfigFails
<1>37. CASE UNCHANGED vars
  BY <1>37 DEF vars
<1> QED
  BY <1>1, <1>2, <1>3, <1>4, <1>5, <1>6, <1>7, <1>8, <1>9, <1>10, <1>11, <1>12, <1>13,
     <1>14, <1>15, <1>16, <1>17, <1>18, <1>19, <1>20, <1>21, <1>22, <1>23, <1>24,
     <1>25, <1>26, <1>27, <1>28, <1>29, <1>30, <1>31, <1>32, <1>33, <1>34, <1>35,
     <1>36, <1>37
    DEF Next, Extract, Supervise, Call

---------------------------------------------------------------------------
\* What a supervisor has not started yet, or has cleaned up again, at each
\* of its steps.
LeavesInv ==
  \A s \in Supervisors :
    /\ pc[s] \in Extracting \cup {"guard"} =>
         s \notin lxcfs /\ pidfile # s /\ incusd[s] \notin Alive
    /\ pc[s] \in {"lxcfs", "start"} => incusd[s] \notin Alive
    /\ pc[s] \in {"lxcfs", "start", "control", "pid", "stop", "release"} => pidfile # s
    /\ pc[s] = "stop" => outcome[s] = "error"
    /\ pc[s] \in {"unwind", "release"} /\ incusd[s] \in Alive => outcome[s] = "error"
    /\ pc[s] \in {"ok", "error"} =>
         /\ s \notin lxcfs /\ pidfile # s /\ dlock # s
         /\ incusd[s] \in Alive => pc[s] = "error" /\ s \in condemned

\* Every step keeps LeavesInv.
LEMMA LeavesStep == TypeOK /\ ServiceInv /\ LeavesInv /\ [Next]_vars => LeavesInv'
<1> SUFFICES ASSUME TypeOK, ServiceInv, LeavesInv, [Next]_vars PROVE LeavesInv'
  OBVIOUS
<1>t. /\ pc \in [Procs -> Running \cup Calling \cup Ended \cup {"off", "done", "failed"}]
      /\ unpacked \in [Procs -> 0 .. NumFiles]
      /\ incusd \in [Supervisors -> Alive \cup {"none", "clean", "failed"}]
      /\ outcome \in [Supervisors -> {"ok", "error"}]
      /\ files \subseteq Files /\ main \in Supervisors \cup {None}
  BY DEF TypeOK
<1> USE SupervisorAssumption DEF Procs, Files, Goto, Move, Fault, disk, service,
      systemd, untouched, away, Alive, Ended, Extracting, Owning, Running, Calling,
      Extracted
<1> USE <1>t DEF LeavesInv
<1>1. ASSUME NEW p \in Procs, FindMarker(p) PROVE LeavesInv'
  BY <1>1 DEF FindMarker
<1>2. ASSUME NEW p \in Procs, LockRuntime(p) PROVE LeavesInv'
  BY <1>2 DEF LockRuntime
<1>3. ASSUME NEW p \in Procs, Unpack(p) PROVE LeavesInv'
  BY <1>3 DEF Unpack
<1>4. ASSUME NEW p \in Procs, WriteLXCFSConfig(p) PROVE LeavesInv'
  BY <1>4 DEF WriteLXCFSConfig
<1>5. ASSUME NEW p \in Procs, WriteMarker(p) PROVE LeavesInv'
  BY <1>5 DEF WriteMarker
<1>6. ASSUME NEW p \in Procs, ExtractFails(p) PROVE LeavesInv'
  <2>1. /\ pc' = [pc EXCEPT ![p] = IF p \in Callers THEN "failed" ELSE "error"]
        /\ pc[p] \in Extracting
        /\ UNCHANGED <<dlock, incusd, condemned, lxcfs, pidfile, outcome>>
    BY <1>6 DEF ExtractFails
  <2>2. p \in Supervisors => dlock # p
    BY <2>1 DEF ServiceInv
  <2> QED
    BY <2>1, <2>2
<1>7. ASSUME NEW p \in Procs, Killed(p) PROVE LeavesInv'
  BY <1>7 DEF Killed
<1>8. ASSUME NEW s \in Supervisors, TakeDaemonLock(s) PROVE LeavesInv'
  <2>1. dlock # s
    BY <1>8 DEF TakeDaemonLock, ServiceInv
  <2>2. UNCHANGED <<incusd, condemned, lxcfs, pidfile, outcome>> /\ pc[s] = "guard"
    BY <1>8 DEF TakeDaemonLock
  <2>3. \/ pc' = [pc EXCEPT ![s] = "lxcfs"] /\ dlock' = s /\ dlock = None
        \/ pc' = [pc EXCEPT ![s] = "ok"] /\ dlock' = dlock
        \/ pc' = [pc EXCEPT ![s] = "error"] /\ dlock' = dlock
    BY <1>8 DEF TakeDaemonLock
  <2> QED
    BY <2>1, <2>2, <2>3
<1>9. ASSUME NEW s \in Supervisors, StartLXCFS(s) PROVE LeavesInv'
  BY <1>9 DEF StartLXCFS
<1>10. ASSUME NEW s \in Supervisors, StartIncusd(s) PROVE LeavesInv'
  BY <1>10 DEF StartIncusd, Abort
<1>11. ASSUME NEW s \in Supervisors, StartControl(s) PROVE LeavesInv'
  BY <1>11 DEF StartControl, Abort
<1>12. ASSUME NEW s \in Supervisors, WritePid(s) PROVE LeavesInv'
  BY <1>12 DEF WritePid, Abort
<1>13. ASSUME NEW s \in Supervisors, StopProcess(s) PROVE LeavesInv'
  BY <1>13 DEF StopProcess
<1>14. ASSUME NEW s \in Supervisors, ReapIncusd(s) PROVE LeavesInv'
  BY <1>14 DEF ReapIncusd
<1>15. ASSUME NEW s \in Supervisors, StopTimesOut(s) PROVE LeavesInv'
  BY <1>15 DEF StopTimesOut
<1>16. ASSUME NEW s \in Supervisors, Unwind(s) PROVE LeavesInv'
  BY <1>16 DEF Unwind
<1>17. ASSUME NEW s \in Supervisors, Release(s) PROVE LeavesInv'
  <2>1. /\ UNCHANGED <<incusd, condemned, pidfile, outcome>> /\ pc[s] = "release"
        /\ pc' = [pc EXCEPT ![s] = outcome[s]] /\ lxcfs' = lxcfs \ {s} /\ dlock' = None
    BY <1>17 DEF Release
  <2>2. incusd[s] \in Alive => s \in condemned
    BY <2>1 DEF ServiceInv
  <2>3. \A t \in Supervisors \ {s} : pc'[t] = pc[t]
    BY <2>1
  <2>4. pc'[s] = outcome[s]
    BY <2>1
  <2>5. \A t \in Supervisors : dlock' # t
    BY <2>1
  <2> QED
    BY <2>1, <2>2, <2>3, <2>4, <2>5
<1>18. ASSUME NEW s \in Supervisors, Boot(s) PROVE LeavesInv'
  BY <1>18 DEF Boot
<1>19. ASSUME NEW s \in Supervisors, Exit(s) PROVE LeavesInv'
  BY <1>19 DEF Exit
<1>20. ASSUME NEW s \in Supervisors, Reaper(s) PROVE LeavesInv'
  BY <1>20 DEF Reaper
<1>21. ASSUME NEW s \in Supervisors, Signalled(s) PROVE LeavesInv'
  BY <1>21 DEF Signalled, AfterTerm
<1>22. ASSUME NEW s \in Supervisors, StartUnit(s) PROVE LeavesInv'
  BY <1>22 DEF StartUnit, Begin, Free
<1>23. ASSUME UnitEnds PROVE LeavesInv'
  BY <1>23 DEF UnitEnds
<1>24. ASSUME NEW c \in Callers, Connect(c) PROVE LeavesInv'
  BY <1>24 DEF Connect
<1>25. ASSUME NEW c \in Callers, ConnectAgain(c) PROVE LeavesInv'
  BY <1>25 DEF ConnectAgain
<1>26. ASSUME NEW c \in Callers, Install(c, "bin", "binary", "unit") PROVE LeavesInv'
  BY <1>26 DEF Install
<1>27. ASSUME NEW c \in Callers, Install(c, "unit", "unit", "reload") PROVE LeavesInv'
  BY <1>27 DEF Install
<1>28. ASSUME NEW c \in Callers, Reload(c) PROVE LeavesInv'
  BY <1>28 DEF Reload
<1>29. ASSUME NEW c \in Callers, IsActive(c) PROVE LeavesInv'
  BY <1>29 DEF IsActive
<1>30. ASSUME NEW c \in Callers, Restart(c) PROVE LeavesInv'
  BY <1>30 DEF Restart, AfterTerm, Held
<1>31. ASSUME NEW c \in Callers, Enable(c) PROVE LeavesInv'
  BY <1>31 DEF Enable
<1>32. ASSUME NEW c \in Callers, Started(c) PROVE LeavesInv'
  BY <1>32 DEF Started
<1>33. ASSUME NEW c \in Callers, Spawn(c) PROVE LeavesInv'
  BY <1>33 DEF Spawn, Begin, Free
<1>34. ASSUME NEW c \in Callers, Wait(c) PROVE LeavesInv'
  BY <1>34 DEF Wait
<1>35. ASSUME NEW c \in Callers, DefaultConfig(c) PROVE LeavesInv'
  BY <1>35 DEF DefaultConfig
<1>36. ASSUME NEW c \in Callers, ConfigFails(c) PROVE LeavesInv'
  BY <1>36 DEF ConfigFails
<1>37. CASE UNCHANGED vars
  BY <1>37 DEF vars
<1> QED
  BY <1>1, <1>2, <1>3, <1>4, <1>5, <1>6, <1>7, <1>8, <1>9, <1>10, <1>11, <1>12, <1>13,
     <1>14, <1>15, <1>16, <1>17, <1>18, <1>19, <1>20, <1>21, <1>22, <1>23, <1>24,
     <1>25, <1>26, <1>27, <1>28, <1>29, <1>30, <1>31, <1>32, <1>33, <1>34, <1>35,
     <1>36, <1>37
    DEF Next, Extract, Supervise, Call

---------------------------------------------------------------------------
\* A caller goes on to the profile only when there is a pool.
ConfigInv ==
  \A c \in Callers :
    /\ pc[c] \in {"profile", "update"} => "pool" \in storage
    /\ pc[c] = "done" => "pool" \in storage /\ "profile" \in storage

\* Every step keeps ConfigInv.
LEMMA ConfigStep == TypeOK /\ ConfigInv /\ [Next]_vars => ConfigInv'
<1> SUFFICES ASSUME TypeOK, ConfigInv, [Next]_vars PROVE ConfigInv'
  OBVIOUS
<1>t. /\ pc \in [Procs -> Running \cup Calling \cup Ended \cup {"off", "done", "failed"}]
      /\ unpacked \in [Procs -> 0 .. NumFiles]
      /\ incusd \in [Supervisors -> Alive \cup {"none", "clean", "failed"}]
      /\ outcome \in [Supervisors -> {"ok", "error"}]
      /\ storage \subseteq {"pool", "profile"}
      /\ files \subseteq Files /\ main \in Supervisors \cup {None}
  BY DEF TypeOK
<1> USE SupervisorAssumption DEF Procs, Files, Goto, Move, Fault, disk, service,
      systemd, untouched, away, Alive, Ended, Extracting, Owning, Running, Calling,
      Extracted
<1> USE <1>t DEF ConfigInv
<1>1. ASSUME NEW p \in Procs, FindMarker(p) PROVE ConfigInv'
  BY <1>1 DEF FindMarker
<1>2. ASSUME NEW p \in Procs, LockRuntime(p) PROVE ConfigInv'
  BY <1>2 DEF LockRuntime
<1>3. ASSUME NEW p \in Procs, Unpack(p) PROVE ConfigInv'
  BY <1>3 DEF Unpack
<1>4. ASSUME NEW p \in Procs, WriteLXCFSConfig(p) PROVE ConfigInv'
  BY <1>4 DEF WriteLXCFSConfig
<1>5. ASSUME NEW p \in Procs, WriteMarker(p) PROVE ConfigInv'
  BY <1>5 DEF WriteMarker
<1>6. ASSUME NEW p \in Procs, ExtractFails(p) PROVE ConfigInv'
  BY <1>6 DEF ExtractFails
<1>7. ASSUME NEW p \in Procs, Killed(p) PROVE ConfigInv'
  BY <1>7 DEF Killed
<1>8. ASSUME NEW s \in Supervisors, TakeDaemonLock(s) PROVE ConfigInv'
  BY <1>8 DEF TakeDaemonLock
<1>9. ASSUME NEW s \in Supervisors, StartLXCFS(s) PROVE ConfigInv'
  BY <1>9 DEF StartLXCFS
<1>10. ASSUME NEW s \in Supervisors, StartIncusd(s) PROVE ConfigInv'
  BY <1>10 DEF StartIncusd, Abort
<1>11. ASSUME NEW s \in Supervisors, StartControl(s) PROVE ConfigInv'
  BY <1>11 DEF StartControl, Abort
<1>12. ASSUME NEW s \in Supervisors, WritePid(s) PROVE ConfigInv'
  BY <1>12 DEF WritePid, Abort
<1>13. ASSUME NEW s \in Supervisors, StopProcess(s) PROVE ConfigInv'
  BY <1>13 DEF StopProcess
<1>14. ASSUME NEW s \in Supervisors, ReapIncusd(s) PROVE ConfigInv'
  BY <1>14 DEF ReapIncusd
<1>15. ASSUME NEW s \in Supervisors, StopTimesOut(s) PROVE ConfigInv'
  BY <1>15 DEF StopTimesOut
<1>16. ASSUME NEW s \in Supervisors, Unwind(s) PROVE ConfigInv'
  BY <1>16 DEF Unwind
<1>17. ASSUME NEW s \in Supervisors, Release(s) PROVE ConfigInv'
  BY <1>17 DEF Release
<1>18. ASSUME NEW s \in Supervisors, Boot(s) PROVE ConfigInv'
  BY <1>18 DEF Boot
<1>19. ASSUME NEW s \in Supervisors, Exit(s) PROVE ConfigInv'
  BY <1>19 DEF Exit
<1>20. ASSUME NEW s \in Supervisors, Reaper(s) PROVE ConfigInv'
  BY <1>20 DEF Reaper
<1>21. ASSUME NEW s \in Supervisors, Signalled(s) PROVE ConfigInv'
  BY <1>21 DEF Signalled, AfterTerm
<1>22. ASSUME NEW s \in Supervisors, StartUnit(s) PROVE ConfigInv'
  BY <1>22 DEF StartUnit, Begin, Free
<1>23. ASSUME UnitEnds PROVE ConfigInv'
  BY <1>23 DEF UnitEnds
<1>24. ASSUME NEW c \in Callers, Connect(c) PROVE ConfigInv'
  BY <1>24 DEF Connect
<1>25. ASSUME NEW c \in Callers, ConnectAgain(c) PROVE ConfigInv'
  BY <1>25 DEF ConnectAgain
<1>26. ASSUME NEW c \in Callers, Install(c, "bin", "binary", "unit") PROVE ConfigInv'
  BY <1>26 DEF Install
<1>27. ASSUME NEW c \in Callers, Install(c, "unit", "unit", "reload") PROVE ConfigInv'
  BY <1>27 DEF Install
<1>28. ASSUME NEW c \in Callers, Reload(c) PROVE ConfigInv'
  BY <1>28 DEF Reload
<1>29. ASSUME NEW c \in Callers, IsActive(c) PROVE ConfigInv'
  BY <1>29 DEF IsActive
<1>30. ASSUME NEW c \in Callers, Restart(c) PROVE ConfigInv'
  BY <1>30 DEF Restart, AfterTerm, Held
<1>31. ASSUME NEW c \in Callers, Enable(c) PROVE ConfigInv'
  BY <1>31 DEF Enable
<1>32. ASSUME NEW c \in Callers, Started(c) PROVE ConfigInv'
  BY <1>32 DEF Started
<1>33. ASSUME NEW c \in Callers, Spawn(c) PROVE ConfigInv'
  BY <1>33 DEF Spawn, Begin, Free
<1>34. ASSUME NEW c \in Callers, Wait(c) PROVE ConfigInv'
  BY <1>34 DEF Wait
<1>35. ASSUME NEW c \in Callers, DefaultConfig(c) PROVE ConfigInv'
  <2>1. CASE Move(c, "pool", IF "pool" \in storage THEN "profile" ELSE "create")
             /\ UNCHANGED storage
    BY <2>1
  <2>2. CASE Move(c, "create", IF "pool" \in storage THEN "failed" ELSE "profile")
             /\ storage' = storage \cup {"pool"}
    BY <2>2
  <2>3. CASE Move(c, "profile", IF "profile" \in storage THEN "done" ELSE "update")
             /\ UNCHANGED storage
    BY <2>3
  <2>4. CASE Move(c, "update", IF "profile" \in storage THEN "failed" ELSE "done")
             /\ storage' = storage \cup {"profile"}
    BY <2>4
  <2> QED
    BY <1>35, <2>1, <2>2, <2>3, <2>4 DEF DefaultConfig
<1>36. ASSUME NEW c \in Callers, ConfigFails(c) PROVE ConfigInv'
  BY <1>36 DEF ConfigFails
<1>37. CASE UNCHANGED vars
  BY <1>37 DEF vars
<1> QED
  BY <1>1, <1>2, <1>3, <1>4, <1>5, <1>6, <1>7, <1>8, <1>9, <1>10, <1>11, <1>12, <1>13,
     <1>14, <1>15, <1>16, <1>17, <1>18, <1>19, <1>20, <1>21, <1>22, <1>23, <1>24,
     <1>25, <1>26, <1>27, <1>28, <1>29, <1>30, <1>31, <1>32, <1>33, <1>34, <1>35,
     <1>36, <1>37
    DEF Next, Extract, Supervise, Call

---------------------------------------------------------------------------
\* All the invariants hold at first.
LEMMA InitInv ==
  Init => TypeOK /\ ExtractInv /\ ServiceInv /\ LeavesInv /\ ConfigInv
<1> SUFFICES ASSUME Init
             PROVE  TypeOK /\ ExtractInv /\ ServiceInv /\ LeavesInv /\ ConfigInv
  OBVIOUS
<1> USE SupervisorAssumption DEF Init, Procs, Files, Alive, Ended, Extracting,
      Owning, Running, Calling
<1>1. TypeOK
  <2>1. 0 \in 0 .. NumFiles /\ 0 \in 0 .. MaxFaults
    OBVIOUS
  <2>2. installed \in [{"bin", "unit"} -> Versions \cup {None}]
    OBVIOUS
  <2>3. changed \in [Callers -> SUBSET {"bin", "unit"}]
    OBVIOUS
  <2>4. version \in [Supervisors -> Versions \cup {None}]
    OBVIOUS
  <2>5. /\ incusd \in [Supervisors -> Alive \cup {"none", "clean", "failed"}]
        /\ outcome \in [Supervisors -> {"ok", "error"}]
    OBVIOUS
  <2>6. pc \in [Procs -> Running \cup Calling \cup Ended \cup {"off", "done", "failed"}]
    OBVIOUS
  <2>7. unpacked \in [Procs -> 0 .. NumFiles]
    BY <2>1
  <2> QED
    BY <2>1, <2>2, <2>3, <2>4, <2>5, <2>6, <2>7 DEF TypeOK
<1>2. ExtractInv
  <2>1. \A p \in Procs : unpacked[p] = 0 /\ 1 .. 0 = {}
    OBVIOUS
  <2> QED
    BY <2>1 DEF ExtractInv
<1>3. ServiceInv
  BY DEF ServiceInv
<1>4. LeavesInv
  BY DEF LeavesInv
<1>5. ConfigInv
  BY DEF ConfigInv
<1> QED
  BY <1>1, <1>2, <1>3, <1>4, <1>5

\* The conjunction is an invariant of every behaviour.
LEMMA Invariants == Spec => [](TypeOK /\ ExtractInv /\ ServiceInv /\ LeavesInv /\ ConfigInv)
<1> DEFINE I == TypeOK /\ ExtractInv /\ ServiceInv /\ LeavesInv /\ ConfigInv
<1>1. Init => I
  BY InitInv
<1>2. I /\ [Next]_vars => I'
  BY TypeStep, ExtractStep, ServiceStep, LeavesStep, ConfigStep
<1> QED
  BY <1>1, <1>2, PTL DEF Spec

\* Every variable keeps its type, for any number of callers, supervisors
\* and files.
THEOREM TypeCorrect == Spec => []TypeOK
  BY Invariants, PTL

\* Whatever processes extract, fail and are killed in whatever order, an
\* incusd runs on a complete runtime only.
THEOREM CompleteRuntime == Spec => []RunsComplete
<1>1. ExtractInv => RunsComplete
  BY DEF ExtractInv, RunsComplete
<1> QED
  BY Invariants, <1>1, PTL

\* daemon.lock and systemd's handling of the cgroup keep incusd single.
THEOREM SingleDaemon == Spec => []OneDaemon
<1>1. TypeOK /\ ServiceInv => OneDaemon
  <2> SUFFICES ASSUME TypeOK, ServiceInv, NEW s \in Supervisors, NEW t \in Supervisors,
                      incusd[s] \in Alive, incusd[t] \in Alive, s # t,
                      {s, t} \cap condemned = {}
               PROVE  ~managed /\ "killed" \in {pc[s], pc[t]}
    BY DEF OneDaemon
  <2>1. ~managed
    BY DEF ServiceInv
  <2>2. pc[s] \in Owning \cup {"killed"} /\ pc[t] \in Owning \cup {"killed"}
    BY DEF ServiceInv, Owning
  <2>3. ~(pc[s] \in Owning /\ pc[t] \in Owning)
    BY DEF ServiceInv
  <2> QED
    BY <2>1, <2>2, <2>3
<1> QED
  BY Invariants, <1>1, PTL

\* A supervisor that ends by itself leaves nothing that runs.
THEOREM NothingLeft == Spec => []LeavesNothing
<1>1. LeavesInv => LeavesNothing
  BY DEF LeavesInv, LeavesNothing
<1> QED
  BY Invariants, <1>1, PTL

\* A command that got its client has the pool and the profile.
THEOREM Configured == Spec => []ConfigReady
<1>1. TypeOK /\ ConfigInv => ConfigReady
  <2> SUFFICES ASSUME TypeOK, ConfigInv, NEW c \in Callers, pc[c] = "done"
               PROVE  storage = {"pool", "profile"}
    BY DEF ConfigReady
  <2>1. storage \subseteq {"pool", "profile"} /\ "pool" \in storage /\ "profile" \in storage
    BY DEF TypeOK, ConfigInv
  <2> QED
    BY <2>1, Zenon
<1> QED
  BY Invariants, <1>1, PTL
---------------------------------------------------------------------------
\* Whoever changed the unit file has yet to have it loaded, and whoever changed
\* the executable has yet to restart the service that runs another one.
VersionInv ==
  managed /\ faults = 0 =>
    /\ \/ loaded = installed["unit"]
       \/ \E c \in Callers : pc[c] = "reload" /\ "unit" \in changed[c]
    /\ unit = "active" =>
         \/ version[main] = installed["bin"]
         \/ \E c \in Callers : /\ pc[c] \in {"unit", "reload", "active", "restart"}
                               /\ "bin" \in changed[c]

\* Every step keeps VersionInv.
LEMMA VersionStep == TypeOK /\ ServiceInv /\ VersionInv /\ [Next]_vars => VersionInv'
<1> SUFFICES ASSUME TypeOK, ServiceInv, VersionInv, [Next]_vars, managed', faults' = 0
             PROVE  VersionInv'
  BY DEF VersionInv
<1>t. /\ pc \in [Procs -> Running \cup Calling \cup Ended \cup {"off", "done", "failed"}]
      /\ version \in [Supervisors -> Versions \cup {None}]
      /\ installed \in [{"bin", "unit"} -> Versions \cup {None}]
      /\ changed \in [Callers -> SUBSET {"bin", "unit"}]
      /\ main \in Supervisors \cup {None} /\ faults \in Nat
      /\ Callers \cap Supervisors = {} /\ Procs = Callers \cup Supervisors
  BY SupervisorAssumption DEF TypeOK, Procs
<1>i. /\ unit = "inactive" <=> main = None
      /\ managed => \A c \in Callers : pc[c] \notin Extracting \cup {"spawn"}
  BY DEF ServiceInv
<1> DEFINE Loads(c) == pc[c] = "reload" /\ "unit" \in changed[c]
           Restarts(c) == pc[c] \in {"unit", "reload", "active", "restart"} /\ "bin" \in changed[c]
<1>f. ~Fault /\ ~(faults' = faults + 1)
  BY <1>t DEF Fault
<1> USE <1>t DEF Goto, Move
<1>0. ASSUME UNCHANGED <<managed, unit, main, installed, loaded, version, changed>>, faults = 0,
             \A c \in Callers : (Loads(c) => Loads(c)') /\ (Restarts(c) => Restarts(c)')
      PROVE  VersionInv'
  BY <1>0 DEF VersionInv
<1>1. ASSUME NEW p \in Procs, Extract(p) PROVE VersionInv'
  <2>1. /\ UNCHANGED <<managed, unit, main, installed, loaded, version, changed, faults>>
        /\ pc[p] \in Extracting /\ \A q \in Procs \ {p} : pc'[q] = pc[q]
    BY <1>1 DEF Extract, FindMarker, LockRuntime, Unpack, WriteLXCFSConfig, WriteMarker, systemd,
       service, disk, Extracting
  <2>2. \A c \in Callers : pc'[c] = pc[c]
    BY <1>i, <2>1
  <2>3. QED BY <1>0, <2>1, <2>2
<1>2. ASSUME NEW p \in Procs, ExtractFails(p) \/ Killed(p) PROVE VersionInv'
  BY <1>f, <1>2 DEF ExtractFails, Killed
<1>3. ASSUME NEW s \in Supervisors, Supervise(s) PROVE VersionInv'
  <2>1. /\ UNCHANGED <<managed, unit, main, installed, loaded, version, changed>>
        /\ \A q \in Procs \ {s} : pc'[q] = pc[q]
        /\ faults' = faults
    <3> USE <1>f DEF untouched, systemd, Abort
    <3>1. CASE TakeDaemonLock(s) \/ StartLXCFS(s) \/ StartIncusd(s)
      BY <3>1 DEF TakeDaemonLock, StartLXCFS, StartIncusd
    <3>2. CASE StartControl(s) \/ WritePid(s) \/ StopProcess(s) \/ ReapIncusd(s)
      BY <3>2 DEF StartControl, WritePid, StopProcess, ReapIncusd
    <3>3. CASE StopTimesOut(s) \/ Unwind(s) \/ Release(s)
      BY <3>3 DEF StopTimesOut, Unwind, Release
    <3>4. QED BY <1>3, <3>1, <3>2, <3>3 DEF Supervise
  <2>2. QED BY <1>0, <2>1
<1>4. ASSUME NEW s \in Supervisors, Boot(s) \/ Exit(s) \/ Reaper(s) \/ Signalled(s)
      PROVE  VersionInv'
  <2>1. /\ UNCHANGED <<managed, unit, main, installed, loaded, version, changed, faults>>
        /\ \A q \in Procs \ {s} : pc'[q] = pc[q]
    BY <1>f, <1>4 DEF Boot, Exit, Reaper, Signalled, untouched, systemd
  <2>2. QED BY <1>0, <2>1
<1>5. ASSUME NEW s \in Supervisors, StartUnit(s) PROVE VersionInv'
  <2>1. /\ UNCHANGED <<managed, installed, loaded, changed, faults>>
        /\ main' = s /\ version' = [version EXCEPT ![s] = installed["bin"]]
        /\ pc' = [pc EXCEPT ![s] = "stat"]
    BY <1>5 DEF StartUnit, Begin
  <2>2. version'[main'] = installed'["bin"]
    BY <2>1
  <2>3. \A c \in Callers : pc'[c] = pc[c]
    BY <2>1
  <2>4. QED BY <2>1, <2>2, <2>3 DEF VersionInv
<1>6. ASSUME UnitEnds PROVE VersionInv'
  BY <1>6 DEF UnitEnds, VersionInv
<1>7. ASSUME NEW c \in Callers, Call(c) PROVE VersionInv'
  <2>1. CASE Install(c, "bin", "binary", "unit")
    <3>1. /\ UNCHANGED <<managed, unit, main, loaded, version, faults>>
          /\ installed' = [installed EXCEPT !["bin"] = Executable[c]["bin"]]
          /\ changed' = [changed EXCEPT ![c] =
               IF installed["bin"] = Executable[c]["bin"] THEN @ ELSE @ \cup {"bin"}]
          /\ pc[c] = "binary" /\ pc' = [pc EXCEPT ![c] = "unit"]
      BY <2>1 DEF Install, away
    <3>2. /\ installed'["unit"] = installed["unit"] /\ pc'[c] = "unit"
          /\ \A d \in Callers \ {c} : pc'[d] = pc[d] /\ changed'[d] = changed[d]
          /\ installed'["bin"] = installed["bin"] \/ "bin" \in changed'[c]
      BY <3>1
    <3>3. QED BY <3>1, <3>2 DEF VersionInv
  <2>2. CASE Install(c, "unit", "unit", "reload")
    <3>1. /\ UNCHANGED <<managed, unit, main, loaded, version, faults>>
          /\ installed' = [installed EXCEPT !["unit"] = Executable[c]["unit"]]
          /\ changed' = [changed EXCEPT ![c] =
               IF installed["unit"] = Executable[c]["unit"] THEN @ ELSE @ \cup {"unit"}]
          /\ pc[c] = "unit" /\ pc' = [pc EXCEPT ![c] = "reload"]
      BY <2>2 DEF Install, away
    <3>2. /\ installed'["bin"] = installed["bin"] /\ pc'[c] = "reload"
          /\ changed[c] \subseteq changed'[c]
          /\ \A d \in Callers \ {c} : pc'[d] = pc[d] /\ changed'[d] = changed[d]
          /\ installed'["unit"] = installed["unit"] \/ "unit" \in changed'[c]
      BY <3>1
    <3>3. QED BY <3>1, <3>2 DEF VersionInv
  <2>3. CASE Reload(c)
    <3>1. /\ UNCHANGED <<managed, unit, main, installed, version, changed, faults>>
          /\ pc[c] = "reload" /\ pc' = [pc EXCEPT ![c] = "active"]
          /\ (loaded' = loaded /\ "unit" \notin changed[c]) \/ loaded' = installed["unit"]
      BY <1>f, <2>3 DEF Reload, away
    <3>2. pc'[c] = "active" /\ \A d \in Callers \ {c} : pc'[d] = pc[d]
      BY <3>1
    <3>3. QED BY <3>1, <3>2 DEF VersionInv
  <2>4. CASE IsActive(c)
    <3>1. /\ UNCHANGED <<managed, unit, main, installed, loaded, version, changed, faults>>
          /\ pc[c] = "active"
          /\ pc' = [pc EXCEPT ![c] = IF unit # "active" THEN "enable"
                                     ELSE IF changed[c] # {} THEN "restart" ELSE "again"]
      BY <2>4 DEF IsActive, away, systemd
    <3>2. /\ unit = "active" /\ "bin" \in changed[c] => pc'[c] = "restart"
          /\ \A d \in Callers \ {c} : pc'[d] = pc[d]
      BY <3>1
    <3>3. QED BY <3>1, <3>2 DEF VersionInv
  <2>5. CASE Restart(c)
    <3>1. /\ UNCHANGED <<managed, installed, loaded, changed, faults>> /\ unit' # "active"
          /\ pc[c] = "restart"
      BY <1>f, <2>5 DEF Restart
    <3>2. \A d \in Callers \ {c} : pc'[d] = pc[d]
      <4>1. \A d \in Callers \ {c} : pc'[d] = pc[d] \/ (d = main /\ pc'[d] = AfterTerm(d))
        BY <2>5, RestartMoves
      <4>2. QED BY <4>1, SupervisorAssumption
    <3>3. QED BY <3>1, <3>2 DEF VersionInv
  <2>6. CASE Spawn(c)
    BY <1>i, <2>6 DEF Spawn
  <2>7. CASE Connect(c) \/ ConnectAgain(c) \/ Enable(c) \/ Started(c) \/ Wait(c)
    <3>1. /\ UNCHANGED <<managed, unit, main, installed, loaded, version, changed, faults>>
          /\ pc[c] \notin {"unit", "reload", "active", "restart"}
          /\ \A d \in Callers \ {c} : pc'[d] = pc[d]
      BY <1>f, <2>7 DEF Connect, ConnectAgain, Enable, Started, Wait, away, systemd
    <3>2. QED BY <1>0, <3>1
  <2>8. CASE DefaultConfig(c) \/ ConfigFails(c)
    <3>1. /\ UNCHANGED <<managed, unit, main, installed, loaded, version, changed, faults>>
          /\ pc[c] \notin {"unit", "reload", "active", "restart"}
          /\ \A d \in Callers \ {c} : pc'[d] = pc[d]
      BY <2>8 DEF DefaultConfig, ConfigFails, away, systemd
    <3>2. QED BY <1>0, <3>1
  <2>9. QED
    BY <1>7, <2>1, <2>2, <2>3, <2>4, <2>5, <2>6, <2>7, <2>8 DEF Call
<1>8. CASE UNCHANGED vars
  BY <1>0, <1>8 DEF vars, systemd
<1> QED
  BY <1>1, <1>2, <1>3, <1>4, <1>5, <1>6, <1>7, <1>8 DEF Next

\* Whatever versions of bocker install and restart the service in whatever
\* order, the last one on disk is the one that runs.
THEOREM NewestVersionRuns == Spec => []NewestRuns
<1>1. Init => VersionInv
  BY DEF Init, VersionInv
<1>2. VersionInv => NewestRuns
  BY DEF VersionInv, NewestRuns
<1> QED
  BY <1>1, <1>2, VersionStep, Invariants, PTL DEF Spec
=============================================================================
