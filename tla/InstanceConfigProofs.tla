------------------------ MODULE InstanceConfigProofs ------------------------
(***************************************************************************)
(* Proofs about InstanceConfig.  CourseInv ties the stages a command still *)
(* has to go through to what it knows by then.  With it a step changes the *)
(* instances in five ways only (InstChange), and an edit, since the ETag   *)
(* is that of the container it read, is one of five kinds (WrittenShape).  *)
(* From these follow the MACs, the mounts and the refinement of            *)
(* InstanceMap; that an import knows its container needs OwnInv besides,   *)
(* that ports lead to the address PortInv (what a command remembers of an  *)
(* address holds for one start), and that what runs was prepared PrepInv   *)
(* (what each stage leaves ready for those after it).                      *)
(***************************************************************************)
EXTENDS InstanceConfig, TLAPS

\* What may be left of the course of a command.
StartCourse ==
  {<<"look", "mode", "security", "soft", "boot", "await", "refresh">>,
   <<"mode", "security", "soft", "boot", "await", "refresh">>,
   <<"security", "soft", "boot", "await", "refresh">>,
   <<"soft", "boot", "await", "refresh">>, <<"boot", "await", "refresh">>,
   <<"await", "refresh">>, <<"refresh">>}
RunCourse ==
  {<<"ensure", "create", "mode", "security", "soft", "boot">>,
   <<"create", "mode", "security", "soft", "boot">>,
   <<"mode", "security", "soft", "boot">>, <<"security", "soft", "boot">>,
   <<"soft", "boot">>, <<"boot">>}
ImportCourse ==
  {<<"names", "import", "find", "renet", "security">>,
   <<"import", "find", "renet", "security">>,
   <<"find", "renet", "security">>, <<"import", "renet", "security">>,
   <<"renet", "security">>, <<"security">>}
ModelessCourse ==
  {<<"names", "import", "find", "mode", "renet", "security">>,
   <<"import", "find", "mode", "renet", "security">>, <<"find", "mode", "renet", "security">>,
   <<"import", "mode", "renet", "security">>, <<"mode", "renet", "security">>,
   <<"renet", "security">>, <<"security">>}

Course(r) ==
  CASE r.verb = "start" -> StartCourse
    [] r.verb = "stop" -> {<<"halt">>}
    [] r.verb = "remove" -> {<<"halt", "delete">>, <<"delete">>}
    [] r.verb = "run" -> RunCourse
    [] r.verb = "export" -> {<<"export">>}
    [] r.verb = "import" -> IF r.value = None THEN ModelessCourse ELSE ImportCourse
    [] r.verb = "network" -> {<<"look", "renet">>, <<"renet">>}
    [] OTHER -> {<<"look", "edit">>, <<"edit">>}

\* The commands that are told a network mode, and the stages that need to know it.
Told(r) == r.verb \in {"run", "network"} \/ (r.verb = "import" /\ r.value # None)
Needing == {"security", "soft", "renet", "ensure", "create"}

\* What a command in progress knows.
Knows(p) ==
  /\ req[p] \in Request /\ todo[p] \in Course(req[p]) /\ name[p] \in Names
  /\ pc[p] = "net" => Stage(p) \in {"soft", "renet"}
  /\ pc[p] = "netput" => Stage(p) \in {"soft", "renet", "ensure"}
  /\ pc[p] = "put" => Stage(p) \in {"edit", "security", "refresh", "soft", "renet"}
  /\ pc[p] \in {"net", "put"} \/ (pc[p] = "netput" /\ Stage(p) # "ensure") => snap[p] \in Instance
  /\ Stage(p) \in Needing \/ Told(req[p]) => want[p] \in Modes

CourseInv == \A p \in Actors : pc[p] # "idle" => Knows(p)

\* An import has a backup file to import.
BackupInv == \A p \in Actors : pc[p] # "idle" /\ req[p].verb = "import" => backup # None

\* The part of TypeOK about the commands.
WorkType ==
  /\ req \in [Actors -> Request \cup {NoRequest}] /\ todo \in [Actors -> Seq(Stages)]
  /\ pc \in [Actors -> {"idle", "read", "net", "netput", "put"}]
  /\ name \in [Actors -> Names \cup {None}] /\ want \in [Actors -> Modes \cup {None}]
  /\ snap \in [Actors -> Instance \cup {None}]
  /\ seen \in [Actors -> Net \cup {None}] /\ env \in [Actors -> Env]
  /\ names \in [Actors -> SUBSET Names] /\ made \in [Actors -> SUBSET Names]

\* The kinds of requests.
LEMMA RequestVerbs ==
  ASSUME NEW r \in Request
  PROVE  /\ r.verb \in {"start", "stop", "remove", "run", "export", "import", "network",
                        "autostart", "port", "unport", "mount", "unmount", "remount"}
         /\ r.name \in Names \cup {None} /\ (r.name = None => r.verb = "import")
         /\ Told(r) => r.value \in Modes
         /\ r.verb = "autostart" => r.value \in {"on", "off"}
         /\ r.verb = "port" => r.key \in HostPorts /\ r.value \in ContainerPorts
         /\ r.verb = "unport" => r.key \in HostPorts
         /\ r.verb \in {"mount", "remount"} => r.key \in MountKeys /\ r.value \in MountModes
         /\ r.verb = "unmount" => r.key \in MountKeys
  BY InstanceConfigAssumption DEF Request, Asking, Told

\* The course of a command is one of stages.
LEMMA CourseStages ==
  ASSUME NEW r \in Request
  PROVE  Course(r) \subseteq Seq(Stages)
<1>1. StartCourse \subseteq Seq(Stages) /\ RunCourse \subseteq Seq(Stages)
  BY DEF StartCourse, RunCourse, Stages
<1>2. ImportCourse \subseteq Seq(Stages) /\ ModelessCourse \subseteq Seq(Stages)
  BY DEF ImportCourse, ModelessCourse, Stages
<1>3. {<<"halt">>, <<"halt", "delete">>, <<"delete">>, <<"export">>, <<"look", "renet">>,
       <<"renet">>, <<"look", "edit">>, <<"edit">>} \subseteq Seq(Stages)
  BY DEF Stages
<1> QED
  BY <1>1, <1>2, <1>3 DEF Course

\* It begins as planned,
LEMMA PlanCourse ==
  ASSUME NEW r \in Request
  PROVE  Plan(r) \in Course(r) /\ (Head(Plan(r)) \in Needing => Told(r))
<1>1. CASE r.verb = "import"
  <2>1. CASE r.name = None /\ r.value = None
    BY <1>1, <2>1 DEF Plan, ImportPlan, Course, ModelessCourse, Needing
  <2>2. CASE r.name = None /\ r.value # None
    BY <1>1, <2>2 DEF Plan, ImportPlan, Course, ImportCourse, Needing
  <2>3. CASE r.name # None /\ r.value = None
    BY <1>1, <2>3 DEF Plan, ImportPlan, Course, ModelessCourse, Needing
  <2>4. CASE r.name # None /\ r.value # None
    BY <1>1, <2>4 DEF Plan, ImportPlan, Course, ImportCourse, Needing
  <2> QED
    BY <2>1, <2>2, <2>3, <2>4
<1>2. CASE r.verb = "start"
  BY <1>2 DEF Plan, StartPlan, Course, StartCourse, Needing
<1>3. CASE r.verb = "run"
  BY <1>3 DEF Plan, Course, RunCourse, Told
<1>4. CASE r.verb \in {"stop", "remove", "export", "network"}
  BY <1>4 DEF Plan, Course, Needing
<1>5. CASE r.verb \in {"autostart", "port", "unport", "mount", "unmount", "remount"}
  BY <1>5 DEF Plan, Course, Needing
<1> QED
  BY <1>1, <1>2, <1>3, <1>4, <1>5, RequestVerbs

\* and goes on stage by stage; the mode is read before it is needed.
LEMMA TailCourse ==
  ASSUME NEW r \in Request, NEW t \in Course(r)
  PROVE  /\ t # <<>> /\ (Tail(t) = <<>> \/ Tail(t) \in Course(r))
         /\ Tail(t) # <<>> /\ Head(Tail(t)) \in Needing =>
              Head(t) \in Needing \cup {"mode"} \/ Told(r)
<1>1. CASE r.verb = "start"
  <2>1. CASE t = <<"look", "mode", "security", "soft", "boot", "await", "refresh">>
    <3>1. Tail(<<"look", "mode", "security", "soft", "boot", "await", "refresh">>)
            = <<"mode", "security", "soft", "boot", "await", "refresh">>
      OBVIOUS
    <3> QED
      BY <1>1, <2>1, <3>1 DEF Course, StartCourse, Needing, Told
  <2>2. CASE t = <<"mode", "security", "soft", "boot", "await", "refresh">>
    <3>1. Tail(<<"mode", "security", "soft", "boot", "await", "refresh">>)
            = <<"security", "soft", "boot", "await", "refresh">>
      OBVIOUS
    <3> QED
      BY <1>1, <2>2, <3>1 DEF Course, StartCourse, Needing, Told
  <2>3. CASE t = <<"security", "soft", "boot", "await", "refresh">>
    <3>1. Tail(<<"security", "soft", "boot", "await", "refresh">>)
            = <<"soft", "boot", "await", "refresh">>
      OBVIOUS
    <3> QED
      BY <1>1, <2>3, <3>1 DEF Course, StartCourse, Needing, Told
  <2>4. CASE t = <<"soft", "boot", "await", "refresh">>
    <3>1. Tail(<<"soft", "boot", "await", "refresh">>)
            = <<"boot", "await", "refresh">>
      OBVIOUS
    <3> QED
      BY <1>1, <2>4, <3>1 DEF Course, StartCourse, Needing, Told
  <2>5. CASE t = <<"boot", "await", "refresh">>
    <3>1. Tail(<<"boot", "await", "refresh">>)
            = <<"await", "refresh">>
      OBVIOUS
    <3> QED
      BY <1>1, <2>5, <3>1 DEF Course, StartCourse, Needing, Told
  <2>6. CASE t = <<"await", "refresh">>
    <3>1. Tail(<<"await", "refresh">>)
            = <<"refresh">>
      OBVIOUS
    <3> QED
      BY <1>1, <2>6, <3>1 DEF Course, StartCourse, Needing, Told
  <2>7. CASE t = <<"refresh">>
    BY <2>7
  <2> QED
    BY <1>1, <2>1, <2>2, <2>3, <2>4, <2>5, <2>6, <2>7 DEF Course, StartCourse
<1>2. CASE r.verb = "run"
  <2>1. CASE t = <<"ensure", "create", "mode", "security", "soft", "boot">>
    <3>1. Tail(<<"ensure", "create", "mode", "security", "soft", "boot">>)
            = <<"create", "mode", "security", "soft", "boot">>
      OBVIOUS
    <3> QED
      BY <1>2, <2>1, <3>1 DEF Course, RunCourse, Needing, Told
  <2>2. CASE t = <<"create", "mode", "security", "soft", "boot">>
    <3>1. Tail(<<"create", "mode", "security", "soft", "boot">>)
            = <<"mode", "security", "soft", "boot">>
      OBVIOUS
    <3> QED
      BY <1>2, <2>2, <3>1 DEF Course, RunCourse, Needing, Told
  <2>3. CASE t = <<"mode", "security", "soft", "boot">>
    <3>1. Tail(<<"mode", "security", "soft", "boot">>)
            = <<"security", "soft", "boot">>
      OBVIOUS
    <3> QED
      BY <1>2, <2>3, <3>1 DEF Course, RunCourse, Needing, Told
  <2>4. CASE t = <<"security", "soft", "boot">>
    <3>1. Tail(<<"security", "soft", "boot">>)
            = <<"soft", "boot">>
      OBVIOUS
    <3> QED
      BY <1>2, <2>4, <3>1 DEF Course, RunCourse, Needing, Told
  <2>5. CASE t = <<"soft", "boot">>
    <3>1. Tail(<<"soft", "boot">>)
            = <<"boot">>
      OBVIOUS
    <3> QED
      BY <1>2, <2>5, <3>1 DEF Course, RunCourse, Needing, Told
  <2>6. CASE t = <<"boot">>
    BY <2>6
  <2> QED
    BY <1>2, <2>1, <2>2, <2>3, <2>4, <2>5, <2>6 DEF Course, RunCourse
<1>3. CASE r.verb = "import" /\ r.value = None
  <2>1. CASE t = <<"names", "import", "find", "mode", "renet", "security">>
    <3>1. Tail(<<"names", "import", "find", "mode", "renet", "security">>)
            = <<"import", "find", "mode", "renet", "security">>
      OBVIOUS
    <3> QED
      BY <1>3, <2>1, <3>1 DEF Course, ModelessCourse, Needing, Told
  <2>2. CASE t = <<"import", "find", "mode", "renet", "security">>
    <3>1. Tail(<<"import", "find", "mode", "renet", "security">>)
            = <<"find", "mode", "renet", "security">>
      OBVIOUS
    <3> QED
      BY <1>3, <2>2, <3>1 DEF Course, ModelessCourse, Needing, Told
  <2>3. CASE t = <<"find", "mode", "renet", "security">>
    <3>1. Tail(<<"find", "mode", "renet", "security">>)
            = <<"mode", "renet", "security">>
      OBVIOUS
    <3> QED
      BY <1>3, <2>3, <3>1 DEF Course, ModelessCourse, Needing, Told
  <2>4. CASE t = <<"mode", "renet", "security">>
    <3>1. Tail(<<"mode", "renet", "security">>)
            = <<"renet", "security">>
      OBVIOUS
    <3> QED
      BY <1>3, <2>4, <3>1 DEF Course, ModelessCourse, Needing, Told
  <2>5. CASE t = <<"renet", "security">>
    <3>1. Tail(<<"renet", "security">>)
            = <<"security">>
      OBVIOUS
    <3> QED
      BY <1>3, <2>5, <3>1 DEF Course, ModelessCourse, Needing, Told
  <2>6. CASE t = <<"security">>
    BY <2>6
  <2>7. CASE t = <<"import", "mode", "renet", "security">>
    <3>1. Tail(<<"import", "mode", "renet", "security">>)
            = <<"mode", "renet", "security">>
      OBVIOUS
    <3> QED
      BY <1>3, <2>7, <3>1 DEF Course, ModelessCourse, Needing, Told
  <2> QED
    BY <1>3, <2>1, <2>2, <2>3, <2>4, <2>5, <2>6, <2>7 DEF Course, ModelessCourse
<1>4. CASE r.verb = "import" /\ r.value # None
  <2>1. CASE t = <<"names", "import", "find", "renet", "security">>
    <3>1. Tail(<<"names", "import", "find", "renet", "security">>)
            = <<"import", "find", "renet", "security">>
      OBVIOUS
    <3> QED
      BY <1>4, <2>1, <3>1 DEF Course, ImportCourse, Needing, Told
  <2>2. CASE t = <<"import", "find", "renet", "security">>
    <3>1. Tail(<<"import", "find", "renet", "security">>)
            = <<"find", "renet", "security">>
      OBVIOUS
    <3> QED
      BY <1>4, <2>2, <3>1 DEF Course, ImportCourse, Needing, Told
  <2>3. CASE t = <<"find", "renet", "security">>
    <3>1. Tail(<<"find", "renet", "security">>)
            = <<"renet", "security">>
      OBVIOUS
    <3> QED
      BY <1>4, <2>3, <3>1 DEF Course, ImportCourse, Needing, Told
  <2>4. CASE t = <<"renet", "security">>
    <3>1. Tail(<<"renet", "security">>)
            = <<"security">>
      OBVIOUS
    <3> QED
      BY <1>4, <2>4, <3>1 DEF Course, ImportCourse, Needing, Told
  <2>5. CASE t = <<"security">>
    BY <2>5
  <2>6. CASE t = <<"import", "renet", "security">>
    <3>1. Tail(<<"import", "renet", "security">>)
            = <<"renet", "security">>
      OBVIOUS
    <3> QED
      BY <1>4, <2>6, <3>1 DEF Course, ImportCourse, Needing, Told
  <2> QED
    BY <1>4, <2>1, <2>2, <2>3, <2>4, <2>5, <2>6 DEF Course, ImportCourse
<1>5. CASE r.verb \in {"stop", "remove", "export", "network"}
  <2>1. CASE t = <<"halt">>
    BY <2>1
  <2>2. CASE t = <<"halt", "delete">>
    <3>1. Tail(<<"halt", "delete">>)
            = <<"delete">>
      OBVIOUS
    <3> QED
      BY <1>5, <2>2, <3>1 DEF Course, Needing, Told
  <2>3. CASE t = <<"delete">>
    BY <2>3
  <2>4. CASE t = <<"export">>
    BY <2>4
  <2>5. CASE t = <<"look", "renet">>
    <3>1. Tail(<<"look", "renet">>)
            = <<"renet">>
      OBVIOUS
    <3> QED
      BY <1>5, <2>5, <3>1 DEF Course, Needing, Told
  <2>6. CASE t = <<"renet">>
    BY <2>6
  <2> QED
    BY <1>5, <2>1, <2>2, <2>3, <2>4, <2>5, <2>6 DEF Course
<1>6. CASE r.verb \in {"autostart", "port", "unport", "mount", "unmount", "remount"}
  <2>1. CASE t = <<"look", "edit">>
    <3>1. Tail(<<"look", "edit">>)
            = <<"edit">>
      OBVIOUS
    <3> QED
      BY <1>6, <2>1, <3>1 DEF Course, Needing, Told
  <2>2. CASE t = <<"edit">>
    BY <2>2
  <2> QED
    BY <1>6, <2>1, <2>2 DEF Course
<1> QED
  BY <1>1, <1>2, <1>3, <1>4, <1>5, <1>6, RequestVerbs

\* The kinds of stages by the commands that have them.
LEMMA StageOf ==
  ASSUME NEW r \in Request, NEW t \in Course(r)
  PROVE  /\ Head(t) \in Stages
         /\ Head(t) = "edit" => r.verb \in {"autostart", "port", "unport", "mount", "unmount",
                                            "remount"}
         /\ Head(t) = "delete" => r.verb = "remove"
         /\ Head(t) \in {"names", "import", "find"} => r.verb = "import"
<1>1. CASE r.verb = "start"
  BY <1>1 DEF Course, StartCourse, Stages
<1>2. CASE r.verb = "run"
  BY <1>2 DEF Course, RunCourse, Stages
<1>3. CASE r.verb = "import" /\ r.value = None
  BY <1>3 DEF Course, ModelessCourse, Stages
<1>4. CASE r.verb = "import" /\ r.value # None
  BY <1>4 DEF Course, ImportCourse, Stages
<1>5. CASE r.verb \in {"stop", "remove"}
  BY <1>5 DEF Course, Stages
<1>6. CASE r.verb \in {"export", "network"}
  BY <1>6 DEF Course, Stages
<1>7. CASE r.verb \in {"autostart", "port", "unport", "mount", "unmount", "remount"}
  BY <1>7 DEF Course, Stages
<1> QED
  BY <1>1, <1>2, <1>3, <1>4, <1>5, <1>6, <1>7, RequestVerbs

\* What only changes for one command leaves the others as they know it.
LEMMA OthersKnow ==
  ASSUME WorkType, CourseInv, NEW p \in Actors,
         pc' \in [Actors -> {"idle", "read", "net", "netput", "put"}],
         \A q \in Actors : q # p =>
           /\ pc'[q] = pc[q] /\ req'[q] = req[q] /\ todo'[q] = todo[q]
           /\ name'[q] = name[q] /\ want'[q] = want[q] /\ snap'[q] = snap[q],
         pc'[p] # "idle" => Knows(p)'
  PROVE  CourseInv'
<1> SUFFICES ASSUME NEW q \in Actors, pc'[q] # "idle"
             PROVE  Knows(q)'
  BY DEF CourseInv
<1>1. CASE q = p
  BY <1>1
<1>2. CASE q # p
  <2>1. Knows(q)
    BY <1>2 DEF CourseInv
  <2> QED
    BY <1>2, <2>1 DEF Knows, Stage
<1> QED
  BY <1>1, <1>2

\* A command that ends keeps the types,
LEMMA FinishKept ==
  ASSUME WorkType, CourseInv, NEW p \in Actors, Finish(p)
  PROVE  WorkType' /\ CourseInv'
<1>1. WorkType'
  <2>1. NoEnv \in Env /\ <<>> \in Seq(Stages)
    BY DEF NoEnv, Env
  <2> QED
    BY <2>1 DEF Finish, WorkType
<1>2. CourseInv'
  BY OthersKnow DEF Finish, WorkType
<1> QED
  BY <1>1, <1>2

\* one that goes on to other stages,
LEMMA ProceedKept ==
  ASSUME WorkType, CourseInv, NEW p \in Actors, pc[p] # "idle",
         NEW ss, ss = <<>> \/ ss \in Course(req[p]),
         NEW n \in Names, NEW m \in Modes \cup {None}, Proceed(p, ss, n, m),
         Told(req[p]) \/ (ss # <<>> /\ Head(ss) \in Needing) => m \in Modes
  PROVE  WorkType' /\ CourseInv'
<1>1. CASE Finish(p)
  BY <1>1, FinishKept
<1>2. CASE /\ ss # <<>>
           /\ pc' = [pc EXCEPT ![p] = "read"] /\ todo' = [todo EXCEPT ![p] = ss]
           /\ name' = [name EXCEPT ![p] = n] /\ want' = [want EXCEPT ![p] = m]
           /\ snap' = [snap EXCEPT ![p] = None] /\ seen' = [seen EXCEPT ![p] = None]
           /\ UNCHANGED <<req, env, names, made>>
  <2>1. Knows(p)
    BY DEF CourseInv
  <2>2. ss \in Seq(Stages)
    BY <1>2, <2>1, CourseStages DEF Knows
  <2>3. WorkType'
    BY <1>2, <2>2 DEF WorkType
  <2>4. Knows(p)'
    <3>1. /\ pc'[p] = "read" /\ todo'[p] = ss /\ name'[p] = n /\ want'[p] = m /\ req'[p] = req[p]
      BY <1>2 DEF WorkType
    <3> QED
      BY <1>2, <2>1, <3>1 DEF Knows, Stage
  <2>5. CourseInv'
    BY <1>2, <2>4, OthersKnow DEF WorkType
  <2> QED
    BY <2>3, <2>5
<1> QED
  BY <1>1, <1>2 DEF Proceed

\* to the next stage,
LEMMA ContinueKept ==
  ASSUME WorkType, CourseInv, NEW p \in Actors, pc[p] # "idle", Stage(p) # "mode", Continue(p)
  PROVE  WorkType' /\ CourseInv'
<1>1. Knows(p)
  BY DEF CourseInv
<1>2. /\ Tail(todo[p]) = <<>> \/ Tail(todo[p]) \in Course(req[p])
      /\ Tail(todo[p]) # <<>> /\ Head(Tail(todo[p])) \in Needing =>
           Stage(p) \in Needing \/ Told(req[p])
  BY <1>1, TailCourse DEF Knows, Stage
<1>3. want[p] \in Modes \cup {None} /\ name[p] \in Names
  BY <1>1 DEF Knows, WorkType
<1>4. Told(req[p]) \/ (Tail(todo[p]) # <<>> /\ Head(Tail(todo[p])) \in Needing) => want[p] \in Modes
  BY <1>1, <1>2 DEF Knows
<1> QED
  BY <1>2, <1>3, <1>4, ProceedKept DEF Continue

\* or to another place in the same one.
LEMMA GotoKept ==
  ASSUME WorkType, CourseInv, NEW p \in Actors, pc[p] # "idle",
         NEW place \in {"net", "netput", "put"}, pc' = [pc EXCEPT ![p] = place],
         snap' \in [Actors -> Instance \cup {None}], \A q \in Actors : q # p => snap'[q] = snap[q],
         seen' \in [Actors -> Net \cup {None}],
         place = "net" => Stage(p) \in {"soft", "renet"},
         place = "netput" => Stage(p) \in {"soft", "renet", "ensure"},
         place = "put" => Stage(p) \in {"edit", "security", "refresh", "soft", "renet"},
         snap'[p] \in Instance \/ (place = "netput" /\ Stage(p) = "ensure"),
         UNCHANGED <<req, todo, name, want, env, names, made>>
  PROVE  WorkType' /\ CourseInv'
<1>1. Knows(p)
  BY DEF CourseInv
<1>2. WorkType'
  BY DEF WorkType
<1>3. Knows(p)'
  <2>1. pc'[p] = place
    BY DEF WorkType
  <2> QED
    BY <1>1, <2>1 DEF Knows, Stage
<1>4. pc' \in [Actors -> {"idle", "read", "net", "netput", "put"}]
      /\ \A q \in Actors : q # p => pc'[q] = pc[q]
  BY DEF WorkType
<1>5. CourseInv'
  BY <1>3, <1>4, OthersKnow
<1> QED
  BY <1>2, <1>5

\* A stage that makes a container, or lists them, has others after it.
LEMMA MakeTail ==
  ASSUME NEW r \in Request, NEW t \in Course(r), Head(t) \in {"create", "names", "import"}
  PROVE  /\ Tail(t) \in Course(r)
         /\ Head(Tail(t)) \in Needing => Told(r)
<1>1. CASE r.verb = "run"
  <2>1. t = <<"create", "mode", "security", "soft", "boot">>
    BY <1>1 DEF Course, RunCourse
  <2>2. Tail(<<"create", "mode", "security", "soft", "boot">>)
          = <<"mode", "security", "soft", "boot">>
    OBVIOUS
  <2> QED
    BY <1>1, <2>1, <2>2 DEF Course, RunCourse, Needing
<1>2. CASE r.verb = "import" /\ r.value = None
  <2>1. CASE t = <<"names", "import", "find", "mode", "renet", "security">>
    <3>1. Tail(<<"names", "import", "find", "mode", "renet", "security">>)
            = <<"import", "find", "mode", "renet", "security">>
      OBVIOUS
    <3> QED
      BY <1>2, <2>1, <3>1 DEF Course, ModelessCourse, Needing
  <2>2. CASE t = <<"import", "find", "mode", "renet", "security">>
    <3>1. Tail(<<"import", "find", "mode", "renet", "security">>)
            = <<"find", "mode", "renet", "security">>
      OBVIOUS
    <3> QED
      BY <1>2, <2>2, <3>1 DEF Course, ModelessCourse, Needing
  <2>3. CASE t = <<"import", "mode", "renet", "security">>
    <3>1. Tail(<<"import", "mode", "renet", "security">>) = <<"mode", "renet", "security">>
      OBVIOUS
    <3> QED
      BY <1>2, <2>3, <3>1 DEF Course, ModelessCourse, Needing
  <2> QED
    BY <1>2, <2>1, <2>2, <2>3 DEF Course, ModelessCourse
<1>3. CASE r.verb = "import" /\ r.value # None
  <2>1. CASE t = <<"names", "import", "find", "renet", "security">>
    <3>1. Tail(<<"names", "import", "find", "renet", "security">>)
            = <<"import", "find", "renet", "security">>
      OBVIOUS
    <3> QED
      BY <1>3, <2>1, <3>1 DEF Course, ImportCourse, Told
  <2>2. CASE t = <<"import", "find", "renet", "security">>
    <3>1. Tail(<<"import", "find", "renet", "security">>) = <<"find", "renet", "security">>
      OBVIOUS
    <3> QED
      BY <1>3, <2>2, <3>1 DEF Course, ImportCourse, Told
  <2>3. CASE t = <<"import", "renet", "security">>
    <3>1. Tail(<<"import", "renet", "security">>) = <<"renet", "security">>
      OBVIOUS
    <3> QED
      BY <1>3, <2>3, <3>1 DEF Course, ImportCourse, Told
  <2>4. t \in ImportCourse
    BY <1>3 DEF Course
  <2> QED
    BY <2>1, <2>2, <2>3, <2>4 DEF ImportCourse
<1>4. CASE r.verb = "start"
  BY <1>4 DEF Course, StartCourse
<1>5. CASE r.verb \in {"stop", "remove", "export", "network"}
  BY <1>5 DEF Course
<1>6. CASE r.verb \in {"autostart", "port", "unport", "mount", "unmount", "remount"}
  BY <1>6 DEF Course
<1> QED
  BY <1>1, <1>2, <1>3, <1>4, <1>5, <1>6, RequestVerbs
\* The part of TypeOK about Incus.
HostType ==
  /\ regime \in Regimes
  /\ inst \in [Names -> Instance \cup {None}] /\ starts \in Nat
  /\ nets \in [Modes -> Net \cup {None}]
  /\ backup \in Instance \cup {None} /\ origin \in Names
  /\ calls \in 0 .. MaxCalls /\ faults \in 0 .. MaxFaults
  /\ refreshed \subseteq Names

\* TypeOK is both parts.
LEMMA Types == TypeOK <=> HostType /\ WorkType
  BY DEF TypeOK, HostType, WorkType

\* What the assumption says of a regime.
LEMMA RegimeTypes ==
  ASSUME regime \in Regimes
  PROVE  /\ regime.inst \in [Names -> Instance \cup {None}]
         /\ regime.nets \in [Modes -> Net \cup {None}]
         /\ regime.backup \in Instance \cup {None} /\ regime.origin \in Names
         /\ regime.requests \subseteq Request /\ regime.envs \subseteq Env
         /\ regime.calls \in 0 .. MaxCalls /\ regime.faults \in 0 .. MaxFaults
<1>1. regime \in Regime
  BY InstanceConfigAssumption
<1> QED
  BY <1>1 DEF Regime

\* A record of an instance with other values is one.
LEMMA InstanceFields ==
  ASSUME NEW i \in Instance
  PROVE  /\ \A x \in BOOLEAN : [i EXCEPT !.auto = x] \in Instance
         /\ \A x \in Modes : [i EXCEPT !.mode = x] \in Instance
         /\ \A x \in Ports : [i EXCEPT !.ports = x] \in Instance
         /\ \A x \in Mounts : [i EXCEPT !.mounts = x] \in Instance
         /\ \A x \in Modes, m \in MACs : [i EXCEPT !.mode = x, !.mac = m] \in Instance
         /\ [i EXCEPT !.secure = TRUE] \in Instance
         /\ \A m \in MACs : [i EXCEPT !.mac = m] \in Instance
         /\ \A a \in Addrs \cup {None} : [i EXCEPT !.addr = a] \in Instance
         /\ \A a \in Addrs \cup {None}, b \in Nat : [i EXCEPT !.addr = a, !.boots = b] \in Instance
         /\ [i EXCEPT !.run = FALSE, !.addr = None] \in Instance
         /\ \A a \in Addrs \cup {None}, b \in Nat :
              [i EXCEPT !.run = TRUE, !.boots = b, !.addr = a] \in Instance
         /\ [i EXCEPT !.run = FALSE, !.addr = None, !.boots = 0] \in Instance
         /\ i.ports \in Ports /\ i.mounts \in Mounts /\ i.addr \in Addrs \cup {None}
         /\ i.boots \in Nat /\ i.mode \in Modes /\ i.mac \in MACs /\ i.run \in BOOLEAN
<1>1. \A x \in BOOLEAN : [i EXCEPT !.auto = x] \in Instance
  BY DEF Instance
<1>2. \A x \in Modes : [i EXCEPT !.mode = x] \in Instance
  BY DEF Instance
<1>3. \A x \in Ports : [i EXCEPT !.ports = x] \in Instance
  BY DEF Instance
<1>4. \A x \in Mounts : [i EXCEPT !.mounts = x] \in Instance
  BY DEF Instance
<1>5. \A x \in Modes, m \in MACs : [i EXCEPT !.mode = x, !.mac = m] \in Instance
  BY DEF Instance
<1>6. [i EXCEPT !.secure = TRUE] \in Instance
  BY DEF Instance
<1>7. \A m \in MACs : [i EXCEPT !.mac = m] \in Instance
  BY DEF Instance
<1>8. \A a \in Addrs \cup {None} : [i EXCEPT !.addr = a] \in Instance
  BY DEF Instance
<1>9. \A a \in Addrs \cup {None}, b \in Nat : [i EXCEPT !.addr = a, !.boots = b] \in Instance
  BY DEF Instance
<1>10. [i EXCEPT !.run = FALSE, !.addr = None] \in Instance
  BY DEF Instance
<1>11. \A a \in Addrs \cup {None}, b \in Nat :
              [i EXCEPT !.run = TRUE, !.boots = b, !.addr = a] \in Instance
  BY DEF Instance
<1>12. [i EXCEPT !.run = FALSE, !.addr = None, !.boots = 0] \in Instance
  BY DEF Instance
<1>13. i.ports \in Ports /\ i.mounts \in Mounts /\ i.addr \in Addrs \cup {None}
  BY DEF Instance
<1>14. i.boots \in Nat /\ i.mode \in Modes /\ i.mac \in MACs /\ i.run \in BOOLEAN
  BY DEF Instance
<1> QED
  BY <1>1, <1>2, <1>3, <1>4, <1>5, <1>6, <1>7, <1>8, <1>9, <1>10, <1>11, <1>12, <1>13, <1>14

\* So are the results of the edits.
LEMMA EditedType ==
  ASSUME regime \in Regimes, NEW p \in Actors, Knows(p), NEW i \in Instance,
         Stage(p) \in {"edit", "security", "refresh", "soft", "renet"}
  PROVE  Edited(p, i) \subseteq Instance
<1> USE DEF Edited
<1>r. req[p] \in Request /\ (Stage(p) \in Needing => want[p] \in Modes)
  BY DEF Knows
<1>i. /\ i.ports \in Ports /\ i.mounts \in Mounts /\ i.addr \in Addrs \cup {None}
      /\ i.mac \in MACs
  BY InstanceFields, ZenonT(60)
<1>f. /\ \A x \in BOOLEAN : [i EXCEPT !.auto = x] \in Instance
      /\ \A x \in Modes : [i EXCEPT !.mode = x] \in Instance
      /\ \A x \in Ports : [i EXCEPT !.ports = x] \in Instance
      /\ \A x \in Mounts : [i EXCEPT !.mounts = x] \in Instance
  BY InstanceFields, ZenonT(60)
<1>g. /\ \A x \in Modes, m \in MACs : [i EXCEPT !.mode = x, !.mac = m] \in Instance
      /\ [i EXCEPT !.secure = TRUE] \in Instance
  BY InstanceFields, ZenonT(60)
<1>1. CASE Stage(p) = "security"
  BY <1>1, <1>f, <1>g
<1>2. CASE Stage(p) = "soft"
  BY <1>2, <1>r, <1>f, <1>g DEF Needing
<1>3. CASE Stage(p) = "renet"
  <2>1. FreeMACs \subseteq MACs /\ want[p] \in Modes
    BY <1>3, <1>r DEF FreeMACs, Needing
  <2>2. ASSUME NEW x \in Edited(p, i)
        PROVE  x \in Instance
    <3>1. PICK m \in MACs : x = [i EXCEPT !.mode = want[p], !.mac = m]
      BY <1>3, <1>i, <2>1, <2>2
    <3> QED
      BY <1>g, <2>1, <3>1
  <2> QED
    BY <2>2
<1>4. CASE Stage(p) = "refresh"
  <2>1. CASE i.addr = None
    BY <1>4, <2>1 DEF Refresh
  <2>2. CASE i.addr # None
    <3> DEFINE new == [h \in HostPorts |->
                         IF i.ports[h] = None THEN None
                         ELSE [to |-> i.ports[h].to, at |-> i.addr, dual |-> TRUE]]
    <3>1. new \in Ports
      BY <1>i, <2>2 DEF Ports
    <3>2. Refresh(i) = [i EXCEPT !.ports = new]
      BY <2>2 DEF Refresh
    <3> HIDE DEF new
    <3> QED
      BY <1>4, <3>1, <3>2, <1>f, <1>g
  <2> QED
    BY <2>1, <2>2
<1>5. CASE Stage(p) = "edit"
  <2> DEFINE r == req[p]
  <2>v. r.verb \in {"autostart", "port", "unport", "mount", "unmount", "remount"}
    BY <1>5, <1>r, StageOf DEF Knows, Stage
  <2>e. Edited(p, i) = EditedBy(r, i)
    BY <1>5
  <2>1. CASE r.verb = "autostart"
    <3> DEFINE on == r.value = "on"
    <3>1. Edited(p, i) = {[i EXCEPT !.auto = on]}
      BY <2>e, <2>1 DEF EditedBy, SetAutostart
    <3>2. on \in BOOLEAN
      OBVIOUS
    <3> HIDE DEF on
    <3> QED
      BY <1>f, <3>1, <3>2
  <2>2. CASE r.verb = "port"
    <3>1. r.key \in HostPorts /\ r.value \in ContainerPorts
      BY <1>r, <2>2, RequestVerbs
    <3>2. CASE i.addr = None
      BY <2>e, <2>2, <3>2 DEF EditedBy, AddPort
    <3>3. CASE i.addr # None
      <4> DEFINE new == [i.ports EXCEPT ![r.key] = [to |-> r.value, at |-> i.addr, dual |-> TRUE]]
      <4>1. new \in Ports
        BY <1>i, <3>1, <3>3 DEF Ports
      <4>2. EditedBy(r, i) = {[i EXCEPT !.ports = new]}
        BY <2>2, <3>3 DEF EditedBy, AddPort
      <4> HIDE DEF new
      <4> QED
        BY <2>e, <4>1, <4>2, <1>f, <1>g
    <3> QED
      BY <3>2, <3>3
  <2>3. CASE r.verb = "unport"
    <3>1. r.key \in HostPorts
      BY <1>r, <2>3, RequestVerbs
    <3> DEFINE new == [i.ports EXCEPT ![r.key] = None]
    <3>2. new \in Ports
      BY <1>i, <3>1 DEF Ports
    <3>3. EditedBy(r, i) \subseteq {[i EXCEPT !.ports = new]}
      BY <2>3 DEF EditedBy, RemovePort
    <3> HIDE DEF new
    <3> QED
      BY <2>e, <3>2, <3>3, <1>f, <1>g
  <2>4. CASE r.verb \in {"mount", "remount"}
    <3>1. r.key \in MountKeys /\ r.value \in MountModes
      BY <1>r, <2>4, RequestVerbs
    <3> DEFINE new == [i.mounts EXCEPT ![r.key] = r.value]
    <3>2. new \in Mounts
      BY <1>i, <3>1 DEF Mounts
    <3>3. EditedBy(r, i) \subseteq {[i EXCEPT !.mounts = new]}
      BY <2>4 DEF EditedBy, AddMount, UpdateMount
    <3> HIDE DEF new
    <3> QED
      BY <2>e, <3>2, <3>3, <1>f, <1>g
  <2>5. CASE r.verb = "unmount"
    <3>1. r.key \in MountKeys
      BY <1>r, <2>5, RequestVerbs
    <3> DEFINE new == [i.mounts EXCEPT ![r.key] = "none"]
    <3>2. new \in Mounts
      BY <1>i, <3>1 DEF Mounts
    <3>3. EditedBy(r, i) \subseteq {[i EXCEPT !.mounts = new]}
      BY <2>5 DEF EditedBy, RemoveMount
    <3> HIDE DEF new
    <3> QED
      BY <2>e, <3>2, <3>3, <1>f, <1>g
  <2> QED
    BY <2>v, <2>1, <2>2, <2>3, <2>4, <2>5
<1> QED
  BY <1>1, <1>2, <1>3, <1>4, <1>5

\* What a command makes of a network is a network.
LEMMA DesiredType ==
  ASSUME NEW n \in Net \cup {None}, NEW e \in Env
  PROVE  Desired(n, e) \in Net
<1>1. Drawn(e.v6) \in {"none", "own", "custom1", "custom2"} /\ e.v4 \in {"default", "other"}
  BY DEF Drawn, Explicit, Env
<1>2. CASE n = None
  BY <1>1, <1>2 DEF Desired, Net
<1>3. CASE n # None
  <2>1. n \in Net
    BY <1>3
  <2>2. (IF Explicit(e.v6) \/ n.v6 \in {"", "none"} THEN Drawn(e.v6) ELSE n.v6)
           \in {"", "none", "own", "custom1", "custom2"}
    BY <1>1, <2>1 DEF Net
  <2> QED
    BY <1>1, <1>3, <2>1, <2>2 DEF Desired, Net
<1> QED
  BY <1>2, <1>3

\* A container written under a name is an instance.
LEMMA SetType ==
  ASSUME HostType, NEW n \in Names, NEW i \in Instance \cup {None}, Set(n, i)
  PROVE  inst' \in [Names -> Instance \cup {None}]
  BY DEF HostType, Set

\* A command in progress is about one of the containers.
LEMMA MineType ==
  ASSUME HostType, CourseInv, NEW p \in Actors, pc[p] # "idle"
  PROVE  Knows(p) /\ name[p] \in Names /\ Mine(p) \in Instance \cup {None}
  BY DEF HostType, CourseInv, Knows, Mine

\* Every step keeps the types and the courses.
LEMMA TypeStep ==
  TypeOK /\ CourseInv /\ BackupInv /\ [Next]_vars => TypeOK' /\ CourseInv'
<1> SUFFICES ASSUME HostType, WorkType, CourseInv, BackupInv, [Next]_vars
             PROVE  HostType' /\ WorkType' /\ CourseInv'
  BY DEF TypeOK, HostType, WorkType
<1>1. ASSUME NEW p \in Actors, NEW r \in regime.requests, NEW e \in regime.envs, Begin(p, r, e)
      PROVE  HostType' /\ WorkType' /\ CourseInv'
  <2>1. r \in Request /\ e \in Env /\ regime.calls \in 0 .. MaxCalls
    BY RegimeTypes DEF HostType
  <2>2. HostType'
    BY <1>1, <2>1, InstanceConfigAssumption DEF Begin, HostType
  <2>3. Plan(r) \in Course(r) /\ Plan(r) \in Seq(Stages)
    BY <2>1, PlanCourse, CourseStages
  <2> DEFINE n == IF r.verb = "import" /\ r.name = None THEN origin ELSE r.name
             m == IF r.value \in Modes THEN r.value ELSE None
  <2>4. n \in Names /\ m \in Modes \cup {None}
    BY <2>1, RequestVerbs DEF HostType
  <2>5. /\ pc' = [pc EXCEPT ![p] = "read"] /\ todo' = [todo EXCEPT ![p] = Plan(r)]
        /\ req' = [req EXCEPT ![p] = r] /\ env' = [env EXCEPT ![p] = e]
        /\ name' = [name EXCEPT ![p] = n] /\ want' = [want EXCEPT ![p] = m]
        /\ UNCHANGED <<snap, seen, names, made>>
    BY <1>1 DEF Begin
  <2>6. Told(r) \/ Head(Plan(r)) \in Needing => m \in Modes
    BY <2>1, PlanCourse, RequestVerbs
  <2> HIDE DEF n, m
  <2>7. WorkType'
    BY <2>1, <2>3, <2>4, <2>5 DEF WorkType
  <2>8. /\ pc'[p] = "read" /\ todo'[p] = Plan(r) /\ req'[p] = r /\ name'[p] = n
        /\ want'[p] = m
    BY <2>5 DEF WorkType
  <2>9. Knows(p)'
    BY <2>1, <2>3, <2>4, <2>6, <2>8 DEF Knows, Stage
  <2>10. CourseInv'
    BY <2>5, <2>7, <2>9, OthersKnow DEF WorkType
  <2> QED
    BY <2>2, <2>7, <2>10
<1>2. ASSUME NEW p \in Actors, Look(p) PROVE HostType' /\ WorkType' /\ CourseInv'
  <2>1. HostType' /\ pc[p] # "idle" /\ Stage(p) # "mode"
    BY <1>2 DEF Look, At, HostType, fixed
  <2>2. Knows(p) /\ name[p] \in Names /\ want[p] \in Modes \cup {None}
    BY <2>1, MineType DEF WorkType
  <2>3. CASE req[p].verb = "start" /\ Proceed(p, <<"await", "refresh">>, name[p], want[p])
    <3>1. <<"await", "refresh">> \in Course(req[p]) /\ Head(<<"await", "refresh">>) \notin Needing
      BY <2>3 DEF Course, StartCourse, Needing
    <3>2. ~Told(req[p])
      BY <2>3 DEF Told
    <3>3. <<"await", "refresh">> # <<>>
      OBVIOUS
    <3> DEFINE ss == <<"await", "refresh">>
    <3>4. ss \in Course(req[p]) /\ Head(ss) \notin Needing /\ Proceed(p, ss, name[p], want[p])
      BY <2>3, <3>1
    <3> HIDE DEF ss
    <3> QED
      BY <2>1, <2>2, <3>2, <3>4, ProceedKept
  <2>4. CASE Finish(p)
    BY <2>1, <2>4, FinishKept
  <2>5. CASE Continue(p)
    BY <2>1, <2>5, ContinueKept
  <2> QED
    BY <1>2, <2>3, <2>4, <2>5 DEF Look
<1>3. ASSUME NEW p \in Actors, Missing(p) PROVE HostType' /\ WorkType' /\ CourseInv'
  BY <1>3, FinishKept DEF Missing, HostType, fixed
<1>4. ASSUME NEW p \in Actors, ReadMode(p) PROVE HostType' /\ WorkType' /\ CourseInv'
  <2>1. HostType' /\ pc[p] # "idle"
    BY <1>4 DEF ReadMode, At, HostType, fixed
  <2>2. Knows(p) /\ name[p] \in Names /\ Mine(p).mode \in Modes
    BY <1>4, <2>1, MineType, InstanceFields, ZenonT(60) DEF ReadMode
  <2>3. Tail(todo[p]) = <<>> \/ Tail(todo[p]) \in Course(req[p])
    BY <2>2, TailCourse DEF Knows
  <2> DEFINE m == Mine(p).mode
  <2>4. m \in Modes /\ m \in Modes \cup {None} /\ Proceed(p, Tail(todo[p]), name[p], m)
    BY <1>4, <2>2 DEF ReadMode
  <2> HIDE DEF m
  <2> QED
    BY <2>1, <2>2, <2>3, <2>4, ProceedKept
<1>5. ASSUME NEW p \in Actors, Read(p) PROVE HostType' /\ WorkType' /\ CourseInv'
  <2>1. /\ pc[p] # "idle" /\ Stage(p) \in {"edit", "security", "refresh", "soft", "renet"}
        /\ Mine(p) # None
    BY <1>5 DEF Read
  <2>2. Knows(p) /\ name[p] \in Names /\ Mine(p) \in Instance
    BY <2>1, MineType
  <2>3. HostType'
    <3>1. refreshed' \subseteq Names
      BY <1>5, <2>2 DEF Read, HostType
    <3> QED
      BY <1>5, <3>1 DEF Read, HostType, fixed
  <2>4. CASE Continue(p)
    BY <2>1, <2>3, <2>4, ContinueKept
  <2>5. CASE Finish(p)
    BY <2>3, <2>5, FinishKept
  <2>6. CASE /\ pc' = [pc EXCEPT ![p] = IF Stage(p) \in {"soft", "renet"} THEN "net" ELSE "put"]
             /\ snap' = [snap EXCEPT ![p] = Mine(p)]
             /\ UNCHANGED <<req, todo, name, want, seen, env, names, made>>
    <3> DEFINE place == IF Stage(p) \in {"soft", "renet"} THEN "net" ELSE "put"
    <3>1. /\ place \in {"net", "netput", "put"} /\ pc' = [pc EXCEPT ![p] = place]
          /\ place = "net" => Stage(p) \in {"soft", "renet"}
          /\ place # "netput"
      BY <2>6
    <3>2. /\ snap' \in [Actors -> Instance \cup {None}] /\ snap'[p] \in Instance
          /\ \A q \in Actors : q # p => snap'[q] = snap[q]
          /\ seen' \in [Actors -> Net \cup {None}]
      BY <2>2, <2>6 DEF WorkType
    <3> HIDE DEF place
    <3> QED
      BY <2>1, <2>3, <2>6, <3>1, <3>2, GotoKept
  <2> QED
    BY <1>5, <2>4, <2>5, <2>6 DEF Read
<1>6. ASSUME NEW p \in Actors, Put(p) PROVE HostType' /\ WorkType' /\ CourseInv'
  <2>1. pc[p] = "put"
    BY <1>6 DEF Put
  <2>2. Knows(p) /\ name[p] \in Names /\ Mine(p) \in Instance \cup {None}
    BY <2>1, MineType
  <2>3. /\ Stage(p) \in {"edit", "security", "refresh", "soft", "renet"}
        /\ snap[p] \in Instance
    BY <2>1, <2>2 DEF Knows
  <2>4. CASE /\ Same(Mine(p), snap[p])
             /\ \E i \in Edited(p, snap[p]) :
                  Set(name[p], [i EXCEPT !.addr = Mine(p).addr, !.boots = Mine(p).boots])
             /\ Continue(p)
             /\ refreshed' = IF Stage(p) = "refresh" THEN refreshed \cup {name[p]} ELSE refreshed
    <3>1. PICK i \in Edited(p, snap[p]) :
            Set(name[p], [i EXCEPT !.addr = Mine(p).addr, !.boots = Mine(p).boots])
      BY <2>4
    <3>2. Mine(p) \in Instance
      BY <2>2, <2>4 DEF Same
    <3>3. i \in Instance
      BY <2>2, <2>3, EditedType DEF HostType
    <3>4. Mine(p).addr \in Addrs \cup {None} /\ Mine(p).boots \in Nat
      BY <3>2, InstanceFields, ZenonT(60)
    <3>5. [i EXCEPT !.addr = Mine(p).addr, !.boots = Mine(p).boots] \in Instance
      BY <3>3, <3>4, InstanceFields, ZenonT(60)
    <3>6. inst' \in [Names -> Instance \cup {None}]
      BY <2>2, <3>1, <3>5, SetType
    <3>7. HostType'
      BY <1>6, <2>2, <2>4, <3>6 DEF Put, HostType, fixed
    <3> QED
      BY <2>1, <2>3, <2>4, <3>7, ContinueKept
  <2>5. CASE Finish(p) /\ UNCHANGED <<inst, refreshed>>
    <3>1. HostType'
      BY <1>6, <2>5 DEF Put, HostType, fixed
    <3> QED
      BY <2>5, <3>1, FinishKept
  <2> QED
    BY <1>6, <2>4, <2>5 DEF Put
<1>7. ASSUME NEW p \in Actors, pc[p] # "idle", Ensured(p),
             pc[p] = "net" \/ pc[p] = "netput" \/ Stage(p) = "ensure"
      PROVE  WorkType' /\ CourseInv'
  <2>1. Knows(p)
    BY <1>7 DEF CourseInv
  <2>2. CASE Continue(p) /\ Stage(p) \in {"soft", "ensure"}
    BY <1>7, <2>2, ContinueKept
  <2>3. CASE /\ Stage(p) \in {"renet", "soft"}
             /\ pc' = [pc EXCEPT ![p] = "put"] /\ seen' = [seen EXCEPT ![p] = None]
             /\ UNCHANGED <<req, todo, name, want, snap, env, names, made>>
    <3>1. /\ snap' \in [Actors -> Instance \cup {None}] /\ snap'[p] \in Instance
          /\ seen' \in [Actors -> Net \cup {None}]
      BY <1>7, <2>1, <2>3 DEF Knows, WorkType
    <3>2. \A q \in Actors : q # p => snap'[q] = snap[q]
      BY <2>3
    <3> QED
      BY <1>7, <2>3, <3>1, <3>2, GotoKept
  <2> QED
    BY <1>7, <2>2, <2>3 DEF Ensured
<1>8. ASSUME NEW p \in Actors, ReadNet(p) PROVE HostType' /\ WorkType' /\ CourseInv'
  <2>1. /\ pc[p] # "idle" /\ (pc[p] = "net" \/ Stage(p) = "ensure")
        /\ HostType'
    BY <1>8 DEF ReadNet, At, HostType, fixed
  <2>2. Knows(p)
    BY <2>1 DEF CourseInv
  <2>3. CASE Ensured(p)
    BY <1>7, <2>1, <2>3
  <2>4. CASE Finish(p)
    BY <2>1, <2>4, FinishKept
  <2>5. CASE /\ pc' = [pc EXCEPT ![p] = "netput"]
             /\ seen' = [seen EXCEPT ![p] = nets[want[p]]]
             /\ UNCHANGED <<req, todo, name, want, snap, env, names, made>>
    <3>1. Stage(p) \in {"soft", "renet", "ensure"} /\ want[p] \in Modes
      BY <2>1, <2>2 DEF Knows, Needing
    <3>2. seen' \in [Actors -> Net \cup {None}]
      BY <2>5, <3>1 DEF HostType, WorkType
    <3>3. /\ snap' \in [Actors -> Instance \cup {None}]
          /\ \A q \in Actors : q # p => snap'[q] = snap[q]
          /\ snap'[p] \in Instance \/ Stage(p) = "ensure"
      BY <2>1, <2>2, <2>5 DEF Knows, WorkType
    <3> QED
      BY <2>1, <2>5, <3>1, <3>2, <3>3, GotoKept
  <2> QED
    BY <1>8, <2>3, <2>4, <2>5 DEF ReadNet
<1>9. ASSUME NEW p \in Actors, PutNet(p) PROVE HostType' /\ WorkType' /\ CourseInv'
  <2>1. pc[p] = "netput"
    BY <1>9 DEF PutNet
  <2>2. Knows(p) /\ want[p] \in Modes
    <3>1. Knows(p)
      BY <2>1 DEF CourseInv
    <3> QED
      BY <2>1, <3>1 DEF Knows, Needing
  <2>3. CASE nets' = [nets EXCEPT ![want[p]] = Desired(seen[p], env[p])] /\ Ensured(p)
    <3>1. Desired(seen[p], env[p]) \in Net
      BY DesiredType DEF WorkType
    <3>2. nets' \in [Modes -> Net \cup {None}]
      BY <2>2, <2>3, <3>1 DEF HostType
    <3>3. HostType'
      BY <1>9, <3>2 DEF PutNet, HostType, fixed
    <3> QED
      BY <1>7, <2>1, <2>3, <3>3
  <2>4. CASE Finish(p) /\ UNCHANGED nets
    <3>1. HostType'
      BY <1>9, <2>4 DEF PutNet, HostType, fixed
    <3> QED
      BY <2>4, <3>1, FinishKept
  <2> QED
    BY <1>9, <2>3, <2>4 DEF PutNet
<1>10. ASSUME NEW p \in Actors, Boot(p) PROVE HostType' /\ WorkType' /\ CourseInv'
  <2>1. pc[p] # "idle" /\ Stage(p) # "mode" /\ Mine(p) # None
    BY <1>10 DEF Boot, At
  <2>2. name[p] \in Names /\ Mine(p) \in Instance
    BY <2>1, MineType
  <2>3. CASE /\ \E a \in Addrs \cup {None} :
                  Set(name[p], [Mine(p) EXCEPT !.run = TRUE, !.boots = starts + 1, !.addr = a])
             /\ starts' = starts + 1
             /\ Continue(p)
    <3>1. PICK a \in Addrs \cup {None} :
            Set(name[p], [Mine(p) EXCEPT !.run = TRUE, !.boots = starts + 1, !.addr = a])
      BY <2>3
    <3>2. starts + 1 \in Nat
      BY DEF HostType
    <3>3. [Mine(p) EXCEPT !.run = TRUE, !.boots = starts + 1, !.addr = a] \in Instance
      BY <2>2, <3>2, InstanceFields, ZenonT(60)
    <3>4. inst' \in [Names -> Instance \cup {None}]
      BY <2>2, <3>1, <3>3, SetType
    <3>5. HostType'
      BY <1>10, <2>3, <3>2, <3>4 DEF Boot, HostType
    <3> QED
      BY <2>1, <2>3, <3>5, ContinueKept
  <2>4. CASE Finish(p) /\ UNCHANGED <<inst, starts>>
    <3>1. HostType'
      BY <1>10, <2>4 DEF Boot, HostType
    <3> QED
      BY <2>4, <3>1, FinishKept
  <2> QED
    BY <1>10, <2>3, <2>4 DEF Boot
<1>11. ASSUME NEW n \in Names, Lease(n) PROVE HostType' /\ WorkType' /\ CourseInv'
  <2>1. inst[n] \in Instance
    BY <1>11 DEF Lease, HostType
  <2>2. PICK a \in Addrs : Set(n, [inst[n] EXCEPT !.addr = a])
    BY <1>11 DEF Lease
  <2>3. [inst[n] EXCEPT !.addr = a] \in Instance
    BY <2>1, InstanceFields, ZenonT(60)
  <2>4. inst' \in [Names -> Instance \cup {None}]
    BY <2>2, <2>3, SetType
  <2>5. HostType'
    BY <1>11, <2>4 DEF Lease, HostType
  <2>6. WorkType' /\ CourseInv'
    BY <1>11 DEF Lease, work, WorkType, CourseInv, Knows, Stage
  <2> QED
    BY <2>5, <2>6
<1>12. ASSUME NEW p \in Actors, Await(p) PROVE HostType' /\ WorkType' /\ CourseInv'
  <2>1. HostType' /\ pc[p] # "idle" /\ Stage(p) # "mode" /\ (Continue(p) \/ Finish(p))
    BY <1>12 DEF Await, At, HostType, fixed
  <2> QED
    BY <2>1, ContinueKept, FinishKept
<1>13. ASSUME NEW p \in Actors, Halt(p) PROVE HostType' /\ WorkType' /\ CourseInv'
  <2>1. pc[p] # "idle" /\ Stage(p) # "mode" /\ Mine(p) # None /\ Continue(p)
    BY <1>13 DEF Halt, At
  <2>2. name[p] \in Names /\ Mine(p) \in Instance
    BY <2>1, MineType
  <2>3. [Mine(p) EXCEPT !.run = FALSE, !.addr = None] \in Instance
    BY <2>2, InstanceFields, ZenonT(60)
  <2>4. inst' \in [Names -> Instance \cup {None}]
    BY <1>13, <2>2, <2>3, SetType DEF Halt
  <2>5. HostType'
    BY <1>13, <2>4 DEF Halt, HostType, fixed
  <2> QED
    BY <2>1, <2>5, ContinueKept
<1>14. ASSUME NEW p \in Actors, Delete(p) PROVE HostType' /\ WorkType' /\ CourseInv'
  <2>1. pc[p] # "idle" /\ Stage(p) # "mode"
    BY <1>14 DEF Delete, At
  <2>2. name[p] \in Names
    BY <2>1, MineType
  <2>3. inst' \in [Names -> Instance \cup {None}]
    BY <1>14, <2>2 DEF Delete, Set, HostType
  <2>4. HostType'
    BY <1>14, <2>3 DEF Delete, HostType, fixed
  <2> QED
    BY <1>14, <2>1, <2>4, ContinueKept, FinishKept DEF Delete
<1>15. ASSUME NEW p \in Actors, pc[p] # "idle", Stage(p) \in {"create", "import"},
              NEW i \in Instance, Make(p, name[p], i),
              UNCHANGED <<regime, starts, calls, faults, nets, backup, origin, refreshed>>
       PROVE  HostType' /\ WorkType' /\ CourseInv'
  <2>1. Knows(p) /\ name[p] \in Names
    BY <1>15, MineType
  <2>2. CASE Finish(p) /\ UNCHANGED inst
    <3>1. HostType'
      BY <1>15, <2>2 DEF HostType
    <3> QED
      BY <2>2, <3>1, FinishKept
  <2>3. CASE /\ Set(name[p], i)
             /\ todo' = [todo EXCEPT ![p] = Tail(todo[p])]
             /\ made' = [made EXCEPT ![p] = made[p] \cup {name[p]}]
             /\ UNCHANGED <<pc, req, name, want, snap, seen, env, names>>
    <3>1. HostType'
      BY <1>15, <2>1, <2>3, SetType DEF HostType
    <3>2. /\ Tail(todo[p]) \in Course(req[p]) /\ Tail(todo[p]) \in Seq(Stages)
          /\ Head(Tail(todo[p])) \in Needing => Stage(p) \in Needing \/ Told(req[p])
      BY <1>15, <2>1, MakeTail, CourseStages DEF Knows, Stage
    <3>3. WorkType'
      BY <2>1, <2>3, <3>2 DEF WorkType
    <3>4. pc[p] = "read"
      BY <1>15, <2>1 DEF Knows, WorkType
    <3>5. pc'[p] = "read" /\ todo'[p] = Tail(todo[p]) /\ name'[p] = name[p]
          /\ want'[p] = want[p] /\ req'[p] = req[p]
      BY <2>3, <3>4 DEF WorkType
    <3>6. Knows(p)'
      BY <2>1, <3>2, <3>5 DEF Knows, Stage
    <3>7. CourseInv'
      BY <2>3, <3>3, <3>6, OthersKnow DEF WorkType
    <3> QED
      BY <3>1, <3>3, <3>7
  <2> QED
    BY <1>15, <2>2, <2>3 DEF Make
<1>16. ASSUME NEW p \in Actors, Create(p) PROVE HostType' /\ WorkType' /\ CourseInv'
  <2>1. pc[p] # "idle" /\ Stage(p) = "create"
    BY <1>16 DEF Create, At
  <2>2. Knows(p) /\ want[p] \in Modes
    BY <2>1, MineType DEF Knows, Needing
  <2>3. PICK m \in FreeMACs :
           Make(p, name[p],
            [run |-> FALSE, boots |-> 0, addr |-> None, secure |-> TRUE, auto |-> FALSE,
             mode |-> want[p], mac |-> m, ports |-> [h \in HostPorts |-> None],
             mounts |-> [k \in MountKeys |-> "none"]])
    BY <1>16 DEF Create
  <2>4. [run |-> FALSE, boots |-> 0, addr |-> None, secure |-> TRUE, auto |-> FALSE,
         mode |-> want[p], mac |-> m, ports |-> [h \in HostPorts |-> None],
         mounts |-> [k \in MountKeys |-> "none"]] \in Instance
    BY <2>2 DEF Instance, Ports, Mounts, FreeMACs
  <2> QED
    BY <1>15, <1>16, <2>1, <2>3, <2>4 DEF Create, fixed
<1>17. ASSUME NEW p \in Actors, ImportBackup(p) PROVE HostType' /\ WorkType' /\ CourseInv'
  <2>1. pc[p] # "idle" /\ Stage(p) = "import"
    BY <1>17 DEF ImportBackup, At
  <2>2. PICK m \in FreeMACs : Make(p, name[p], [backup EXCEPT !.mac = m])
    BY <1>17 DEF ImportBackup
  <2>3. backup # None
    BY <2>1, MineType, StageOf DEF Knows, Stage, BackupInv
  <2>4. [backup EXCEPT !.mac = m] \in Instance
    BY <2>3, InstanceFields, ZenonT(60) DEF HostType, FreeMACs
  <2> QED
    BY <1>15, <1>17, <2>1, <2>2, <2>4 DEF ImportBackup, fixed
<1>18. ASSUME NEW p \in Actors, ListNames(p) PROVE HostType' /\ WorkType' /\ CourseInv'
  <2>1. pc[p] = "read" /\ Stage(p) = "names"
    BY <1>18 DEF ListNames, At
  <2>2. HostType'
    BY <1>18 DEF ListNames, HostType, fixed
  <2>3. Knows(p)
    BY <2>1, MineType
  <2>4. /\ Tail(todo[p]) \in Course(req[p]) /\ Tail(todo[p]) \in Seq(Stages)
        /\ Head(Tail(todo[p])) \in Needing => Told(req[p])
    BY <2>1, <2>3, MakeTail, CourseStages DEF Knows, Stage
  <2>5. WorkType'
    BY <1>18, <2>4 DEF ListNames, WorkType, Existing
  <2>6. pc'[p] = "read" /\ todo'[p] = Tail(todo[p]) /\ name'[p] = name[p]
        /\ want'[p] = want[p] /\ req'[p] = req[p]
    BY <1>18, <2>1 DEF ListNames, WorkType
  <2>7. Knows(p)'
    BY <2>3, <2>4, <2>6 DEF Knows, Stage
  <2>8. CourseInv'
    BY <1>18, <2>5, <2>7, OthersKnow DEF ListNames, WorkType
  <2> QED
    BY <2>2, <2>5, <2>8
<1>19. ASSUME NEW p \in Actors, FindImported(p) PROVE HostType' /\ WorkType' /\ CourseInv'
  <2>1. pc[p] # "idle" /\ Stage(p) = "find" /\ HostType'
    BY <1>19 DEF FindImported, At, HostType, fixed
  <2>2. Knows(p) /\ want[p] \in Modes \cup {None}
    BY <2>1, MineType DEF WorkType
  <2>3. /\ Tail(todo[p]) = <<>> \/ Tail(todo[p]) \in Course(req[p])
        /\ Tail(todo[p]) # <<>> /\ Head(Tail(todo[p])) \in Needing => Told(req[p])
    BY <2>1, <2>2, TailCourse DEF Knows, Stage, Needing
  <2>4. ASSUME NEW n \in Names, Proceed(p, Tail(todo[p]), n, want[p])
        PROVE  WorkType' /\ CourseInv'
    <3>1. Told(req[p]) \/ (Tail(todo[p]) # <<>> /\ Head(Tail(todo[p])) \in Needing)
            => want[p] \in Modes
      BY <2>2, <2>3 DEF Knows
    <3> QED
      BY <2>1, <2>2, <2>3, <2>4, <3>1, ProceedKept
  <2> QED
    BY <1>19, <2>1, <2>4, FinishKept DEF FindImported
<1>20. ASSUME NEW p \in Actors, Export(p) PROVE HostType' /\ WorkType' /\ CourseInv'
  <2>1. pc[p] # "idle" /\ Stage(p) # "mode" /\ Mine(p) # None /\ Continue(p)
    BY <1>20 DEF Export, At
  <2>2. name[p] \in Names /\ Mine(p) \in Instance
    BY <2>1, MineType
  <2>3. [Mine(p) EXCEPT !.run = FALSE, !.addr = None, !.boots = 0] \in Instance
    BY <2>2, InstanceFields, ZenonT(60)
  <2>4. HostType'
    BY <1>20, <2>2, <2>3 DEF Export, HostType, fixed
  <2> QED
    BY <2>1, <2>4, ContinueKept
<1>21. ASSUME NEW p \in Actors, Refused(p) PROVE HostType' /\ WorkType' /\ CourseInv'
  <2>1. regime.faults \in 0 .. MaxFaults
    BY RegimeTypes DEF HostType
  <2>2. HostType'
    BY <1>21, <2>1, InstanceConfigAssumption DEF Refused, HostType
  <2> QED
    BY <1>21, <2>2, FinishKept DEF Refused
<1>22. CASE UNCHANGED vars
  BY <1>22 DEF vars, work, HostType, WorkType, CourseInv, Knows, Stage
<1> QED
  BY <1>1, <1>2, <1>3, <1>4, <1>5, <1>6, <1>8, <1>9, <1>10, <1>11, <1>12, <1>13, <1>14, <1>16,
     <1>17, <1>18, <1>19, <1>20, <1>21, <1>22 DEF Next, Step

\* An export leaves a file, and nothing takes it away.
LEMMA BackupStep ==
  TypeOK /\ CourseInv /\ BackupInv /\ [Next]_vars => BackupInv'
<1> SUFFICES ASSUME HostType, WorkType, CourseInv, BackupInv, [Next]_vars
             PROVE  BackupInv'
  BY DEF TypeOK, HostType, WorkType
<1> DEFINE Quiet == /\ backup # None => backup' # None
                    /\ \A q \in Actors : pc'[q] # "idle" /\ req'[q].verb = "import" =>
                         pc[q] # "idle" /\ req[q].verb = "import"
<1>q. Quiet => BackupInv'
  BY DEF BackupInv
<1>n. NoRequest.verb # "import"
  BY DEF NoRequest
<1>1. ASSUME NEW p \in Actors, NEW r \in regime.requests, NEW e \in regime.envs, Begin(p, r, e)
      PROVE  BackupInv'
  <2>1. \A q \in Actors \ {p} : pc'[q] = pc[q] /\ req'[q] = req[q]
    BY <1>1 DEF Begin, WorkType
  <2>2. req'[p] = r /\ backup' = backup
    BY <1>1 DEF Begin, WorkType
  <2> QED
    BY <1>1, <2>1, <2>2 DEF Begin, BackupInv
<1>2. ASSUME NEW p \in Actors, Finish(p), backup # None => backup' # None PROVE Quiet
  BY <1>2, <1>n DEF Finish, WorkType
<1>3. ASSUME NEW p \in Actors, pc[p] # "idle", NEW ss, NEW n, NEW m, Proceed(p, ss, n, m),
             backup # None => backup' # None
      PROVE  Quiet
  BY <1>2, <1>3 DEF Proceed, WorkType
<1>4. ASSUME NEW p \in Actors, pc[p] # "idle", Continue(p), backup # None => backup' # None
      PROVE  Quiet
  BY <1>3, <1>4 DEF Continue
<1>5. ASSUME NEW p \in Actors, pc[p] # "idle", Ensured(p), UNCHANGED backup PROVE Quiet
  BY <1>4, <1>5 DEF Ensured, WorkType
<1>6. ASSUME NEW p \in Actors, Look(p) \/ ReadMode(p) \/ Missing(p) PROVE Quiet
  BY <1>2, <1>3, <1>4, <1>6 DEF Look, ReadMode, Missing, At
<1>7. ASSUME NEW p \in Actors, Read(p) PROVE Quiet
  BY <1>2, <1>4, <1>7 DEF Read, WorkType
<1>8. ASSUME NEW p \in Actors, Put(p) \/ Boot(p) \/ Await(p) \/ Halt(p) \/ Delete(p) PROVE Quiet
  BY <1>2, <1>4, <1>8 DEF Put, Boot, Await, Halt, Delete, At
<1>9. ASSUME NEW p \in Actors, ReadNet(p) PROVE Quiet
  BY <1>2, <1>5, <1>9 DEF ReadNet, At, WorkType
<1>10. ASSUME NEW p \in Actors, PutNet(p) PROVE Quiet
  BY <1>2, <1>5, <1>10 DEF PutNet
<1>11. ASSUME NEW p \in Actors, NEW n, NEW i, Make(p, n, i), UNCHANGED backup PROVE Quiet
  BY <1>2, <1>11 DEF Make
<1>12. ASSUME NEW p \in Actors, Create(p) \/ ImportBackup(p) PROVE Quiet
  BY <1>11, <1>12 DEF Create, ImportBackup
<1>13. ASSUME NEW p \in Actors, ListNames(p) PROVE Quiet
  BY <1>13 DEF ListNames
<1>14. ASSUME NEW p \in Actors, FindImported(p) PROVE Quiet
  BY <1>2, <1>3, <1>14 DEF FindImported, At
<1>15. ASSUME NEW p \in Actors, Export(p) PROVE Quiet
  <2>1. pc[p] # "idle" /\ Continue(p)
    BY <1>15 DEF Export, At
  <2>2. backup' # None
    <3>1. [Mine(p) EXCEPT !.run = FALSE, !.addr = None, !.boots = 0] \in Instance
      <4>1. Mine(p) \in Instance
        BY <1>15, <2>1, MineType DEF Export
      <4> QED
        BY <4>1, InstanceFields, ZenonT(60)
    <3> QED
      BY <1>15, <3>1, InstanceConfigAssumption DEF Export
  <2> QED
    BY <1>4, <2>1, <2>2
<1>16. ASSUME NEW p \in Actors, Refused(p) PROVE Quiet
  BY <1>2, <1>16 DEF Refused
<1>17. ASSUME NEW n \in Names, Lease(n) PROVE Quiet
  BY <1>17 DEF Lease, work
<1>18. CASE UNCHANGED vars
  BY <1>18 DEF vars, work, BackupInv
<1> QED
  BY <1>q, <1>1, <1>6, <1>7, <1>8, <1>9, <1>10, <1>12, <1>13, <1>14, <1>15, <1>16, <1>17, <1>18
     DEF Next, Step

\* Initially nobody is at work.
LEMMA TypeInit == Init => TypeOK /\ CourseInv /\ BackupInv
<1> SUFFICES ASSUME Init
             PROVE  TypeOK /\ CourseInv /\ BackupInv
  OBVIOUS
<1>1. NoEnv \in Env /\ <<>> \in Seq(Stages) /\ MaxCalls \in Nat /\ MaxFaults \in Nat
  BY InstanceConfigAssumption DEF NoEnv, Env
<1>2. TypeOK
  BY <1>1, RegimeTypes DEF Init, TypeOK
<1>3. CourseInv /\ BackupInv
  BY DEF Init, CourseInv, BackupInv
<1> QED
  BY <1>2, <1>3

\* TypeOK: every edit, read of a network and course of stages, however the commands
\* interleave, leaves instances, networks and what the commands know well-formed.
THEOREM TypeCorrect == Spec => []TypeOK
<1>1. Init => TypeOK /\ CourseInv /\ BackupInv
  BY TypeInit
<1>2. TypeOK /\ CourseInv /\ BackupInv /\ [Next]_vars => (TypeOK /\ CourseInv /\ BackupInv)'
  BY TypeStep, BackupStep
<1> QED
  BY <1>1, <1>2, PTL DEF Spec

---------------------------------------------------------------------------
(* What a step does to the instances                                       *)

\* The fields of an instance that no start, stop or lease changes.
Kept(i, j) ==
  /\ i.secure = j.secure /\ i.auto = j.auto /\ i.mode = j.mode /\ i.mac = j.mac
  /\ i.ports = j.ports /\ i.mounts = j.mounts

\* A new container as Create makes it.
Fresh(m, mode) ==
  [run |-> FALSE, boots |-> 0, addr |-> None, secure |-> TRUE, auto |-> FALSE,
   mode |-> mode, mac |-> m, ports |-> [h \in HostPorts |-> None],
   mounts |-> [k \in MountKeys |-> "none"]]

\* A container that starts, stops or gets an address; one that is deleted; one that
\* is made; and one that a command which read it writes back.
Alive(n) ==
  \E i \in Instance : inst[n] # None /\ Kept(i, inst[n]) /\ inst' = [inst EXCEPT ![n] = i]
Gone(n) ==
  /\ \E p \in Actors : pc[p] = "read" /\ Knows(p) /\ Stage(p) = "delete"
  /\ inst[n] # None /\ ~inst[n].run /\ inst' = [inst EXCEPT ![n] = None]
Fetched(n) ==
  /\ \E p \in Actors : pc[p] = "read" /\ Knows(p) /\ Stage(p) = "import"
  /\ \E m \in FreeMACs : /\ inst[n] = None /\ backup # None
                         /\ inst' = [inst EXCEPT ![n] = [backup EXCEPT !.mac = m]]
Born(n) ==
  \E p \in Actors, m \in FreeMACs :
    /\ pc[p] = "read" /\ Stage(p) = "create" /\ want[p] \in Modes
    /\ inst[n] = None /\ inst' = [inst EXCEPT ![n] = Fresh(m, want[p])]
Written(p, i) ==
  /\ pc[p] = "put" /\ Knows(p) /\ snap[p] \in Instance
  /\ Stage(p) \in {"edit", "security", "refresh", "soft", "renet"}
  /\ Mine(p) \in Instance /\ Same(Mine(p), snap[p])
  /\ i \in Edited(p, snap[p])
  /\ inst' = [inst EXCEPT ![name[p]] = [i EXCEPT !.addr = Mine(p).addr, !.boots = Mine(p).boots]]

\* Where a command writes what it has edited, it does so as above or fails.
LEMMA PutWrites ==
  ASSUME TypeOK, CourseInv, NEW p \in Actors, Put(p)
  PROVE  /\ UNCHANGED starts
         /\ \/ UNCHANGED <<inst, refreshed>> /\ Finish(p)
            \/ /\ \E i \in Instance : Written(p, i)
               /\ Continue(p)
               /\ refreshed' = IF Stage(p) = "refresh" THEN refreshed \cup {name[p]} ELSE refreshed
<1>t. HostType /\ WorkType
  BY DEF TypeOK, HostType, WorkType
<1>1. pc[p] = "put" /\ UNCHANGED starts
  BY DEF Put, fixed
<1>2. Knows(p) /\ name[p] \in Names /\ Mine(p) \in Instance \cup {None}
  BY <1>t, <1>1, MineType
<1>3. /\ Stage(p) \in {"edit", "security", "refresh", "soft", "renet"}
      /\ snap[p] \in Instance
  BY <1>1, <1>2 DEF Knows
<1>4. CASE UNCHANGED <<inst, refreshed>> /\ Finish(p)
  BY <1>1, <1>4
<1>5. CASE /\ Same(Mine(p), snap[p]) /\ Continue(p)
           /\ \E i \in Edited(p, snap[p]) :
                Set(name[p], [i EXCEPT !.addr = Mine(p).addr, !.boots = Mine(p).boots])
           /\ refreshed' = IF Stage(p) = "refresh" THEN refreshed \cup {name[p]} ELSE refreshed
  <2>1. PICK i \in Edited(p, snap[p]) :
          Set(name[p], [i EXCEPT !.addr = Mine(p).addr, !.boots = Mine(p).boots])
    BY <1>5
  <2>2. i \in Instance
    BY <1>t, <1>2, <1>3, EditedType DEF HostType
  <2>3. Mine(p) \in Instance
    BY <1>2, <1>5 DEF Same
  <2>4. Written(p, i)
    BY <1>1, <1>2, <1>3, <1>5, <2>1, <2>3 DEF Written, Set
  <2> QED
    BY <1>1, <1>5, <2>2, <2>4
<1> QED
  BY <1>4, <1>5 DEF Put

\* A step changes the instances in one of these ways or not at all,
LEMMA InstChange ==
  ASSUME TypeOK, CourseInv, BackupInv, [Next]_vars
  PROVE  \/ UNCHANGED inst
         \/ \E n \in Names : Alive(n) \/ Gone(n) \/ Fetched(n) \/ Born(n)
         \/ \E p \in Actors, i \in Instance : Written(p, i)
<1> DEFINE Goal == \/ UNCHANGED inst
                   \/ \E n \in Names : Alive(n) \/ Gone(n) \/ Fetched(n) \/ Born(n)
                   \/ \E p \in Actors, i \in Instance : Written(p, i)
<1>t. HostType /\ WorkType
  BY DEF TypeOK, HostType, WorkType
<1>1. ASSUME NEW p \in Actors, Put(p) PROVE Goal
  BY <1>1, PutWrites
<1>2. ASSUME NEW p \in Actors, Boot(p) PROVE Goal
  <2>1. Mine(p) \in Instance /\ name[p] \in Names
    BY <1>t, <1>2, MineType DEF Boot, At
  <2>2. CASE UNCHANGED inst
    BY <2>2
  <2>3. CASE \E a \in Addrs \cup {None} :
               Set(name[p], [Mine(p) EXCEPT !.run = TRUE, !.boots = starts + 1, !.addr = a])
    <3>1. PICK a \in Addrs \cup {None} :
            Set(name[p], [Mine(p) EXCEPT !.run = TRUE, !.boots = starts + 1, !.addr = a])
      BY <2>3
    <3> DEFINE i == [Mine(p) EXCEPT !.run = TRUE, !.boots = starts + 1, !.addr = a]
    <3>2. starts + 1 \in Nat
      BY <1>t DEF HostType
    <3>3. i \in Instance
      BY <2>1, <3>2, InstanceFields, ZenonT(60)
    <3>4. Kept(i, Mine(p))
      BY <2>1 DEF Kept, Instance
    <3>5. Mine(p) # None
      BY <2>1, InstanceConfigAssumption
    <3>6. inst' = [inst EXCEPT ![name[p]] = i]
      BY <3>1 DEF Set
    <3> HIDE DEF i
    <3>7. Alive(name[p])
      BY <3>3, <3>4, <3>5, <3>6 DEF Alive, Mine
    <3> QED
      BY <2>1, <3>7
  <2> QED
    BY <1>2, <2>2, <2>3 DEF Boot
<1>3. ASSUME NEW n \in Names, Lease(n) PROVE Goal
  <2>1. inst[n] # None /\ inst[n] \in Instance
    BY <1>t, <1>3 DEF Lease, HostType
  <2>2. PICK a \in Addrs : Set(n, [inst[n] EXCEPT !.addr = a])
    BY <1>3 DEF Lease
  <2> DEFINE i == [inst[n] EXCEPT !.addr = a]
  <2>3. i \in Instance
    BY <2>1, InstanceFields, ZenonT(60)
  <2>4. Kept(i, inst[n])
    BY <2>1 DEF Kept, Instance
  <2>5. inst' = [inst EXCEPT ![n] = i]
    BY <2>2 DEF Set
  <2> HIDE DEF i
  <2>6. Alive(n)
    BY <2>1, <2>3, <2>4, <2>5 DEF Alive
  <2> QED
    BY <2>6
<1>4. ASSUME NEW p \in Actors, Halt(p) PROVE Goal
  <2>1. Mine(p) \in Instance /\ name[p] \in Names /\ Mine(p) # None
    BY <1>t, <1>4, MineType DEF Halt, At
  <2> DEFINE i == [Mine(p) EXCEPT !.run = FALSE, !.addr = None]
  <2>2. i \in Instance
    BY <2>1, InstanceFields, ZenonT(60)
  <2>3. Kept(i, Mine(p))
    BY <2>1 DEF Kept, Instance
  <2>4. inst' = [inst EXCEPT ![name[p]] = i]
    BY <1>4 DEF Halt, Set
  <2> HIDE DEF i
  <2>5. Alive(name[p])
    BY <2>1, <2>2, <2>3, <2>4 DEF Alive, Mine
  <2> QED
    BY <2>1, <2>5
<1>5. ASSUME NEW p \in Actors, Delete(p) PROVE Goal
  <2>1. name[p] \in Names /\ pc[p] = "read" /\ Knows(p) /\ Stage(p) = "delete"
    BY <1>t, <1>5, MineType DEF Delete, At
  <2>2. Gone(name[p]) \/ UNCHANGED inst
    BY <1>5, <2>1 DEF Delete, Gone, Mine, Set
  <2> QED
    BY <2>1, <2>2
<1>6. ASSUME NEW p \in Actors, Create(p) PROVE Goal
  <2>1. name[p] \in Names /\ Knows(p) /\ Stage(p) = "create"
    BY <1>t, <1>6, MineType DEF Create, At
  <2>2. want[p] \in Modes
    BY <2>1 DEF Knows, Needing
  <2>3. PICK m \in FreeMACs : Make(p, name[p], Fresh(m, want[p]))
    BY <1>6 DEF Create, Fresh
  <2>4. Born(name[p]) \/ UNCHANGED inst
    BY <1>6, <2>2, <2>3 DEF Create, At, Make, Set, Born
  <2> QED
    BY <2>1, <2>4
<1>7. ASSUME NEW p \in Actors, ImportBackup(p) PROVE Goal
  <2>1. name[p] \in Names /\ Knows(p) /\ Stage(p) = "import" /\ pc[p] # "idle"
    BY <1>t, <1>7, MineType DEF ImportBackup, At
  <2>2. backup # None
    BY <2>1, StageOf DEF Knows, Stage, BackupInv
  <2>3. PICK m \in FreeMACs : Make(p, name[p], [backup EXCEPT !.mac = m])
    BY <1>7 DEF ImportBackup
  <2>4. Fetched(name[p]) \/ UNCHANGED inst
    BY <1>7, <2>1, <2>2, <2>3 DEF ImportBackup, At, Make, Set, Fetched
  <2> QED
    BY <2>1, <2>4
<1>8. ASSUME NEW p \in Actors,
             \/ Look(p) \/ Missing(p) \/ ReadMode(p) \/ Read(p) \/ ReadNet(p) \/ PutNet(p)
             \/ Await(p) \/ ListNames(p) \/ FindImported(p) \/ Export(p) \/ Refused(p)
      PROVE  UNCHANGED inst
  BY <1>8 DEF Look, Missing, ReadMode, Read, ReadNet, PutNet, Await, ListNames, FindImported,
              Export, Refused
<1>9. ASSUME NEW p \in Actors, NEW r, NEW e, Begin(p, r, e) PROVE UNCHANGED inst
  BY <1>9 DEF Begin
<1>10. CASE UNCHANGED vars
  BY <1>10 DEF vars
<1> QED
  BY <1>1, <1>2, <1>3, <1>4, <1>5, <1>6, <1>7, <1>8, <1>9, <1>10 DEF Next, Step

\* and the backup file only when one is exported.
LEMMA BackupChange ==
  ASSUME TypeOK, CourseInv, [Next]_vars
  PROVE  \/ UNCHANGED backup
         \/ \E n \in Names : /\ inst[n] \in Instance /\ UNCHANGED inst
                             /\ backup' = [inst[n] EXCEPT !.run = FALSE, !.addr = None, !.boots = 0]
<1>t. HostType /\ WorkType
  BY DEF TypeOK, HostType, WorkType
<1>1. ASSUME NEW p \in Actors, Export(p)
      PROVE  \E n \in Names :
               /\ inst[n] \in Instance /\ UNCHANGED inst
               /\ backup' = [inst[n] EXCEPT !.run = FALSE, !.addr = None, !.boots = 0]
  BY <1>t, <1>1, MineType DEF Export, At, Mine
<1>2. ASSUME NEW p \in Actors,
             \/ Look(p) \/ Missing(p) \/ ReadMode(p) \/ Read(p) \/ Put(p) \/ ReadNet(p)
             \/ PutNet(p) \/ Boot(p) \/ Await(p) \/ Halt(p) \/ Delete(p) \/ Create(p)
             \/ ListNames(p) \/ ImportBackup(p) \/ FindImported(p) \/ Refused(p)
      PROVE  UNCHANGED backup
  BY <1>2 DEF Look, Missing, ReadMode, Read, Put, ReadNet, PutNet, Boot, Await, Halt, Delete,
              Create, ListNames, ImportBackup, FindImported, Refused
<1>3. ASSUME NEW p \in Actors, NEW r, NEW e, Begin(p, r, e) PROVE UNCHANGED backup
  BY <1>3 DEF Begin
<1>4. ASSUME NEW n \in Names, Lease(n) PROVE UNCHANGED backup
  BY <1>4 DEF Lease
<1>5. CASE UNCHANGED vars
  BY <1>5 DEF vars
<1> QED
  BY <1>1, <1>2, <1>3, <1>4, <1>5 DEF Next, Step

\* An ETag that is the same is that of the same configuration.
LEMMA SameFields ==
  ASSUME NEW i \in Instance, NEW j \in Instance, Same(i, j)
  PROVE  Kept(i, j) /\ i.run = j.run
<1>1. ETag(i) = ETag(j)
  BY DEF Same
<1>2. \A k \in Instance :
        /\ ETag(k).secure = k.secure /\ ETag(k).auto = k.auto /\ ETag(k).mode = k.mode
        /\ ETag(k).mac = k.mac /\ ETag(k).ports = k.ports /\ ETag(k).mounts = k.mounts
        /\ ETag(k).run = k.run
  BY DEF ETag, Instance
<1> QED
  BY <1>1, <1>2 DEF Kept

\* The ways an edit changes an instance: one setting, or none that a user sets.
NewAuto(i, x) == \E b \in BOOLEAN : x = [i EXCEPT !.auto = b]
NewNet(i, x) ==
  \/ \E mode \in Modes : x = [i EXCEPT !.mode = mode]
  \/ \E mode \in Modes, m \in FreeMACs \cup {i.mac} : x = [i EXCEPT !.mode = mode, !.mac = m]
NewPort(i, x) ==
  \E h \in HostPorts, v \in [to : ContainerPorts, at : Addrs, dual : BOOLEAN] \cup {None} :
    x = [i EXCEPT !.ports = [i.ports EXCEPT ![h] = v]]
NewMount(i, x) ==
  /\ ~i.run
  /\ \E k \in MountKeys, v \in MountModes \cup {"none"} :
       /\ x = [i EXCEPT !.mounts = [i.mounts EXCEPT ![k] = v]]
       /\ i.mounts[k] # "none" \/ v = "none" \/ Mountable(i, k, v)
NewInside(i, x) == x = [i EXCEPT !.secure = TRUE] \/ x = Refresh(i)

\* The commands' edits are of these kinds.
LEMMA EditedShape ==
  ASSUME regime \in Regimes, NEW p \in Actors, Knows(p), NEW i \in Instance,
         Stage(p) \in {"edit", "security", "refresh", "soft", "renet"}, NEW x \in Edited(p, i)
  PROVE  NewAuto(i, x) \/ NewNet(i, x) \/ NewPort(i, x) \/ NewMount(i, x) \/ NewInside(i, x)
<1>r. req[p] \in Request /\ (Stage(p) \in Needing => want[p] \in Modes)
  BY DEF Knows
<1>i. i.addr \in Addrs \cup {None} /\ i.run \in BOOLEAN
  BY InstanceFields, ZenonT(60)
<1>1. CASE Stage(p) \in {"security", "refresh"}
  BY <1>1 DEF Edited, NewInside
<1>2. CASE Stage(p) \in {"soft", "renet"}
  BY <1>2, <1>r DEF Edited, NewNet, Needing
<1>3. CASE Stage(p) = "edit"
  <2> DEFINE r == req[p]
  <2>v. r.verb \in {"autostart", "port", "unport", "mount", "unmount", "remount"}
    BY <1>3, <1>r, StageOf DEF Knows, Stage
  <2>e. x \in EditedBy(r, i)
    BY <1>3 DEF Edited
  <2>1. CASE r.verb = "autostart"
    BY <2>e, <2>1 DEF EditedBy, SetAutostart, NewAuto
  <2>2. CASE r.verb = "port"
    <3>1. r.key \in HostPorts /\ r.value \in ContainerPorts
      BY <1>r, <2>2, RequestVerbs
    <3>2. i.addr \in Addrs /\ x \in {[i EXCEPT !.ports[r.key] =
                                        [to |-> r.value, at |-> i.addr, dual |-> TRUE]]}
      BY <1>i, <2>e, <2>2 DEF EditedBy, AddPort
    <3> DEFINE v == [to |-> r.value, at |-> i.addr, dual |-> TRUE]
    <3>3. v \in [to : ContainerPorts, at : Addrs, dual : BOOLEAN]
      BY <3>1, <3>2
    <3>4. x = [i EXCEPT !.ports = [i.ports EXCEPT ![r.key] = v]]
      BY <3>2
    <3> HIDE DEF v
    <3> QED
      BY <3>1, <3>3, <3>4 DEF NewPort
  <2>3. CASE r.verb = "unport"
    <3>1. r.key \in HostPorts
      BY <1>r, <2>3, RequestVerbs
    <3>2. x = [i EXCEPT !.ports = [i.ports EXCEPT ![r.key] = None]]
      BY <2>e, <2>3 DEF EditedBy, RemovePort
    <3> QED
      BY <3>1, <3>2 DEF NewPort
  <2>4. CASE r.verb = "mount"
    <3>1. r.key \in MountKeys /\ r.value \in MountModes
      BY <1>r, <2>4, RequestVerbs
    <3>2. /\ ~i.run /\ Mountable(i, r.key, r.value)
          /\ x = [i EXCEPT !.mounts = [i.mounts EXCEPT ![r.key] = r.value]]
      BY <2>e, <2>4 DEF EditedBy, AddMount
    <3> QED
      BY <3>1, <3>2 DEF NewMount
  <2>5. CASE r.verb = "remount"
    <3>1. r.key \in MountKeys /\ r.value \in MountModes
      BY <1>r, <2>5, RequestVerbs
    <3>2. /\ ~i.run /\ i.mounts[r.key] # "none"
          /\ x = [i EXCEPT !.mounts = [i.mounts EXCEPT ![r.key] = r.value]]
      BY <2>e, <2>5 DEF EditedBy, UpdateMount
    <3> QED
      BY <3>1, <3>2 DEF NewMount
  <2>6. CASE r.verb = "unmount"
    <3>1. r.key \in MountKeys
      BY <1>r, <2>6, RequestVerbs
    <3>2. /\ ~i.run /\ i.mounts[r.key] # "none"
          /\ x = [i EXCEPT !.mounts = [i.mounts EXCEPT ![r.key] = "none"]]
      BY <2>e, <2>6 DEF EditedBy, RemoveMount
    <3> QED
      BY <3>1, <3>2 DEF NewMount
  <2> QED
    BY <2>v, <2>1, <2>2, <2>3, <2>4, <2>5, <2>6
<1> QED
  BY <1>1, <1>2, <1>3

\* What a refresh leaves alone.
LEMMA RefreshFields ==
  ASSUME NEW i \in Instance
  PROVE  /\ Refresh(i) \in Instance
         /\ Refresh(i).secure = i.secure /\ Refresh(i).auto = i.auto /\ Refresh(i).mode = i.mode
         /\ Refresh(i).mac = i.mac /\ Refresh(i).mounts = i.mounts /\ Refresh(i).run = i.run
         /\ \A h \in HostPorts : i.ports[h] = None => Refresh(i).ports[h] = None
         /\ \A h \in HostPorts : i.ports[h] # None =>
              Refresh(i).ports[h] # None /\ Refresh(i).ports[h].to = i.ports[h].to
<1>1. CASE i.addr = None
  BY <1>1 DEF Refresh
<1>2. CASE i.addr # None
  <2> DEFINE new == [h \in HostPorts |->
                       IF i.ports[h] = None THEN None
                       ELSE [to |-> i.ports[h].to, at |-> i.addr, dual |-> TRUE]]
  <2>1. i.ports \in Ports /\ i.addr \in Addrs
    BY <1>2, InstanceFields, ZenonT(60)
  <2>2. new \in Ports
    BY <2>1 DEF Ports
  <2>3. \A h \in HostPorts : i.ports[h] = None => new[h] = None
    OBVIOUS
  <2>4. ASSUME NEW h \in HostPorts, i.ports[h] # None
        PROVE  new[h] # None /\ new[h].to = i.ports[h].to
    <3>1. new[h] = [to |-> i.ports[h].to, at |-> i.addr, dual |-> TRUE]
      BY <2>4
    <3>2. i.ports[h].to \in ContainerPorts
      BY <2>1, <2>4 DEF Ports
    <3>3. [to |-> i.ports[h].to, at |-> i.addr, dual |-> TRUE]
            \in [to : ContainerPorts, at : Addrs, dual : BOOLEAN]
      BY <2>1, <3>2
    <3> QED
      BY <3>1, <3>3, InstanceConfigAssumption
  <2>5. Refresh(i) = [i EXCEPT !.ports = new]
    BY <1>2 DEF Refresh
  <2> HIDE DEF new
  <2>6. Refresh(i).ports = new /\ Refresh(i) \in Instance
    BY <2>2, <2>5 DEF Instance
  <2>7. /\ Refresh(i).secure = i.secure /\ Refresh(i).auto = i.auto /\ Refresh(i).mode = i.mode
        /\ Refresh(i).mac = i.mac /\ Refresh(i).mounts = i.mounts /\ Refresh(i).run = i.run
    BY <2>5 DEF Instance
  <2> QED
    BY <2>3, <2>4, <2>6, <2>7
<1> QED
  BY <1>1, <1>2

\* The MAC that an edit leaves is the container's own or one that nobody has.
LEMMA EditedMac ==
  ASSUME NEW i \in Instance, NEW x,
         NewAuto(i, x) \/ NewNet(i, x) \/ NewPort(i, x) \/ NewMount(i, x) \/ NewInside(i, x)
  PROVE  x.mac \in FreeMACs \cup {i.mac}
<1>1. CASE NewAuto(i, x)
  BY <1>1 DEF NewAuto, Instance
<1>2. CASE NewNet(i, x)
  BY <1>2 DEF NewNet, Instance
<1>3. CASE NewPort(i, x)
  BY <1>3 DEF NewPort, Instance
<1>4. CASE NewMount(i, x)
  BY <1>4 DEF NewMount, Instance
<1>5. CASE NewInside(i, x)
  <2>1. [i EXCEPT !.secure = TRUE].mac = i.mac
    BY DEF Instance
  <2> QED
    BY <1>5, <2>1, RefreshFields DEF NewInside
<1> QED
  BY <1>1, <1>2, <1>3, <1>4, <1>5

\* An edit neither starts nor stops anything.
LEMMA EditedRun ==
  ASSUME NEW i \in Instance, NEW x,
         NewAuto(i, x) \/ NewNet(i, x) \/ NewPort(i, x) \/ NewMount(i, x) \/ NewInside(i, x)
  PROVE  x.run = i.run
<1>1. CASE NewAuto(i, x)
  BY <1>1 DEF NewAuto, Instance
<1>2. CASE NewNet(i, x)
  BY <1>2 DEF NewNet, Instance
<1>3. CASE NewPort(i, x)
  BY <1>3 DEF NewPort, Instance
<1>4. CASE NewMount(i, x)
  BY <1>4 DEF NewMount, Instance
<1>5. CASE NewInside(i, x)
  <2>1. [i EXCEPT !.secure = TRUE].run = i.run
    BY DEF Instance
  <2> QED
    BY <1>5, <2>1, RefreshFields DEF NewInside
<1> QED
  BY <1>1, <1>2, <1>3, <1>4, <1>5

---------------------------------------------------------------------------
(* Invariants                                                              *)

\* A write goes to the container as it was read: with the ETag, the settings it
\* adds its own to are those of the container.
LEMMA WrittenShape ==
  ASSUME TypeOK, NEW p \in Actors, NEW i \in Instance, Written(p, i)
  PROVE  /\ name[p] \in Names /\ inst[name[p]] \in Instance /\ snap[p] \in Instance
         /\ \/ NewAuto(snap[p], i) \/ NewNet(snap[p], i) \/ NewPort(snap[p], i)
            \/ NewMount(snap[p], i) \/ NewInside(snap[p], i)
         /\ Kept(snap[p], inst[name[p]]) /\ snap[p].run = inst[name[p]].run
         /\ \E j \in Instance : Kept(j, i) /\ j.run = i.run /\ inst' = [inst EXCEPT ![name[p]] = j]
<1>1. name[p] \in Names /\ Mine(p) \in Instance /\ snap[p] \in Instance
  BY DEF Written, Knows
<1>2. NewAuto(snap[p], i) \/ NewNet(snap[p], i) \/ NewPort(snap[p], i) \/ NewMount(snap[p], i)
        \/ NewInside(snap[p], i)
  BY <1>1, EditedShape DEF Written, TypeOK
<1>3. Kept(Mine(p), snap[p]) /\ Mine(p).run = snap[p].run
  BY <1>1, SameFields DEF Written
<1> DEFINE j == [i EXCEPT !.addr = Mine(p).addr, !.boots = Mine(p).boots]
<1>4. j \in Instance
  BY <1>1, InstanceFields, ZenonT(60)
<1>5. Kept(j, i) /\ j.run = i.run
  BY DEF Kept, Instance
<1>6. inst' = [inst EXCEPT ![name[p]] = j]
  BY DEF Written
<1> HIDE DEF j
<1> QED
  BY <1>1, <1>2, <1>3, <1>4, <1>5, <1>6 DEF Kept, Mine

\* A container under a name that gets a MAC of its own keeps the MACs apart.
LEMMA MacSet ==
  ASSUME TypeOK, UniqueMAC, NEW n \in Names, NEW j \in Instance \cup {None},
         inst' = [inst EXCEPT ![n] = j],
         j # None => j.mac \in FreeMACs \/ (inst[n] # None /\ j.mac = inst[n].mac)
  PROVE  UniqueMAC'
<1> SUFFICES ASSUME NEW a \in Names, NEW b \in Names, inst'[a] # None, inst'[b] # None,
                    inst'[a].mac = inst'[b].mac
             PROVE  a = b
  BY DEF UniqueMAC, Existing
<1>1. \A k \in Names : k # n => inst'[k] = inst[k]
  BY DEF TypeOK
<1>2. inst'[n] = j
  BY DEF TypeOK
<1>3. \A k, l \in Names : inst[k] # None /\ inst[l] # None /\ inst[k].mac = inst[l].mac => k = l
  BY DEF UniqueMAC, Existing
<1>4. \A k \in Names : inst[k] # None /\ k # n /\ j # None => j.mac # inst[k].mac
  BY <1>3 DEF FreeMACs, Existing
<1> QED
  BY <1>1, <1>2, <1>3, <1>4

\* Every step keeps the MACs apart.
LEMMA MacStep ==
  TypeOK /\ CourseInv /\ BackupInv /\ UniqueMAC /\ [Next]_vars => UniqueMAC'
<1> SUFFICES ASSUME TypeOK, CourseInv, BackupInv, UniqueMAC, [Next]_vars
             PROVE  UniqueMAC'
  OBVIOUS
<1>1. CASE UNCHANGED inst
  BY <1>1 DEF UniqueMAC, Existing
<1>2. ASSUME NEW n \in Names, Alive(n) PROVE UniqueMAC'
  BY <1>2, MacSet DEF Alive, Kept
<1>3. ASSUME NEW n \in Names, Gone(n) PROVE UniqueMAC'
  BY <1>3, MacSet DEF Gone
<1>4. ASSUME NEW n \in Names, Fetched(n) PROVE UniqueMAC'
  <2>1. PICK m \in FreeMACs : backup # None /\ inst' = [inst EXCEPT ![n] = [backup EXCEPT !.mac = m]]
    BY <1>4 DEF Fetched
  <2>2. backup \in Instance /\ m \in MACs
    BY <2>1 DEF TypeOK, FreeMACs
  <2>3. [backup EXCEPT !.mac = m] \in Instance /\ [backup EXCEPT !.mac = m].mac = m
    BY <2>2 DEF Instance
  <2> QED
    BY <2>1, <2>3, MacSet
<1>5. ASSUME NEW n \in Names, Born(n) PROVE UniqueMAC'
  <2>1. PICK m \in FreeMACs, mode \in Modes : inst' = [inst EXCEPT ![n] = Fresh(m, mode)]
    BY <1>5 DEF Born
  <2>2. Fresh(m, mode) \in Instance /\ Fresh(m, mode).mac = m
    BY DEF Fresh, Instance, Ports, Mounts, FreeMACs
  <2> QED
    BY <2>1, <2>2, MacSet
<1>6. ASSUME NEW p \in Actors, NEW i \in Instance, Written(p, i) PROVE UniqueMAC'
  <2>1. i.mac \in FreeMACs \cup {snap[p].mac}
    BY <1>6, WrittenShape, EditedMac
  <2>2. snap[p].mac = inst[name[p]].mac /\ name[p] \in Names /\ inst[name[p]] # None
    BY <1>6, WrittenShape, InstanceConfigAssumption DEF Kept
  <2>3. PICK j \in Instance : j.mac = i.mac /\ inst' = [inst EXCEPT ![name[p]] = j]
    BY <1>6, WrittenShape DEF Kept
  <2> QED
    BY <2>1, <2>2, <2>3, MacSet
<1> QED
  BY <1>1, <1>2, <1>3, <1>4, <1>5, <1>6, InstChange

\* UniqueMAC: a container, what a command makes of it and what is imported from it
\* have different MACs, since every MAC that is written was free or the
\* container's own (Import, SetContainerNetwork).
THEOREM UniqueMACs == Spec => []UniqueMAC
<1>1. Init => TypeOK /\ CourseInv /\ BackupInv /\ UniqueMAC
  <2>1. Init => UniqueMAC
    BY RegimeAssumption DEF Init, UniqueMAC, Existing
  <2> QED
    BY <2>1, TypeInit
<1>2. TypeOK /\ CourseInv /\ BackupInv /\ UniqueMAC /\ [Next]_vars
        => (TypeOK /\ CourseInv /\ BackupInv /\ UniqueMAC)'
  BY TypeStep, BackupStep, MacStep
<1> QED
  BY <1>1, <1>2, PTL DEF Spec

\* An edit of a container without a target twice leaves none,
LEMMA EditedMounts ==
  ASSUME NEW i \in Instance, OneDevice(i), NEW x,
         NewAuto(i, x) \/ NewNet(i, x) \/ NewPort(i, x) \/ NewMount(i, x) \/ NewInside(i, x)
  PROVE  OneDevice(x)
<1>1. CASE x.mounts = i.mounts
  BY <1>1 DEF OneDevice
<1>2. CASE NewAuto(i, x)
  BY <1>1, <1>2 DEF NewAuto, Instance
<1>3. CASE NewNet(i, x)
  BY <1>1, <1>3 DEF NewNet, Instance
<1>4. CASE NewPort(i, x)
  BY <1>1, <1>4 DEF NewPort, Instance
<1>5. CASE NewInside(i, x)
  <2>1. [i EXCEPT !.secure = TRUE].mounts = i.mounts
    BY DEF Instance
  <2> QED
    BY <1>1, <1>5, <2>1, RefreshFields DEF NewInside
<1>6. CASE NewMount(i, x)
  <2>1. PICK k \in MountKeys, v \in MountModes \cup {"none"} :
          /\ x = [i EXCEPT !.mounts = [i.mounts EXCEPT ![k] = v]]
          /\ i.mounts[k] # "none" \/ v = "none" \/ Mountable(i, k, v)
    BY <1>6 DEF NewMount
  <2>2. x.mounts = [i.mounts EXCEPT ![k] = v] /\ i.mounts \in Mounts
    BY <2>1, InstanceFields, ZenonT(60) DEF Instance
  <2>3. x.mounts[k] = v /\ \A j \in MountKeys : j # k => x.mounts[j] = i.mounts[j]
    BY <2>2 DEF Mounts
  <2> SUFFICES ASSUME NEW a \in MountKeys, NEW b \in MountKeys
               PROVE  /\ a[2] = b[2] /\ (x.mounts[a] # "none" \/ Inherited[a] # "none")
                           /\ (x.mounts[b] # "none" \/ Inherited[b] # "none") => a = b
                      /\ x.mounts[b] # "none" => b[2] \notin Taken
    BY DEF OneDevice
  <2>4. \A c, d \in MountKeys :
          /\ c[2] = d[2] /\ (i.mounts[c] # "none" \/ Inherited[c] # "none")
               /\ (i.mounts[d] # "none" \/ Inherited[d] # "none") => c = d
          /\ i.mounts[d] # "none" => d[2] \notin Taken
    BY DEF OneDevice
  <2>5. CASE Mountable(i, k, v)
    <3>1. /\ k[2] \notin Taken
          /\ \A j \in MountKeys : j # k /\ j[2] = k[2] =>
               i.mounts[j] = "none" /\ Inherited[j] = "none"
      BY <2>5 DEF Mountable
    <3> QED
      BY <2>3, <2>4, <3>1
  <2>6. CASE i.mounts[k] # "none" \/ v = "none"
    BY <2>3, <2>4, <2>6
  <2> QED
    BY <2>1, <2>5, <2>6
<1> QED
  BY <1>2, <1>3, <1>4, <1>5, <1>6

\* and every container and the backup file stay without.
MountInv == OneMountPerTarget /\ (backup # None => OneDevice(backup))

\* A container under a name without a target twice keeps the others so,
LEMMA MountSet ==
  ASSUME TypeOK, OneMountPerTarget, NEW n \in Names, NEW j \in Instance \cup {None},
         inst' = [inst EXCEPT ![n] = j], j # None => OneDevice(j)
  PROVE  OneMountPerTarget'
<1> SUFFICES ASSUME NEW a \in Names, inst'[a] # None
             PROVE  OneDevice(inst'[a])
  BY DEF OneMountPerTarget, Existing, OneDevice
<1> QED
  BY DEF TypeOK, OneMountPerTarget, Existing

\* so that every step does.
LEMMA MountStep ==
  TypeOK /\ CourseInv /\ BackupInv /\ MountInv /\ [Next]_vars => MountInv'
<1> SUFFICES ASSUME TypeOK, CourseInv, BackupInv, MountInv, [Next]_vars
             PROVE  MountInv'
  OBVIOUS
<1>m. OneMountPerTarget /\ (backup # None => OneDevice(backup))
  BY DEF MountInv
<1>n. \A n \in Names : inst[n] # None => OneDevice(inst[n])
  BY <1>m DEF OneMountPerTarget, Existing
<1>a. OneMountPerTarget'
  <2>1. CASE UNCHANGED inst
    BY <1>m, <2>1 DEF OneMountPerTarget, Existing, OneDevice
  <2>2. ASSUME NEW n \in Names, Alive(n) PROVE OneMountPerTarget'
    <3>1. PICK i \in Instance : inst[n] # None /\ i.mounts = inst[n].mounts
                               /\ inst' = [inst EXCEPT ![n] = i]
      BY <2>2 DEF Alive, Kept
    <3>2. OneDevice(i)
      BY <1>n, <3>1 DEF OneDevice
    <3> QED
      BY <1>m, <3>1, <3>2, MountSet
  <2>3. ASSUME NEW n \in Names, Gone(n) PROVE OneMountPerTarget'
    BY <1>m, <2>3, MountSet DEF Gone
  <2>4. ASSUME NEW n \in Names, Fetched(n) PROVE OneMountPerTarget'
    <3>1. PICK m \in FreeMACs :
            backup # None /\ inst' = [inst EXCEPT ![n] = [backup EXCEPT !.mac = m]]
      BY <2>4 DEF Fetched
    <3>2. backup \in Instance /\ m \in MACs
      BY <3>1 DEF TypeOK, FreeMACs
    <3> DEFINE i == [backup EXCEPT !.mac = m]
    <3>3. i \in Instance /\ i.mounts = backup.mounts
      BY <3>2 DEF Instance
    <3>4. inst' = [inst EXCEPT ![n] = i]
      BY <3>1
    <3> HIDE DEF i
    <3>5. OneDevice(i)
      BY <1>m, <3>1, <3>3 DEF OneDevice
    <3> QED
      BY <1>m, <3>3, <3>4, <3>5, MountSet
  <2>5. ASSUME NEW n \in Names, Born(n) PROVE OneMountPerTarget'
    <3>1. PICK m \in FreeMACs, mode \in Modes : inst' = [inst EXCEPT ![n] = Fresh(m, mode)]
      BY <2>5 DEF Born
    <3>2. Fresh(m, mode) \in Instance /\ Fresh(m, mode).mounts = [k \in MountKeys |-> "none"]
      BY DEF Fresh, Instance, Ports, Mounts, FreeMACs
    <3>3. OneDevice(Fresh(m, mode))
      BY <3>2, InstanceConfigAssumption DEF OneDevice
    <3> QED
      BY <1>m, <3>1, <3>2, <3>3, MountSet
  <2>6. ASSUME NEW p \in Actors, NEW i \in Instance, Written(p, i) PROVE OneMountPerTarget'
    <3>1. snap[p].mounts = inst[name[p]].mounts /\ name[p] \in Names /\ inst[name[p]] # None
          /\ snap[p] \in Instance
      BY <2>6, WrittenShape, InstanceConfigAssumption DEF Kept
    <3>2. OneDevice(snap[p])
      BY <1>n, <3>1 DEF OneDevice
    <3>3. OneDevice(i)
      BY <2>6, <3>1, <3>2, WrittenShape, EditedMounts
    <3>4. PICK j \in Instance : j.mounts = i.mounts /\ inst' = [inst EXCEPT ![name[p]] = j]
      BY <2>6, WrittenShape DEF Kept
    <3>5. OneDevice(j)
      BY <3>3, <3>4 DEF OneDevice
    <3> QED
      BY <1>m, <3>1, <3>4, <3>5, MountSet
  <2> QED
    BY <2>1, <2>2, <2>3, <2>4, <2>5, <2>6, InstChange
<1>b. (backup # None => OneDevice(backup))'
  <2>1. CASE UNCHANGED backup
    BY <1>m, <2>1 DEF OneDevice
  <2>2. ASSUME NEW n \in Names, inst[n] \in Instance,
               backup' = [inst[n] EXCEPT !.run = FALSE, !.addr = None, !.boots = 0]
        PROVE  (backup # None => OneDevice(backup))'
    <3>1. backup'.mounts = inst[n].mounts
      BY <2>2 DEF Instance
    <3>2. OneDevice(inst[n])
      BY <1>n, <2>2, InstanceConfigAssumption
    <3> QED
      BY <3>1, <3>2 DEF OneDevice
  <2> QED
    BY <2>1, <2>2, BackupChange
<1> QED
  BY <1>a, <1>b DEF MountInv

\* OneMountPerTarget: however the commands that mount interleave, and whatever a
\* backup holds, no target gets a second device (AddMount and its ETag).
THEOREM OneMount == Spec => []OneMountPerTarget
<1>1. Init => TypeOK /\ CourseInv /\ BackupInv /\ MountInv
  <2>1. Init => MountInv
    BY RegimeAssumption DEF Init, MountInv, OneMountPerTarget, Existing
  <2> QED
    BY <2>1, TypeInit
<1>2. TypeOK /\ CourseInv /\ BackupInv /\ MountInv /\ [Next]_vars
        => (TypeOK /\ CourseInv /\ BackupInv /\ MountInv)'
  BY TypeStep, BackupStep, MountStep
<1>3. MountInv => OneMountPerTarget
  BY DEF MountInv
<1> QED
  BY <1>1, <1>2, <1>3, PTL DEF Spec

\* OperatorSubnetKept: a subnet the operator gave ends only with a command that
\* was told another or none; the ETag makes what it read what is there.
THEOREM SubnetKept == Spec => OperatorSubnetKept
<1> DEFINE Keeps == \A m \in Modes : nets[m] # None /\ nets[m].v6 \in {"custom1", "custom2"} =>
                      /\ nets'[m] # None
                      /\ \/ nets'[m].v6 = nets[m].v6
                         \/ \E p \in Actors : /\ pc[p] = "netput" /\ Explicit(env[p].v6)
                                            /\ nets'[m].v6 = env[p].v6
<1>1. ASSUME TypeOK, [Next]_vars
      PROVE  Keeps
  <2>1. CASE UNCHANGED nets
    BY <2>1
  <2>2. ASSUME NEW p \in Actors, PutNet(p)
        PROVE  Keeps
    <3>1. CASE UNCHANGED nets
      BY <3>1
    <3>2. CASE /\ nets[want[p]] = seen[p]
               /\ nets' = [nets EXCEPT ![want[p]] = Desired(seen[p], env[p])]
      <4> SUFFICES ASSUME NEW m \in Modes, nets[m] # None,
                          nets[m].v6 \in {"custom1", "custom2"}
                   PROVE  /\ nets'[m] # None
                          /\ \/ nets'[m].v6 = nets[m].v6
                             \/ Explicit(env[p].v6) /\ nets'[m].v6 = env[p].v6
        BY <2>2 DEF PutNet
      <4>1. CASE m # want[p]
        BY <1>1, <3>2, <4>1 DEF TypeOK
      <4>2. CASE m = want[p]
        <5>1. nets[m] \in Net /\ env[p] \in Env
          BY <1>1 DEF TypeOK
        <5>4. nets'[m] = Desired(nets[m], env[p])
          BY <1>1, <3>2, <4>2 DEF TypeOK
        <5>2. Desired(nets[m], env[p]) \in Net
          BY <5>1, DesiredType
        <5>3. \/ Desired(nets[m], env[p]).v6 = nets[m].v6
              \/ Explicit(env[p].v6) /\ Desired(nets[m], env[p]).v6 = env[p].v6
          BY <5>1 DEF Desired, Drawn, Net, Env
        <5> QED
          BY <5>4, <5>2, <5>3, InstanceConfigAssumption
      <4> QED
        BY <4>1, <4>2
    <3> QED
      BY <2>2, <3>1, <3>2 DEF PutNet
  <2>3. ASSUME NEW p \in Actors,
               \/ Look(p) \/ Missing(p) \/ ReadMode(p) \/ Read(p) \/ Put(p) \/ ReadNet(p)
               \/ Boot(p) \/ Await(p) \/ Halt(p) \/ Delete(p) \/ Create(p)
               \/ ListNames(p) \/ ImportBackup(p) \/ FindImported(p) \/ Export(p) \/ Refused(p)
        PROVE  UNCHANGED nets
    BY <2>3 DEF Look, Missing, ReadMode, Read, Put, ReadNet, Boot, Await, Halt, Delete, Create,
                ListNames, ImportBackup, FindImported, Export, Refused
  <2>4. ASSUME NEW p \in Actors, NEW r, NEW e, Begin(p, r, e) PROVE UNCHANGED nets
    BY <2>4 DEF Begin
  <2>5. ASSUME NEW n \in Names, Lease(n) PROVE UNCHANGED nets
    BY <2>5 DEF Lease
  <2>6. CASE UNCHANGED vars
    BY <2>6 DEF vars
  <2> HIDE DEF Keeps
  <2>7. UNCHANGED nets => Keeps
    BY <2>1
  <2> QED
    BY <1>1, <2>2, <2>3, <2>4, <2>5, <2>6, <2>7 DEF Next, Step
<1>2. TypeOK /\ [Next]_vars => [Keeps]_vars
  BY <1>1
<1> QED
  BY <1>2, TypeCorrect, PTL DEF Spec, OperatorSubnetKept

---------------------------------------------------------------------------
(* The refinement of InstanceMap                                           *)

\* What the map keeps of an instance.
SettingOf(i) ==
  [auto |-> i.auto, mode |-> i.mode, mounts |-> i.mounts,
   ports |-> [h \in HostPorts |-> IF i.ports[h] = None THEN None ELSE i.ports[h].to]]

\* These are settings of the map.
LEMMA SettingType ==
  ASSUME NEW i \in Instance
  PROVE  SettingOf(i) \in Map!Conf /\ SettingOf(i) # None
<1>1. i.ports \in Ports /\ i.mounts \in Mounts /\ i.mode \in Modes /\ i.auto \in BOOLEAN
  BY DEF Instance
<1>2. [h \in HostPorts |-> IF i.ports[h] = None THEN None ELSE i.ports[h].to]
        \in [HostPorts -> ContainerPorts \cup {None}]
  BY <1>1 DEF Ports
<1>3. SettingOf(i) \in Setting
  BY <1>1, <1>2 DEF SettingOf, Setting
<1>4. Setting = Map!Conf
  <2>1. Mounts = [MountKeys -> {"none", "ro", "rw"}]
    BY DEF Mounts, MountModes
  <2> QED
    BY <2>1 DEF Setting, Map!Conf
<1> QED
  BY <1>3, <1>4, InstanceConfigAssumption

\* Every edit changes one setting at most.
LEMMA SettingEdit ==
  ASSUME NEW i \in Instance, NEW x \in Instance,
         NewAuto(i, x) \/ NewNet(i, x) \/ NewPort(i, x) \/ NewMount(i, x) \/ NewInside(i, x)
  PROVE  \/ SettingOf(x) = SettingOf(i)
         \/ \E b \in BOOLEAN : SettingOf(x) = [SettingOf(i) EXCEPT !.auto = b]
         \/ \E m \in Modes : SettingOf(x) = [SettingOf(i) EXCEPT !.mode = m]
         \/ \E h \in HostPorts, v \in ContainerPorts \cup {None} :
              SettingOf(x) = [SettingOf(i) EXCEPT !.ports[h] = v]
         \/ ~i.run /\ \E k \in MountKeys, v \in {"none", "ro", "rw"} :
                        SettingOf(x) = [SettingOf(i) EXCEPT !.mounts[k] = v]
<1> DEFINE P(j) == [h \in HostPorts |-> IF j.ports[h] = None THEN None ELSE j.ports[h].to]
<1>s. \A j : SettingOf(j) = [auto |-> j.auto, mode |-> j.mode, mounts |-> j.mounts, ports |-> P(j)]
  BY DEF SettingOf
<1>p. x.ports = i.ports => P(x) = P(i)
  OBVIOUS
<1>q. ASSUME NEW h \in HostPorts, NEW v, i.ports \in Ports, x.ports = [i.ports EXCEPT ![h] = v]
      PROVE  P(x) = [P(i) EXCEPT ![h] = IF v = None THEN None ELSE v.to]
  BY <1>q DEF Ports
<1> HIDE DEF P
<1>1. CASE NewAuto(i, x)
  <2>1. PICK b \in BOOLEAN : x = [i EXCEPT !.auto = b]
    BY <1>1 DEF NewAuto
  <2>2. x.auto = b /\ x.mode = i.mode /\ x.mounts = i.mounts /\ x.ports = i.ports
    BY <2>1 DEF Instance
  <2>3. SettingOf(x) = [SettingOf(i) EXCEPT !.auto = b]
    BY <2>2, <1>p, <1>s
  <2> QED
    BY <2>3
<1>2. CASE NewNet(i, x)
  <2>1. PICK m \in Modes : x.auto = i.auto /\ x.mode = m /\ x.mounts = i.mounts
                          /\ x.ports = i.ports
    BY <1>2 DEF NewNet, Instance
  <2>2. SettingOf(x) = [SettingOf(i) EXCEPT !.mode = m]
    BY <2>1, <1>p, <1>s
  <2> QED
    BY <2>2
<1>3. CASE NewPort(i, x)
  <2>1. PICK h \in HostPorts, v \in [to : ContainerPorts, at : Addrs, dual : BOOLEAN] \cup {None} :
          x = [i EXCEPT !.ports = [i.ports EXCEPT ![h] = v]]
    BY <1>3 DEF NewPort
  <2>2. x.auto = i.auto /\ x.mode = i.mode /\ x.mounts = i.mounts
        /\ x.ports = [i.ports EXCEPT ![h] = v] /\ i.ports \in Ports
    BY <2>1, InstanceFields, ZenonT(60) DEF Instance
  <2> DEFINE to == IF v = None THEN None ELSE v.to
  <2>4. to \in ContainerPorts \cup {None}
    OBVIOUS
  <2>5. P(x) = [P(i) EXCEPT ![h] = to]
    BY <2>2, <1>q
  <2> HIDE DEF to
  <2>6. [SettingOf(i) EXCEPT !.ports[h] = to]
          = [auto |-> i.auto, mode |-> i.mode, mounts |-> i.mounts,
             ports |-> [P(i) EXCEPT ![h] = to]]
    BY <1>s, SMTT(30)
  <2>7. SettingOf(x) = [auto |-> i.auto, mode |-> i.mode, mounts |-> i.mounts,
                        ports |-> [P(i) EXCEPT ![h] = to]]
    BY <2>2, <2>5, <1>s
  <2> QED
    BY <2>4, <2>6, <2>7
<1>4. CASE NewMount(i, x)
  <2>1. PICK k \in MountKeys, v \in MountModes \cup {"none"} :
          x = [i EXCEPT !.mounts = [i.mounts EXCEPT ![k] = v]]
    BY <1>4 DEF NewMount
  <2>2. x.auto = i.auto /\ x.mode = i.mode /\ x.ports = i.ports
        /\ x.mounts = [i.mounts EXCEPT ![k] = v] /\ ~i.run
    BY <1>4, <2>1 DEF NewMount, Instance
  <2>3. SettingOf(x) = [auto |-> i.auto, mode |-> i.mode,
                        mounts |-> [i.mounts EXCEPT ![k] = v], ports |-> P(i)]
    BY <2>2, <1>p, <1>s
  <2>4. [SettingOf(i) EXCEPT !.mounts[k] = v]
          = [auto |-> i.auto, mode |-> i.mode,
             mounts |-> [i.mounts EXCEPT ![k] = v], ports |-> P(i)]
    BY <1>s, SMTT(30)
  <2> QED
    BY <2>2, <2>3, <2>4 DEF MountModes
<1>5. CASE x = [i EXCEPT !.secure = TRUE]
  <2>1. x.auto = i.auto /\ x.mode = i.mode /\ x.ports = i.ports /\ x.mounts = i.mounts
    BY <1>5 DEF Instance
  <2>2. SettingOf(x) = SettingOf(i)
    BY <2>1, <1>p, <1>s
  <2> QED
    BY <2>2
<1>6. CASE x = Refresh(i)
  <2>1. x.auto = i.auto /\ x.mode = i.mode /\ x.mounts = i.mounts
    BY <1>6, RefreshFields
  <2>2. P(x) = P(i)
    <3>1. \A h \in HostPorts :
            /\ i.ports[h] = None => x.ports[h] = None
            /\ i.ports[h] # None => x.ports[h] # None /\ x.ports[h].to = i.ports[h].to
      BY <1>6, RefreshFields
    <3>2. \A h \in HostPorts : (IF x.ports[h] = None THEN None ELSE x.ports[h].to)
                                 = (IF i.ports[h] = None THEN None ELSE i.ports[h].to)
      <4> SUFFICES ASSUME NEW h \in HostPorts
                   PROVE  (IF x.ports[h] = None THEN None ELSE x.ports[h].to)
                            = (IF i.ports[h] = None THEN None ELSE i.ports[h].to)
        OBVIOUS
      <4>1. CASE i.ports[h] = None
        <5>1. x.ports[h] = None
          BY <3>1, <4>1
        <5> QED
          BY <4>1, <5>1
      <4>2. CASE i.ports[h] # None
        <5>1. x.ports[h] # None /\ x.ports[h].to = i.ports[h].to
          BY <3>1, <4>2
        <5> QED
          BY <4>2, <5>1
      <4> QED
        BY <4>1, <4>2
    <3> QED
      BY <3>2 DEF P
  <2>3. SettingOf(x) = SettingOf(i)
    BY <2>1, <2>2, <1>s
  <2> QED
    BY <2>3
<1> QED
  BY <1>1, <1>2, <1>3, <1>4, <1>5, <1>6 DEF NewInside

\* A container that is not there has no settings,
LEMMA SettingsAre ==
  ASSUME NEW n \in Names
  PROVE  /\ inst[n] = None => Settings(n) = None
         /\ inst[n] # None => Settings(n) = SettingOf(inst[n])
  BY DEF Settings, SettingOf

\* a change of one changes its own settings only,
LEMMA SettingsSet ==
  ASSUME TypeOK, NEW n \in Names, NEW j \in Instance \cup {None}, inst' = [inst EXCEPT ![n] = j]
  PROVE  /\ \A k \in Names : k # n => Settings(k)' = Settings(k)
         /\ j = None => Settings(n)' = None
         /\ j # None => Settings(n)' = SettingOf(j)
<1>1. inst'[n] = j /\ \A k \in Names : k # n => inst'[k] = inst[k]
  BY DEF TypeOK
<1> QED
  BY <1>1 DEF Settings, SettingOf

\* and of what runs, it alone.
Running == {n \in Existing : inst[n].run}

\* What runs after a container is written under a name.
LEMMA RunningSet ==
  ASSUME TypeOK, NEW n \in Names, NEW j \in Instance \cup {None}, inst' = [inst EXCEPT ![n] = j]
  PROVE  /\ j # None /\ j.run => Running' = Running \cup {n}
         /\ (j = None \/ ~j.run) => Running' = Running \ {n}
<1>1. inst'[n] = j /\ \A k \in Names : k # n => inst'[k] = inst[k]
  BY DEF TypeOK
<1> QED
  BY <1>1 DEF Running, Existing

\* A backup is not of a running container.
RestInv == backup # None => ~backup.run

\* An export is of the container at rest.
LEMMA RestStep == TypeOK /\ CourseInv /\ RestInv /\ [Next]_vars => RestInv'
<1> SUFFICES ASSUME TypeOK, CourseInv, RestInv, [Next]_vars
             PROVE  RestInv'
  OBVIOUS
<1>1. CASE UNCHANGED backup
  BY <1>1 DEF RestInv
<1>2. ASSUME NEW n \in Names, inst[n] \in Instance,
             backup' = [inst[n] EXCEPT !.run = FALSE, !.addr = None, !.boots = 0]
      PROVE  RestInv'
  BY <1>2 DEF RestInv, Instance
<1> QED
  BY <1>1, <1>2, BackupChange

\* A step of the commands is a step of the map or leaves it alone.
LEMMA MapStep ==
  TypeOK /\ CourseInv /\ BackupInv /\ RestInv /\ [Next]_vars => [Map!Next]_(Map!vars)
<1> SUFFICES ASSUME TypeOK, CourseInv, BackupInv, RestInv, [Next]_vars
             PROVE  [Map!Next]_(Map!vars)
  OBVIOUS
<1> DEFINE conf == [n \in Names |-> Settings(n)]
<1>c. ASSUME NEW n \in Names, NEW j \in Instance \cup {None}, inst' = [inst EXCEPT ![n] = j]
      PROVE  conf' = [conf EXCEPT ![n] = IF j = None THEN None ELSE SettingOf(j)]
  BY <1>c, SettingsSet
<1>d. \A n \in Names : /\ inst[n] = None => conf[n] = None
                       /\ inst[n] # None => conf[n] = SettingOf(inst[n])
  BY SettingsAre
<1>1. CASE UNCHANGED inst
  <2>1. conf' = conf /\ Running' = Running
    BY <1>1 DEF Settings, Running, Existing
  <2> QED
    BY <2>1 DEF Map!vars, Running
<1>2. ASSUME NEW n \in Names, Alive(n) PROVE [Map!Next]_(Map!vars)
  <2>1. PICK i \in Instance : inst[n] # None /\ Kept(i, inst[n]) /\ inst' = [inst EXCEPT ![n] = i]
    BY <1>2 DEF Alive
  <2>2. i # None /\ SettingOf(i) = SettingOf(inst[n])
    BY <2>1, InstanceConfigAssumption DEF Kept, SettingOf
  <2>3. conf' = conf /\ conf[n] # None
    <3>1. conf' = [conf EXCEPT ![n] = SettingOf(i)]
      BY <1>c, <2>1, <2>2
    <3>2. conf[n] = SettingOf(i) /\ SettingOf(i) # None
      BY <1>d, <2>1, <2>2, SettingType
    <3> QED
      BY <3>1, <3>2
  <2>4. CASE i.run
    <3>1. Running' = Running \cup {n}
      BY <2>1, <2>2, <2>4, RunningSet
    <3>2. Map!Start(n)
      BY <2>3, <3>1 DEF Map!Start, Running
    <3> QED
      BY <3>2 DEF Map!Next
  <2>5. CASE ~i.run
    <3>1. Running' = Running \ {n}
      BY <2>1, <2>2, <2>5, RunningSet
    <3>2. Map!Stop(n)
      BY <2>3, <3>1 DEF Map!Stop, Running
    <3> QED
      BY <3>2 DEF Map!Next
  <2> QED
    BY <2>4, <2>5
<1>3. ASSUME NEW n \in Names, Gone(n) PROVE [Map!Next]_(Map!vars)
  <2>1. inst' = [inst EXCEPT ![n] = None] /\ n \notin Running
    BY <1>3 DEF Gone, Running
  <2>2. conf' = [conf EXCEPT ![n] = None]
    BY <1>c, <2>1
  <2>3. Running' = Running
    BY <2>1, RunningSet
  <2>4. Map!Delete(n)
    BY <2>1, <2>2, <2>3 DEF Map!Delete, Running
  <2> QED
    BY <2>4 DEF Map!Next
<1>4. ASSUME NEW n \in Names, NEW j \in Instance, inst[n] = None, ~j.run,
             inst' = [inst EXCEPT ![n] = j]
      PROVE  [Map!Next]_(Map!vars)
  <2>1. j # None /\ SettingOf(j) \in Map!Conf
    BY SettingType, InstanceConfigAssumption
  <2>2. conf' = [conf EXCEPT ![n] = SettingOf(j)]
    BY <1>c, <1>4, <2>1
  <2>3. conf[n] = None /\ conf'[n] = SettingOf(j)
    BY <1>d, <1>4, <2>2
  <2>4. Running' = Running
    <3>1. n \notin Running
      BY <1>4 DEF Running, Existing
    <3> QED
      BY <1>4, <3>1, RunningSet
  <2>5. Map!Create(n)
    BY <2>1, <2>2, <2>3, <2>4 DEF Map!Create, Running
  <2> QED
    BY <2>5 DEF Map!Next
<1>5. ASSUME NEW n \in Names, Fetched(n) PROVE [Map!Next]_(Map!vars)
  <2>1. PICK m \in FreeMACs : /\ inst[n] = None /\ backup # None
                              /\ inst' = [inst EXCEPT ![n] = [backup EXCEPT !.mac = m]]
    BY <1>5 DEF Fetched
  <2>2. backup \in Instance /\ m \in MACs /\ ~backup.run
    BY <2>1 DEF TypeOK, FreeMACs, RestInv
  <2>3. [backup EXCEPT !.mac = m] \in Instance /\ ~[backup EXCEPT !.mac = m].run
    BY <2>2 DEF Instance
  <2> QED
    BY <1>4, <2>1, <2>3
<1>6. ASSUME NEW n \in Names, Born(n) PROVE [Map!Next]_(Map!vars)
  <2>1. PICK m \in FreeMACs, mode \in Modes :
          inst[n] = None /\ inst' = [inst EXCEPT ![n] = Fresh(m, mode)]
    BY <1>6 DEF Born
  <2>2. Fresh(m, mode) \in Instance /\ ~Fresh(m, mode).run
    BY DEF Fresh, Instance, Ports, Mounts, FreeMACs
  <2> QED
    BY <1>4, <2>1, <2>2
<1>7. ASSUME NEW p \in Actors, NEW i \in Instance, Written(p, i) PROVE [Map!Next]_(Map!vars)
  <2> DEFINE n == name[p]
  <2>1. /\ n \in Names /\ inst[n] \in Instance /\ snap[p] \in Instance
        /\ \/ NewAuto(snap[p], i) \/ NewNet(snap[p], i) \/ NewPort(snap[p], i)
           \/ NewMount(snap[p], i) \/ NewInside(snap[p], i)
        /\ Kept(snap[p], inst[n]) /\ snap[p].run = inst[n].run
    BY <1>7, WrittenShape
  <2>2. PICK j \in Instance : Kept(j, i) /\ j.run = i.run /\ inst' = [inst EXCEPT ![n] = j]
    BY <1>7, WrittenShape
  <2>3. SettingOf(snap[p]) = SettingOf(inst[n]) /\ SettingOf(j) = SettingOf(i)
    BY <2>1, <2>2 DEF Kept, SettingOf
  <2>4. i.run = inst[n].run
    BY <2>1, EditedRun
  <2>5. inst[n] # None /\ j # None
    BY <2>1, InstanceConfigAssumption
  <2>6. Running' = Running /\ (n \in Running <=> inst[n].run)
    <3>1. n \in Running <=> inst[n].run
      BY <2>1, <2>5 DEF Running, Existing
    <3>2. Running' = IF j.run THEN Running \cup {n} ELSE Running \ {n}
      BY <2>1, <2>2, <2>5, RunningSet
    <3> QED
      BY <2>2, <2>4, <3>1, <3>2
  <2> DEFINE c == SettingOf(inst[n])
             d == SettingOf(i)
  <2>7. conf[n] = c /\ conf' = [conf EXCEPT ![n] = d] /\ c # None
    <3>1. conf[n] = c
      BY <1>d, <2>1, <2>5
    <3>2. conf' = [conf EXCEPT ![n] = d]
      <4>1. n \in Names /\ j \in Instance \cup {None} /\ inst' = [inst EXCEPT ![n] = j]
        BY <2>1, <2>2
      <4> HIDE DEF conf, n
      <4>2. conf' = [conf EXCEPT ![n] = IF j = None THEN None ELSE SettingOf(j)]
        BY <1>c, <4>1
      <4> QED
        BY <4>2, <2>3, <2>5
    <3>3. c # None
      BY <2>1, SettingType
    <3> QED
      BY <3>1, <3>2, <3>3
  <2>8. \/ d = c
        \/ \E b \in BOOLEAN : d = [c EXCEPT !.auto = b]
        \/ \E m \in Modes : d = [c EXCEPT !.mode = m]
        \/ \E h \in HostPorts, v \in ContainerPorts \cup {None} : d = [c EXCEPT !.ports[h] = v]
        \/ n \notin Running /\ \E k \in MountKeys, v \in {"none", "ro", "rw"} :
                                 d = [c EXCEPT !.mounts[k] = v]
    BY <2>1, <2>3, <2>6, SettingEdit
  <2> HIDE DEF c, d, n, conf
  <2>9. CASE d = c
    <3>1. conf' = conf
      BY <2>7, <2>9 DEF conf
    <3> QED
      BY <2>6, <3>1 DEF Map!vars, Running, conf
  <2>10. CASE d \in Map!Edits(n)
    <3>1. Map!Edit(n)
      BY <2>6, <2>7, <2>10 DEF Map!Edit, Running, conf
    <3> QED
      BY <2>1, <3>1 DEF Map!Next
  <2>11. d = c \/ d \in Map!Edits(n)
    BY <2>7, <2>8 DEF Map!Edits, Running, conf
  <2> QED
    BY <2>9, <2>10, <2>11
<1> QED
  BY <1>1, <1>2, <1>3, <1>5, <1>6, <1>7, InstChange

\* ImplementsInstanceMap: each command changes one setting of a container as it is,
\* and none of the mounts of one that runs; what was read before is written only
\* while its ETag holds (updateInstance).
THEOREM ImplementsMap == Spec => ImplementsInstanceMap
<1>1. Init => Map!Init
  <2> SUFFICES ASSUME Init
               PROVE  Map!Init
    OBVIOUS
  <2>1. \A n \in Names : Settings(n) \in Map!Conf \cup {None}
    <3>1. \A n \in Names : inst[n] \in Instance \cup {None}
      BY TypeInit DEF TypeOK
    <3> QED
      BY <3>1, SettingsAre, SettingType
  <2> QED
    BY <2>1 DEF Map!Init, Existing
<1>2. Init => TypeOK /\ CourseInv /\ BackupInv /\ RestInv
  <2>1. Init => RestInv
    BY RegimeAssumption DEF Init, RestInv
  <2> QED
    BY <2>1, TypeInit
<1>3. TypeOK /\ CourseInv /\ BackupInv /\ RestInv /\ [Next]_vars
        => (TypeOK /\ CourseInv /\ BackupInv /\ RestInv)'
  BY TypeStep, BackupStep, RestStep
<1> QED
  BY <1>1, <1>2, <1>3, MapStep, PTL DEF Spec, ImplementsInstanceMap, Map!Spec

---------------------------------------------------------------------------
(* Imports                                                                 *)

\* Where an import goes from each of its stages.
LEMMA ImportTail ==
  ASSUME NEW r \in Request, NEW t \in Course(r), r.verb = "import", Tail(t) # <<>>
  PROVE  /\ Head(t) = "names" => Head(Tail(t)) = "import"
         /\ Head(t) \in {"find", "mode", "renet", "security"} =>
              Head(Tail(t)) \in {"mode", "renet", "security"}
         /\ Head(t) \in {"names", "import", "find", "mode", "renet", "security"}
<1>1. CASE r.value = None
  <2>1. t \in ModelessCourse
    BY <1>1 DEF Course
  <2>2. CASE t = <<"names", "import", "find", "mode", "renet", "security">>
    <3>1. Tail(<<"names", "import", "find", "mode", "renet", "security">>)
            = <<"import", "find", "mode", "renet", "security">>
      OBVIOUS
    <3> QED
      BY <2>2, <3>1
  <2>3. CASE t = <<"import", "find", "mode", "renet", "security">>
    BY <2>3
  <2>4. CASE t = <<"find", "mode", "renet", "security">>
    <3>1. Tail(<<"find", "mode", "renet", "security">>) = <<"mode", "renet", "security">>
      OBVIOUS
    <3> QED
      BY <2>4, <3>1
  <2>5. CASE t = <<"import", "mode", "renet", "security">>
    BY <2>5
  <2>6. CASE t = <<"mode", "renet", "security">>
    <3>1. Tail(<<"mode", "renet", "security">>) = <<"renet", "security">>
      OBVIOUS
    <3> QED
      BY <2>6, <3>1
  <2>7. CASE t = <<"renet", "security">>
    <3>1. Tail(<<"renet", "security">>) = <<"security">>
      OBVIOUS
    <3> QED
      BY <2>7, <3>1
  <2>8. CASE t = <<"security">>
    BY <2>8
  <2> QED
    BY <2>1, <2>2, <2>3, <2>4, <2>5, <2>6, <2>7, <2>8 DEF ModelessCourse
<1>2. CASE r.value # None
  <2>1. t \in ImportCourse
    BY <1>2 DEF Course
  <2>2. CASE t = <<"names", "import", "find", "renet", "security">>
    <3>1. Tail(<<"names", "import", "find", "renet", "security">>)
            = <<"import", "find", "renet", "security">>
      OBVIOUS
    <3> QED
      BY <2>2, <3>1
  <2>3. CASE t = <<"import", "find", "renet", "security">>
    BY <2>3
  <2>4. CASE t = <<"find", "renet", "security">>
    <3>1. Tail(<<"find", "renet", "security">>) = <<"renet", "security">>
      OBVIOUS
    <3> QED
      BY <2>4, <3>1
  <2>5. CASE t = <<"import", "renet", "security">>
    BY <2>5
  <2>6. CASE t = <<"renet", "security">>
    <3>1. Tail(<<"renet", "security">>) = <<"security">>
      OBVIOUS
    <3> QED
      BY <2>6, <3>1
  <2>7. CASE t = <<"security">>
    BY <2>7
  <2> QED
    BY <2>1, <2>2, <2>3, <2>4, <2>5, <2>6, <2>7 DEF ImportCourse
<1> QED
  BY <1>1, <1>2

\* An import begins with its request or the listing before it.
LEMMA ImportHead ==
  ASSUME NEW r \in Request, r.verb = "import"
  PROVE  Head(Plan(r)) \in {"names", "import"}
<1>1. Plan(r) = ImportPlan(r)
  BY DEF Plan
<1>2. CASE r.name = None
  BY <1>1, <1>2 DEF ImportPlan
<1>3. CASE r.name # None
  BY <1>1, <1>3 DEF ImportPlan
<1> QED
  BY <1>2, <1>3

\* Nobody is told to remove a container.
Kind == \A r \in regime.requests : r.verb # "remove"

\* From its request on an import is about the container it made, which was not
\* there when it listed them.
Own(p) ==
  /\ Stage(p) = "find" => name[p] \in Existing \ names[p] /\ name[p] \in made[p]
  /\ Stage(p) \in {"mode", "renet", "security"} => name[p] \in made[p]

OwnInv ==
  /\ \A p \in Actors : pc[p] # "idle" => req[p] \in regime.requests
  /\ Kind => /\ \A p \in Actors : names[p] \subseteq Existing
             /\ \A p \in Actors : pc[p] # "idle" /\ req[p].verb = "import" => Own(p)

\* If so, no container disappears.
LEMMA Grows ==
  ASSUME TypeOK, CourseInv, BackupInv, OwnInv, Kind, [Next]_vars
  PROVE  Existing \subseteq Existing'
<1>1. CASE UNCHANGED inst
  BY <1>1 DEF Existing
<1>2. ASSUME NEW n \in Names, NEW j, j # None, inst' = [inst EXCEPT ![n] = j]
      PROVE  Existing \subseteq Existing'
  BY <1>2 DEF TypeOK, Existing
<1>3. ASSUME NEW n \in Names, Alive(n) PROVE Existing \subseteq Existing'
  BY <1>2, <1>3, InstanceConfigAssumption DEF Alive
<1>4. ASSUME NEW n \in Names, Gone(n) PROVE FALSE
  <2>1. PICK p \in Actors : pc[p] = "read" /\ Knows(p) /\ Stage(p) = "delete"
    BY <1>4 DEF Gone
  <2>2. req[p].verb = "remove"
    BY <2>1, StageOf DEF Knows, Stage
  <2> QED
    BY <2>1, <2>2 DEF OwnInv, Kind
<1>5. ASSUME NEW n \in Names, Fetched(n) PROVE Existing \subseteq Existing'
  BY <1>5 DEF Fetched, TypeOK, Existing
<1>6. ASSUME NEW n \in Names, Born(n) PROVE Existing \subseteq Existing'
  BY <1>6 DEF Born, TypeOK, Existing
<1>7. ASSUME NEW p \in Actors, NEW i \in Instance, Written(p, i)
      PROVE  Existing \subseteq Existing'
  BY <1>2, <1>7, WrittenShape, InstanceConfigAssumption
<1> QED
  BY <1>1, <1>3, <1>4, <1>5, <1>6, <1>7, InstChange

\* An actor whose command is over, stays where it is or goes on: what OwnInv says of it.
Over(p) == pc'[p] = "idle" /\ names'[p] = {}
Stays(p) ==
  /\ pc[p] # "idle" => req'[p] = req[p]
  /\ pc'[p] # "idle" => pc[p] # "idle"
  /\ todo'[p] = todo[p] /\ name'[p] = name[p] /\ names'[p] = names[p] /\ made'[p] = made[p]
Moves(p) ==
  /\ pc[p] # "idle" /\ req'[p] = req[p] /\ name'[p] = name[p] /\ names'[p] = names[p]
  /\ made'[p] = made[p]
  /\ \/ Tail(todo[p]) # <<>> /\ todo'[p] = Tail(todo[p])
     \/ req[p].verb # "import"
  /\ Stage(p) \notin {"names", "import", "find"}

\* Each keeps it so.
LEMMA OwnKept ==
  ASSUME TypeOK, CourseInv, OwnInv, UNCHANGED regime, Kind => Existing \subseteq Existing',
         NEW p \in Actors, Over(p) \/ Stays(p) \/ Moves(p)
  PROVE  /\ pc'[p] # "idle" => req'[p] \in regime'.requests
         /\ Kind => names'[p] \subseteq Existing'
         /\ Kind /\ pc'[p] # "idle" /\ req'[p].verb = "import" => Own(p)'
<1>1. CASE Over(p)
  BY <1>1 DEF Over
<1>2. CASE Stays(p)
  <2>1. pc'[p] # "idle" => req'[p] \in regime'.requests
    BY <1>2 DEF Stays, OwnInv
  <2>2. Kind => names'[p] \subseteq Existing'
    BY <1>2 DEF Stays, OwnInv
  <2>3. ASSUME Kind, pc'[p] # "idle", req'[p].verb = "import"
        PROVE  Own(p)'
    <3>1. Own(p)
      BY <1>2, <2>3 DEF Stays, OwnInv
    <3> QED
      BY <1>2, <2>3, <3>1 DEF Stays, Own, Stage
  <2> QED
    BY <2>1, <2>2, <2>3
<1>3. CASE Moves(p)
  <2>1. req'[p] \in regime'.requests
    BY <1>3 DEF Moves, OwnInv
  <2>2. Kind => names'[p] \subseteq Existing'
    BY <1>3 DEF Moves, OwnInv
  <2>3. ASSUME Kind, req'[p].verb = "import"
        PROVE  Own(p)'
    <3>1. Knows(p) /\ Own(p) /\ req[p].verb = "import"
      BY <1>3, <2>3 DEF Moves, OwnInv, CourseInv
    <3>2. Tail(todo[p]) # <<>> /\ todo'[p] = Tail(todo[p])
      BY <1>3, <3>1 DEF Moves
    <3>3. /\ Stage(p) \in {"mode", "renet", "security"}
          /\ Head(Tail(todo[p])) \in {"mode", "renet", "security"}
      BY <1>3, <3>1, <3>2, ImportTail DEF Knows, Stage, Moves
    <3> QED
      BY <1>3, <3>1, <3>2, <3>3 DEF Moves, Own, Stage
  <2> QED
    BY <2>1, <2>2, <2>3
<1> QED
  BY <1>1, <1>2, <1>3

\* No step changes the regime.
LEMMA RegimeKept ==
  ASSUME [Next]_vars
  PROVE  UNCHANGED regime
<1>1. ASSUME NEW q \in Actors, NEW r \in regime.requests, NEW e \in regime.envs, Begin(q, r, e)
      PROVE  UNCHANGED regime
  BY <1>1 DEF Begin
<1>2. ASSUME NEW q \in Actors,
             Look(q) \/ Missing(q) \/ ReadMode(q) \/ Read(q) \/ Put(q) \/ ReadNet(q)
      PROVE  UNCHANGED regime
  BY <1>2 DEF Look, Missing, ReadMode, Read, Put, ReadNet, fixed
<1>3. ASSUME NEW q \in Actors,
             PutNet(q) \/ Boot(q) \/ Await(q) \/ Halt(q) \/ Delete(q) \/ Create(q)
      PROVE  UNCHANGED regime
  BY <1>3 DEF PutNet, Boot, Await, Halt, Delete, Create, fixed
<1>4. ASSUME NEW q \in Actors, ListNames(q) \/ ImportBackup(q) \/ FindImported(q)
                                \/ Export(q) \/ Refused(q)
      PROVE  UNCHANGED regime
  BY <1>4 DEF ListNames, ImportBackup, FindImported, Export, Refused, fixed
<1>5. ASSUME NEW n \in Names, Lease(n)
      PROVE  UNCHANGED regime
  BY <1>5 DEF Lease, fixed
<1> QED
  BY <1>1, <1>2, <1>3, <1>4, <1>5 DEF Next, Step, vars

\* Every step of an import, and of whoever makes containers meanwhile, keeps it so.
LEMMA OwnStep ==
  TypeOK /\ CourseInv /\ BackupInv /\ OwnInv /\ [Next]_vars => OwnInv'
<1> SUFFICES ASSUME TypeOK, CourseInv, BackupInv, OwnInv, [Next]_vars
             PROVE  OwnInv'
  OBVIOUS
<1>t. WorkType /\ HostType
  BY DEF TypeOK, WorkType, HostType
<1>r. UNCHANGED regime
  BY RegimeKept
<1>g. Kind => Existing \subseteq Existing'
  BY Grows
<1> DEFINE Good(q) ==
      /\ pc'[q] # "idle" => req'[q] \in regime'.requests
      /\ Kind => names'[q] \subseteq Existing'
      /\ Kind /\ pc'[q] # "idle" /\ req'[q].verb = "import" => Own(q)'
<1>k. ASSUME NEW q \in Actors, Over(q) \/ Stays(q) \/ Moves(q) PROVE Good(q)
  BY <1>r, <1>g, <1>k, OwnKept
<1>o. (\A q \in Actors : Good(q)) => OwnInv'
  BY <1>r DEF OwnInv, Kind
<1> HIDE DEF Good
<1>1. ASSUME NEW p \in Actors, Finish(p) PROVE \A q \in Actors : Good(q)
  <2>1. \A q \in Actors : Over(q) \/ Stays(q)
    BY <1>t, <1>1 DEF Finish, Over, Stays, WorkType
  <2> QED
    BY <2>1, <1>k
<1>2. ASSUME NEW p \in Actors, pc[p] # "idle", NEW ss, NEW m, Proceed(p, ss, name[p], m),
             Stage(p) \notin {"names", "import", "find"},
             ss = Tail(todo[p]) \/ req[p].verb # "import"
      PROVE  \A q \in Actors : Good(q)
  <2>1. CASE Finish(p)
    BY <1>1, <2>1
  <2>2. CASE ~Finish(p)
    <3>1. /\ ss # <<>> /\ pc' = [pc EXCEPT ![p] = "read"] /\ todo' = [todo EXCEPT ![p] = ss]
          /\ name' = [name EXCEPT ![p] = name[p]] /\ UNCHANGED <<req, names, made>>
      BY <1>2, <2>2 DEF Proceed
    <3>2. \A q \in Actors : q # p => Stays(q)
      BY <1>t, <3>1 DEF Stays, WorkType
    <3>3. Moves(p)
      BY <1>t, <1>2, <3>1 DEF Moves, WorkType
    <3> QED
      BY <3>2, <3>3, <1>k
  <2> QED
    BY <2>1, <2>2
<1>3. ASSUME NEW p \in Actors, pc[p] # "idle", Continue(p),
             Stage(p) \notin {"names", "import", "find"}
      PROVE  \A q \in Actors : Good(q)
  BY <1>2, <1>3 DEF Continue
<1>4. ASSUME NEW p \in Actors, pc[p] # "idle", NEW place, pc' = [pc EXCEPT ![p] = place],
             UNCHANGED <<req, todo, name, names, made>>
      PROVE  \A q \in Actors : Good(q)
  <2>1. \A q \in Actors : Stays(q)
    BY <1>t, <1>4 DEF Stays, WorkType
  <2> QED
    BY <2>1, <1>k
<1>5. ASSUME NEW p \in Actors, pc[p] # "idle", Ensured(p) PROVE \A q \in Actors : Good(q)
  BY <1>3, <1>4, <1>5 DEF Ensured
<1>6. ASSUME NEW p \in Actors, NEW r \in regime.requests, NEW e \in regime.envs, Begin(p, r, e)
      PROVE  \A q \in Actors : Good(q)
  <2>1. /\ \A q \in Actors : q # p => Stays(q)
        /\ req'[p] = r /\ todo'[p] = Plan(r) /\ names'[p] = names[p] /\ UNCHANGED inst
    BY <1>t, <1>6 DEF Begin, Stays, WorkType
  <2>2. r \in Request
    BY <1>t, RegimeTypes DEF HostType
  <2>3. r.verb = "import" => Own(p)'
    BY <2>1, <2>2, ImportHead DEF Own, Stage
  <2>4. Kind => names'[p] \subseteq Existing'
    BY <2>1 DEF OwnInv, Existing
  <2>5. Good(p)
    BY <1>r, <2>1, <2>3, <2>4 DEF Good
  <2> QED
    BY <2>1, <2>5, <1>k
<1>7. ASSUME NEW p \in Actors, Look(p) PROVE \A q \in Actors : Good(q)
  <2>1. pc[p] # "idle" /\ Stage(p) \notin {"names", "import", "find"}
    BY <1>7 DEF Look, At
  <2> DEFINE ss == <<"await", "refresh">>
  <2>2. \/ Finish(p) \/ Continue(p)
        \/ req[p].verb # "import" /\ Proceed(p, ss, name[p], want[p])
    BY <1>7 DEF Look
  <2> HIDE DEF ss
  <2> QED
    BY <2>1, <2>2, <1>1, <1>2, <1>3
<1>8. ASSUME NEW p \in Actors, Missing(p) \/ Refused(p) PROVE \A q \in Actors : Good(q)
  BY <1>1, <1>8 DEF Missing, Refused
<1>9. ASSUME NEW p \in Actors, ReadMode(p) PROVE \A q \in Actors : Good(q)
  BY <1>2, <1>9 DEF ReadMode, At
<1>10. ASSUME NEW p \in Actors, Read(p) PROVE \A q \in Actors : Good(q)
  <2>1. pc[p] # "idle" /\ Stage(p) \notin {"names", "import", "find"}
    BY <1>10 DEF Read
  <2>2. \/ Finish(p) \/ Continue(p)
        \/ /\ pc' = [pc EXCEPT ![p] = IF Stage(p) \in {"soft", "renet"} THEN "net" ELSE "put"]
           /\ UNCHANGED <<req, todo, name, names, made>>
    BY <1>10 DEF Read
  <2> QED
    BY <2>1, <2>2, <1>1, <1>3, <1>4
<1>11. ASSUME NEW p \in Actors, Put(p) PROVE \A q \in Actors : Good(q)
  <2>1. pc[p] # "idle" /\ Stage(p) \notin {"names", "import", "find"}
    BY <1>11 DEF Put, CourseInv, Knows
  <2> QED
    BY <2>1, <1>1, <1>3, <1>11 DEF Put
<1>12. ASSUME NEW p \in Actors, ReadNet(p) PROVE \A q \in Actors : Good(q)
  <2>1. pc[p] # "idle"
    BY <1>12 DEF ReadNet, At
  <2>2. \/ Finish(p) \/ Ensured(p)
        \/ pc' = [pc EXCEPT ![p] = "netput"] /\ UNCHANGED <<req, todo, name, names, made>>
    BY <1>12 DEF ReadNet
  <2> QED
    BY <2>1, <2>2, <1>1, <1>4, <1>5
<1>13. ASSUME NEW p \in Actors, PutNet(p) PROVE \A q \in Actors : Good(q)
  BY <1>1, <1>5, <1>13 DEF PutNet
<1>14. ASSUME NEW p \in Actors, Boot(p) \/ Await(p) \/ Halt(p) \/ Delete(p) \/ Export(p)
       PROVE  \A q \in Actors : Good(q)
  <2>1. /\ pc[p] # "idle" /\ Stage(p) \notin {"names", "import", "find"}
        /\ Finish(p) \/ Continue(p)
    BY <1>14 DEF Boot, Await, Halt, Delete, Export, At
  <2> QED
    BY <2>1, <1>1, <1>3
<1>15. ASSUME NEW p \in Actors, pc[p] # "idle", NEW i \in Instance, Make(p, name[p], i),
              Stage(p) \in {"create", "import"}
       PROVE  \A q \in Actors : Good(q)
  <2>1. CASE Finish(p)
    BY <1>1, <2>1
  <2>2. CASE ~Finish(p)
    <3>1. /\ inst[name[p]] = None /\ inst' = [inst EXCEPT ![name[p]] = i]
          /\ todo' = [todo EXCEPT ![p] = Tail(todo[p])]
          /\ made' = [made EXCEPT ![p] = made[p] \cup {name[p]}]
          /\ UNCHANGED <<pc, req, name, names>>
      BY <1>15, <2>2 DEF Make, Set
    <3>2. \A q \in Actors : q # p => Stays(q)
      BY <1>t, <3>1 DEF Stays, WorkType
    <3>3. name[p] \in Names /\ name[p] \in made'[p] /\ name[p] \in Existing'
      BY <1>t, <1>15, <3>1, MineType, InstanceConfigAssumption DEF Existing, HostType, WorkType
    <3>4. Kind => name[p] \notin names[p]
      BY <3>1 DEF OwnInv, Existing
    <3>5. Kind => Own(p)'
      BY <3>1, <3>3, <3>4 DEF Own
    <3>6. Good(p)
      BY <1>r, <1>g, <1>15, <3>1, <3>5 DEF Good, OwnInv
    <3> QED
      BY <3>2, <3>6, <1>k
  <2> QED
    BY <2>1, <2>2
<1>16. ASSUME NEW p \in Actors, Create(p) PROVE \A q \in Actors : Good(q)
  <2>1. pc[p] # "idle" /\ Stage(p) = "create" /\ Knows(p) /\ want[p] \in Modes
    BY <1>16 DEF Create, At, CourseInv, Knows, Needing
  <2>2. PICK m \in FreeMACs : Make(p, name[p], Fresh(m, want[p]))
    BY <1>16 DEF Create, Fresh
  <2>3. Fresh(m, want[p]) \in Instance
    BY <2>1 DEF Fresh, Instance, Ports, Mounts, FreeMACs
  <2> QED
    BY <2>1, <2>2, <2>3, <1>15
<1>17. ASSUME NEW p \in Actors, ImportBackup(p) PROVE \A q \in Actors : Good(q)
  <2>1. pc[p] # "idle" /\ Stage(p) = "import" /\ Knows(p)
    BY <1>17 DEF ImportBackup, At, CourseInv
  <2>2. backup \in Instance
    BY <1>t, <2>1, StageOf DEF Knows, Stage, BackupInv, HostType
  <2>3. PICK m \in FreeMACs : Make(p, name[p], [backup EXCEPT !.mac = m])
    BY <1>17 DEF ImportBackup
  <2>4. [backup EXCEPT !.mac = m] \in Instance
    BY <2>2, InstanceFields, ZenonT(60) DEF FreeMACs
  <2> QED
    BY <2>1, <2>3, <2>4, <1>15
<1>18. ASSUME NEW p \in Actors, ListNames(p) PROVE \A q \in Actors : Good(q)
  <2>1. /\ pc[p] # "idle" /\ Stage(p) = "names" /\ todo' = [todo EXCEPT ![p] = Tail(todo[p])]
        /\ names' = [names EXCEPT ![p] = Existing] /\ UNCHANGED <<inst, pc, req, name, made>>
    BY <1>18 DEF ListNames, At
  <2>2. \A q \in Actors : q # p => Stays(q)
    BY <1>t, <2>1 DEF Stays, WorkType
  <2>3. Knows(p)
    BY <2>1 DEF CourseInv
  <2>4. req[p].verb = "import"
    BY <2>1, <2>3, StageOf DEF Knows, Stage
  <2>5. todo'[p] = Tail(todo[p]) /\ Tail(todo[p]) # <<>>
    <3>1. Tail(todo[p]) \in Course(req[p])
      BY <2>1, <2>3, MakeTail DEF Knows, Stage
    <3> QED
      BY <1>t, <2>1, <2>3, <3>1, TailCourse DEF Knows, WorkType
  <2>6. Head(Tail(todo[p])) = "import"
    BY <2>1, <2>3, <2>4, <2>5, ImportTail DEF Knows, Stage
  <2>7. Own(p)'
    BY <2>5, <2>6 DEF Own, Stage
  <2>8. names'[p] \subseteq Existing'
    BY <1>t, <2>1 DEF WorkType, Existing
  <2>9. Good(p)
    BY <1>r, <2>1, <2>7, <2>8 DEF Good, OwnInv
  <2> QED
    BY <2>2, <2>9, <1>k
<1>19. ASSUME NEW p \in Actors, FindImported(p) PROVE \A q \in Actors : Good(q)
  <2>1. CASE Finish(p)
    BY <1>1, <2>1
  <2>2. ASSUME NEW n \in Names, Existing \ names[p] = {n}, ~Finish(p),
               Proceed(p, Tail(todo[p]), n, want[p])
        PROVE  \A q \in Actors : Good(q)
    <3>1. /\ pc[p] # "idle" /\ Stage(p) = "find"
          /\ Tail(todo[p]) # <<>> /\ pc' = [pc EXCEPT ![p] = "read"]
          /\ todo' = [todo EXCEPT ![p] = Tail(todo[p])]
          /\ name' = [name EXCEPT ![p] = n] /\ UNCHANGED <<req, names, made>>
      BY <1>19, <2>2 DEF Proceed, FindImported, At
    <3>2. \A q \in Actors : q # p => Stays(q)
      BY <1>t, <3>1 DEF Stays, WorkType
    <3>3. Knows(p)
      BY <3>1 DEF CourseInv
    <3>4. req[p].verb = "import"
      BY <3>1, <3>3, StageOf DEF Knows, Stage
    <3>5. Kind => n \in made[p]
      BY <2>2, <3>1, <3>4 DEF OwnInv, Own
    <3>6. Head(Tail(todo[p])) \in {"mode", "renet", "security"}
      BY <3>1, <3>3, <3>4, ImportTail DEF Knows, Stage
    <3>7. todo'[p] = Tail(todo[p]) /\ name'[p] = n /\ made'[p] = made[p]
      BY <1>t, <3>1 DEF WorkType
    <3>8. Kind => Own(p)'
      BY <3>5, <3>6, <3>7 DEF Own, Stage
    <3>9. Good(p)
      BY <1>r, <1>g, <3>1, <3>8 DEF Good, OwnInv
    <3> QED
      BY <3>2, <3>9, <1>k
  <2> QED
    BY <1>19, <2>1, <2>2 DEF FindImported
<1>20. ASSUME NEW n \in Names, Lease(n) PROVE \A q \in Actors : Good(q)
  <2>1. \A q \in Actors : Stays(q)
    BY <1>20 DEF Lease, work, Stays
  <2> QED
    BY <2>1, <1>k
<1>21. CASE UNCHANGED vars
  <2>1. \A q \in Actors : Stays(q)
    BY <1>21 DEF vars, work, Stays
  <2> QED
    BY <2>1, <1>k, <1>o
<1> QED
  BY <1>o, <1>6, <1>7, <1>8, <1>9, <1>10, <1>11, <1>12, <1>13, <1>14, <1>16, <1>17, <1>18,
     <1>19, <1>20, <1>21 DEF Next, Step

\* ImportOwn: while nobody removes containers, the one new name is the import's own,
\* or it gives up; it never configures a container somebody else made
\* (findImportedContainerName).
THEOREM OwnContainer == Spec => []ImportOwn
<1>1. Init => TypeOK /\ CourseInv /\ BackupInv /\ OwnInv
  <2>1. Init => OwnInv
    BY DEF Init, OwnInv
  <2> QED
    BY <2>1, TypeInit
<1>2. TypeOK /\ CourseInv /\ BackupInv /\ OwnInv /\ [Next]_vars
        => (TypeOK /\ CourseInv /\ BackupInv /\ OwnInv)'
  BY TypeStep, BackupStep, OwnStep
<1>3. OwnInv => ImportOwn
  BY DEF OwnInv, Kind, Own, ImportOwn
<1> QED
  BY <1>1, <1>2, <1>3, PTL DEF Spec

---------------------------------------------------------------------------
(* Ports                                                                   *)

\* A running container whose mappings all lead to its address.
Current(i) ==
  /\ i.run /\ i.addr # None
  /\ \A h \in HostPorts : i.ports[h] # None => i.ports[h].at = i.addr /\ i.ports[h].dual

\* Only what runs has an address, and its start was one of those so far.
Numbered(i) == i.boots <= starts /\ (i.addr # None => i.run)

\* Places where a command remembers the instance it read.
Has(p) == pc[p] \in {"net", "put"} \/ (pc[p] = "netput" /\ Stage(p) # "ensure")

\* A container that has been running since a command read it has kept the address
\* it had then, and a refresh that writes has read one.
Recalled(p) ==
  /\ Numbered(snap[p])
  /\ Stage(p) = "refresh" => snap[p].addr # None
  /\ (/\ Mine(p) # None /\ Mine(p).run /\ snap[p].run /\ Mine(p).boots = snap[p].boots
      /\ snap[p].addr # None)
     => Mine(p).addr = snap[p].addr

PortInv ==
  /\ \A n \in Names : inst[n] # None => Numbered(inst[n])
  /\ backup # None => ~backup.run /\ backup.addr = None /\ backup.boots = 0
  /\ \A n \in refreshed : inst[n] # None /\ Current(inst[n])
  /\ \A p \in Actors : Has(p) => Recalled(p)

\* An ETag that is the same is that of the same start.
LEMMA SameBoots ==
  ASSUME NEW i \in Instance, NEW j \in Instance, Same(i, j), i.run
  PROVE  i.boots = j.boots
<1>1. i.run = j.run
  BY SameFields
<1>2. ETag(i) = ETag(j)
  BY DEF Same
<1>3. \A k \in Instance : k.run => ETag(k).boots = k.boots
  BY DEF ETag, Instance
<1> QED
  BY <1>1, <1>2, <1>3

\* Policy and network have nothing to do with the mappings.
LEMMA PortsApart ==
  ASSUME NEW p \in Actors, Knows(p), NEW i \in Instance,
         Stage(p) \in {"security", "soft", "renet"}, NEW x \in Edited(p, i)
  PROVE  x.ports = i.ports
<1>1. CASE Stage(p) = "security"
  BY <1>1 DEF Edited, Instance
<1>2. CASE Stage(p) \in {"soft", "renet"}
  <2>1. want[p] \in Modes
    BY <1>2 DEF Knows, Needing
  <2>2. NewNet(i, x)
    BY <1>2, <2>1 DEF Edited, NewNet
  <2> QED
    BY <2>2 DEF NewNet, Instance
<1> QED
  BY <1>1, <1>2

\* An edit adds no mapping but to the address in the copy, and a refresh leaves
\* no other.
LEMMA EditedPorts ==
  ASSUME regime \in Regimes, NEW p \in Actors, Knows(p), NEW i \in Instance,
         Stage(p) \in {"edit", "security", "refresh", "soft", "renet"}, NEW x \in Edited(p, i),
         NEW h \in HostPorts, x.ports[h] # None
  PROVE  \/ Stage(p) # "refresh" /\ x.ports[h] = i.ports[h]
         \/ i.addr # None /\ x.ports[h].at = i.addr /\ x.ports[h].dual
         \/ Stage(p) = "refresh" /\ i.addr = None
<1>r. req[p] \in Request
  BY DEF Knows
<1>i. i.ports \in Ports
  BY InstanceFields, ZenonT(60)
<1>1. CASE Stage(p) \in {"security", "soft", "renet"}
  BY <1>1, PortsApart
<1>2. CASE Stage(p) = "refresh" /\ i.addr # None
  <2> DEFINE new == [k \in HostPorts |->
                       IF i.ports[k] = None THEN None
                       ELSE [to |-> i.ports[k].to, at |-> i.addr, dual |-> TRUE]]
  <2>1. x = [i EXCEPT !.ports = new]
    BY <1>2 DEF Edited, Refresh
  <2>2. x.ports = new
    BY <2>1 DEF Instance
  <2>3. new[h] = IF i.ports[h] = None THEN None
                 ELSE [to |-> i.ports[h].to, at |-> i.addr, dual |-> TRUE]
    OBVIOUS
  <2> HIDE DEF new
  <2>4. x.ports[h] = [to |-> i.ports[h].to, at |-> i.addr, dual |-> TRUE]
    BY <2>2, <2>3
  <2> QED
    BY <1>2, <2>4
<1>3. CASE Stage(p) = "edit"
  <2> DEFINE r == req[p]
  <2>v. r.verb \in {"autostart", "port", "unport", "mount", "unmount", "remount"}
    BY <1>3, <1>r, StageOf DEF Knows, Stage
  <2>e. x \in EditedBy(r, i)
    BY <1>3 DEF Edited
  <2>1. CASE r.verb = "autostart"
    BY <1>3, <2>e, <2>1 DEF EditedBy, SetAutostart, Instance
  <2>2. CASE r.verb = "port"
    <3> DEFINE v == [to |-> r.value, at |-> i.addr, dual |-> TRUE]
    <3>1. i.addr # None /\ x = [i EXCEPT !.ports = [i.ports EXCEPT ![r.key] = v]]
      BY <2>e, <2>2 DEF EditedBy, AddPort
    <3>2. v.at = i.addr /\ v.dual
      OBVIOUS
    <3> HIDE DEF v
    <3>3. x.ports = [i.ports EXCEPT ![r.key] = v]
      BY <3>1 DEF Instance
    <3>4. x.ports[h] = v \/ x.ports[h] = i.ports[h]
      BY <1>i, <3>3 DEF Ports
    <3> QED
      BY <1>3, <3>1, <3>2, <3>4
  <2>3. CASE r.verb = "unport"
    <3>1. x = [i EXCEPT !.ports = [i.ports EXCEPT ![r.key] = None]]
      BY <2>e, <2>3 DEF EditedBy, RemovePort
    <3>2. x.ports = [i.ports EXCEPT ![r.key] = None]
      BY <3>1 DEF Instance
    <3> QED
      BY <1>3, <1>i, <3>2 DEF Ports
  <2>4. CASE r.verb \in {"mount", "remount", "unmount"}
    <3>1. \E ms : x = [i EXCEPT !.mounts = ms]
      BY <2>e, <2>4 DEF EditedBy, AddMount, UpdateMount, RemoveMount
    <3>2. x.ports = i.ports
      BY <3>1 DEF Instance
    <3> QED
      BY <1>3, <3>2
  <2> QED
    BY <2>v, <2>1, <2>2, <2>3, <2>4
<1>4. CASE Stage(p) = "refresh" /\ i.addr = None
  BY <1>4
<1> QED
  BY <1>1, <1>2, <1>3, <1>4

\* What becomes of a container that is there after a step: it lives on, with its
\* address or its first one; it is started; or it is at rest.
Lives(n) ==
  /\ inst[n] # None /\ inst'[n].run = inst[n].run /\ inst'[n].boots = inst[n].boots
  /\ inst'[n].addr = inst[n].addr \/ (inst[n].run /\ inst[n].addr = None)
Starts(n) ==
  /\ \E p \in Actors : At(p, "read", "boot") /\ name[p] = n
  /\ inst[n] # None /\ inst'[n].run /\ inst'[n].boots = starts + 1 /\ starts' = starts + 1
Rests(n) == ~inst'[n].run /\ inst'[n].addr = None /\ inst'[n].boots <= starts

\* A write changes neither the start nor the lease of a container.
LEMMA WrittenAlive ==
  ASSUME TypeOK, NEW p \in Actors, NEW i \in Instance, Written(p, i)
  PROVE  /\ name[p] \in Names /\ Mine(p) \in Instance
         /\ \A n \in Names : n # name[p] => inst'[n] = inst[n]
         /\ inst'[name[p]].run = Mine(p).run /\ inst'[name[p]].boots = Mine(p).boots
         /\ inst'[name[p]].addr = Mine(p).addr /\ inst'[name[p]].ports = i.ports
         /\ inst'[name[p]] # None
<1> DEFINE j == [i EXCEPT !.addr = Mine(p).addr, !.boots = Mine(p).boots]
<1>1. /\ name[p] \in Names /\ Mine(p) \in Instance /\ snap[p] \in Instance
      /\ snap[p].run = Mine(p).run
  BY WrittenShape DEF Written, Mine
<1>2. i.run = snap[p].run
  BY <1>1, WrittenShape, EditedRun
<1>3. j.run = i.run /\ j.boots = Mine(p).boots /\ j.addr = Mine(p).addr /\ j.ports = i.ports
  BY DEF Instance
<1>4. j # None
  <2>1. j \in Instance
    BY <1>1, InstanceFields, ZenonT(60)
  <2> QED
    BY <2>1, InstanceConfigAssumption
<1>5. inst' = [inst EXCEPT ![name[p]] = j]
  BY DEF Written
<1> HIDE DEF j
<1>6. inst'[name[p]] = j /\ \A n \in Names : n # name[p] => inst'[n] = inst[n]
  BY <1>1, <1>5 DEF TypeOK
<1> QED
  BY <1>1, <1>2, <1>3, <1>4, <1>6

\* Steps that concern neither the instances nor what has been refreshed.
Aside(p) ==
  \/ Look(p) \/ Missing(p) \/ ReadMode(p) \/ ReadNet(p) \/ PutNet(p) \/ Await(p)
  \/ ListNames(p) \/ FindImported(p) \/ Export(p) \/ Refused(p)

\* They are what they seem.
LEMMA AsideSame ==
  ASSUME NEW p \in Actors, Aside(p)
  PROVE  UNCHANGED <<inst, refreshed, starts>>
<1>1. CASE Look(p) \/ Missing(p) \/ ReadMode(p) \/ ReadNet(p) \/ PutNet(p)
  BY <1>1 DEF Look, Missing, ReadMode, ReadNet, PutNet, fixed
<1>2. CASE Await(p) \/ ListNames(p) \/ FindImported(p) \/ Export(p) \/ Refused(p)
  BY <1>2 DEF Await, ListNames, FindImported, Export, Refused, fixed
<1> QED
  BY <1>1, <1>2 DEF Aside

\* A new container is at rest.
LEMMA NewRests ==
  ASSUME TypeOK, CourseInv, BackupInv, PortInv, NEW p \in Actors,
         Create(p) \/ ImportBackup(p)
  PROVE  /\ UNCHANGED <<refreshed, starts>>
         /\ \/ UNCHANGED inst
            \/ \E n \in Names, i \in Instance :
                 /\ inst[n] = None /\ inst' = [inst EXCEPT ![n] = i]
                 /\ ~i.run /\ i.addr = None /\ i.boots = 0
<1>t. HostType /\ WorkType
  BY DEF TypeOK, HostType, WorkType
<1>1. CASE Create(p)
  <2>1. name[p] \in Names /\ Knows(p) /\ Stage(p) = "create"
    BY <1>t, <1>1, MineType DEF Create, At
  <2>2. want[p] \in Modes
    BY <2>1 DEF Knows, Needing
  <2>3. PICK m \in FreeMACs : Make(p, name[p], Fresh(m, want[p]))
    BY <1>1 DEF Create, Fresh
  <2> DEFINE i == Fresh(m, want[p])
  <2>4. i \in Instance /\ ~i.run /\ i.addr = None /\ i.boots = 0
    BY <2>2 DEF Fresh, Instance, Ports, Mounts, FreeMACs
  <2> HIDE DEF i
  <2>5. \/ UNCHANGED inst
        \/ inst[name[p]] = None /\ inst' = [inst EXCEPT ![name[p]] = i]
    BY <2>3 DEF Make, Set, i
  <2> QED
    BY <1>1, <2>1, <2>4, <2>5 DEF Create, fixed
<1>2. CASE ImportBackup(p)
  <2>1. name[p] \in Names /\ Knows(p) /\ Stage(p) = "import" /\ pc[p] # "idle"
    BY <1>t, <1>2, MineType DEF ImportBackup, At
  <2>2. backup # None /\ backup \in Instance
    BY <1>t, <2>1, StageOf DEF Knows, Stage, BackupInv, HostType
  <2>3. PICK m \in FreeMACs : Make(p, name[p], [backup EXCEPT !.mac = m])
    BY <1>2 DEF ImportBackup
  <2> DEFINE i == [backup EXCEPT !.mac = m]
  <2>4. i \in Instance
    BY <2>2, InstanceFields, ZenonT(60) DEF FreeMACs
  <2>5. i.run = backup.run /\ i.addr = backup.addr /\ i.boots = backup.boots
    BY <2>2 DEF Instance
  <2> HIDE DEF i
  <2>6. \/ UNCHANGED inst
        \/ inst[name[p]] = None /\ inst' = [inst EXCEPT ![name[p]] = i]
    BY <2>3 DEF Make, Set, i
  <2>7. ~i.run /\ i.addr = None /\ i.boots = 0
    BY <2>2, <2>5 DEF PortInv
  <2> QED
    BY <1>2, <2>1, <2>4, <2>6, <2>7 DEF ImportBackup, fixed
<1> QED
  BY <1>1, <1>2

\* The steps of one container that Incus makes at a command's request or by itself.
Booted(n) ==
  /\ \E p \in Actors : At(p, "read", "boot") /\ name[p] = n
  /\ ~inst[n].run /\ starts' = starts + 1 /\ UNCHANGED refreshed
  /\ \E a \in Addrs \cup {None} :
       Set(n, [inst[n] EXCEPT !.run = TRUE, !.boots = starts + 1, !.addr = a])
Leased(n) ==
  /\ inst[n].run /\ inst[n].addr = None /\ UNCHANGED <<starts, refreshed>>
  /\ \E a \in Addrs : Set(n, [inst[n] EXCEPT !.addr = a])
Halted(n) ==
  /\ Set(n, [inst[n] EXCEPT !.run = FALSE, !.addr = None])
  /\ UNCHANGED starts /\ refreshed' = refreshed \ {n}
Deleted(n) == ~inst[n].run /\ Set(n, None) /\ UNCHANGED <<starts, refreshed>>
There(n) == inst[n] # None /\ inst[n] \in Instance

\* They are all there are beside edits and creations.
LEMMA HostSteps ==
  ASSUME TypeOK, CourseInv, [Next]_vars
  PROVE  \/ UNCHANGED <<inst, refreshed, starts>>
         \/ \E p \in Actors : Read(p) \/ Put(p) \/ Create(p) \/ ImportBackup(p)
         \/ \E n \in Names : There(n) /\ (Booted(n) \/ Leased(n) \/ Halted(n) \/ Deleted(n))
<1>t. HostType /\ WorkType
  BY DEF TypeOK, HostType, WorkType
<1>1. ASSUME NEW p \in Actors, Aside(p) PROVE UNCHANGED <<inst, refreshed, starts>>
  BY <1>1, AsideSame
<1>2. ASSUME NEW p \in Actors, NEW r, NEW e, Begin(p, r, e) PROVE UNCHANGED <<inst, refreshed, starts>>
  BY <1>2 DEF Begin
<1>3. ASSUME NEW p \in Actors, Boot(p) \/ Halt(p) \/ Delete(p)
      PROVE  name[p] \in Names /\ There(name[p])
  <2>1. pc[p] # "idle" /\ Mine(p) # None
    BY <1>3 DEF Boot, Halt, Delete, At
  <2> QED
    BY <1>t, <2>1, MineType DEF There, Mine
<1>4. ASSUME NEW p \in Actors, Boot(p) PROVE Booted(name[p]) \/ UNCHANGED <<inst, refreshed, starts>>
  BY <1>4 DEF Boot, Booted, Mine
<1>5. ASSUME NEW p \in Actors, Halt(p) PROVE Halted(name[p])
  BY <1>5 DEF Halt, Halted, Mine, fixed
<1>6. ASSUME NEW p \in Actors, Delete(p) PROVE Deleted(name[p]) \/ UNCHANGED <<inst, refreshed, starts>>
  BY <1>6 DEF Delete, Deleted, Mine, fixed
<1>7. ASSUME NEW n \in Names, Lease(n) PROVE There(n) /\ Leased(n)
  BY <1>t, <1>7, InstanceConfigAssumption DEF Lease, Leased, There, HostType
<1>8. CASE UNCHANGED vars
  BY <1>8 DEF vars
<1> QED
  BY <1>1, <1>2, <1>3, <1>4, <1>5, <1>6, <1>7, <1>8 DEF Next, Step, Aside

\* Each container takes one of its courses.
LEMMA InstanceCourse ==
  ASSUME TypeOK, CourseInv, BackupInv, PortInv, [Next]_vars, NEW n \in Names, inst'[n] # None
  PROVE  Lives(n) \/ Starts(n) \/ Rests(n)
<1>s. starts \in Nat /\ (inst[n] # None => inst[n] \in Instance)
  BY DEF TypeOK
<1>o. inst'[n] = inst[n] => Lives(n)
  BY DEF Lives
<1>1. ASSUME UNCHANGED inst \/ \E p \in Actors : Read(p) PROVE Lives(n)
  BY <1>1, <1>o DEF Read
<1>2. ASSUME NEW p \in Actors, Put(p) PROVE Lives(n)
  <2>1. UNCHANGED inst \/ \E i \in Instance : Written(p, i)
    BY <1>2, PutWrites
  <2>2. ASSUME NEW i \in Instance, Written(p, i) PROVE Lives(n)
    <3>1. CASE n = name[p]
      BY <2>2, <3>1, WrittenAlive, InstanceConfigAssumption DEF Lives, Mine
    <3>2. CASE n # name[p]
      BY <2>2, <3>2, <1>o, WrittenAlive
    <3> QED
      BY <3>1, <3>2
  <2> QED
    BY <1>o, <2>1, <2>2
<1>3. ASSUME NEW p \in Actors, Create(p) \/ ImportBackup(p) PROVE Lives(n) \/ Rests(n)
  <2>1. ASSUME NEW k \in Names, NEW i \in Instance, inst' = [inst EXCEPT ![k] = i],
               ~i.run, i.addr = None, i.boots = 0
        PROVE  Lives(n) \/ Rests(n)
    <3>1. CASE k = n
      <4>1. inst'[n] = i
        BY <2>1, <3>1 DEF TypeOK
      <4> QED
        BY <1>s, <2>1, <4>1 DEF Rests
    <3>2. CASE k # n
      BY <2>1, <3>2, <1>o DEF TypeOK
    <3> QED
      BY <3>1, <3>2
  <2> QED
    BY <1>3, <1>o, <2>1, NewRests
<1>4. ASSUME NEW k \in Names, There(k), Booted(k) PROVE Lives(n) \/ Starts(n)
  <2>1. PICK a : inst' = [inst EXCEPT ![k] = [inst[k] EXCEPT !.run = TRUE, !.boots = starts + 1,
                                                             !.addr = a]]
    BY <1>4 DEF Booted, Set
  <2>2. CASE k = n
    <3>1. inst'[n] = [inst[n] EXCEPT !.run = TRUE, !.boots = starts + 1, !.addr = a]
      BY <2>1, <2>2 DEF TypeOK
    <3> QED
      BY <1>4, <2>2, <3>1 DEF Booted, There, Starts, Instance
  <2>3. CASE k # n
    BY <1>o, <2>1, <2>3 DEF TypeOK
  <2> QED
    BY <2>2, <2>3
<1>5. ASSUME NEW k \in Names, There(k), Leased(k) PROVE Lives(n)
  <2>1. PICK a : inst' = [inst EXCEPT ![k] = [inst[k] EXCEPT !.addr = a]]
    BY <1>5 DEF Leased, Set
  <2>2. CASE k = n
    <3>1. inst'[n] = [inst[n] EXCEPT !.addr = a]
      BY <2>1, <2>2 DEF TypeOK
    <3> QED
      BY <1>5, <2>2, <3>1 DEF Leased, There, Lives, Instance
  <2>3. CASE k # n
    BY <1>o, <2>1, <2>3 DEF TypeOK
  <2> QED
    BY <2>2, <2>3
<1>6. ASSUME NEW k \in Names, There(k), Halted(k) PROVE Lives(n) \/ Rests(n)
  <2>1. inst' = [inst EXCEPT ![k] = [inst[k] EXCEPT !.run = FALSE, !.addr = None]]
    BY <1>6 DEF Halted, Set
  <2>2. CASE k = n
    <3>1. inst'[n] = [inst[n] EXCEPT !.run = FALSE, !.addr = None]
      BY <2>1, <2>2 DEF TypeOK
    <3>2. ~inst'[n].run /\ inst'[n].addr = None /\ inst'[n].boots = inst[n].boots
      BY <1>6, <2>2, <3>1 DEF There, Instance
    <3> QED
      BY <1>6, <2>2, <3>2 DEF There, Rests, PortInv, Numbered
  <2>3. CASE k # n
    BY <1>o, <2>1, <2>3 DEF TypeOK
  <2> QED
    BY <2>2, <2>3
<1>7. ASSUME NEW k \in Names, Deleted(k) PROVE Lives(n)
  BY <1>7, <1>o DEF Deleted, Set, TypeOK
<1> QED
  BY <1>1, <1>2, <1>3, <1>4, <1>5, <1>6, <1>7, HostSteps

\* The starts are counted.
LEMMA StartsGrow ==
  ASSUME TypeOK, CourseInv, BackupInv, PortInv, [Next]_vars
  PROVE  starts' \in Nat /\ starts <= starts'
<1>1. starts \in Nat
  BY DEF TypeOK
<1>2. starts' = starts \/ starts' = starts + 1
  <2>1. ASSUME NEW p \in Actors, Read(p) \/ Put(p) \/ Create(p) \/ ImportBackup(p)
        PROVE  starts' = starts
    BY <2>1, PutWrites, NewRests DEF Read, fixed
  <2>2. ASSUME NEW n \in Names, Booted(n) \/ Leased(n) \/ Halted(n) \/ Deleted(n)
        PROVE  starts' = starts \/ starts' = starts + 1
    BY <2>2 DEF Booted, Leased, Halted, Deleted
  <2> QED
    BY <2>1, <2>2, HostSteps
<1> QED
  BY <1>1, <1>2

\* A command that remembers an instance after a step remembers the same as before,
\* or has just read it.
Holds(p) ==
  /\ Has(p) /\ snap'[p] = snap[p] /\ name'[p] = name[p] /\ todo'[p] = todo[p]
Takes(p) ==
  /\ UNCHANGED <<inst, starts>> /\ pc[p] # "idle" /\ Mine(p) # None
  /\ snap'[p] = Mine(p) /\ name'[p] = name[p] /\ todo'[p] = todo[p]
  /\ Stage(p) = "refresh" => Mine(p).addr # None

\* There is no third.
LEMMA SnapStep ==
  ASSUME TypeOK, CourseInv, [Next]_vars, NEW q \in Actors, Has(q)'
  PROVE  Holds(q) \/ Takes(q)
<1>t. WorkType
  BY DEF TypeOK, WorkType
<1>h. pc'[q] \in {"net", "put", "netput"} /\ (pc'[q] = "netput" => Head(todo'[q]) # "ensure")
  BY DEF Has, Stage
<1>s. ASSUME pc'[q] = pc[q], todo'[q] = todo[q], snap'[q] = snap[q], name'[q] = name[q]
      PROVE  Holds(q)
  BY <1>s DEF Has, Stage, Holds
<1>f. ASSUME NEW p \in Actors, Finish(p) PROVE q # p /\ Holds(q)
  BY <1>t, <1>h, <1>s, <1>f DEF Finish, WorkType
<1>p. ASSUME NEW p \in Actors, NEW ss, NEW n, NEW m, Proceed(p, ss, n, m) PROVE Holds(q)
  BY <1>t, <1>h, <1>s, <1>f, <1>p DEF Proceed, WorkType
<1>c. ASSUME NEW p \in Actors, Continue(p) PROVE Holds(q)
  BY <1>p, <1>c DEF Continue
<1>g. ASSUME NEW p \in Actors, NEW place, pc' = [pc EXCEPT ![p] = place],
             p = q => Has(p), UNCHANGED <<todo, name, snap>>
      PROVE  Holds(q)
  BY <1>t, <1>s, <1>g DEF Holds, WorkType
<1>e. ASSUME NEW p \in Actors, pc[p] \in {"net", "netput"} \/ Stage(p) = "ensure", Ensured(p)
      PROVE  Holds(q)
  <2>1. CASE Continue(p)
    BY <1>c, <2>1
  <2>2. CASE /\ Stage(p) \in {"renet", "soft"} /\ pc' = [pc EXCEPT ![p] = "put"]
             /\ UNCHANGED <<req, todo, name, want, snap, env, names, made>>
    <3>1. Has(p)
      BY <1>e, <2>2 DEF Has
    <3> QED
      BY <1>g, <2>2, <3>1
  <2> QED
    BY <1>e, <2>1, <2>2 DEF Ensured
<1>m. ASSUME NEW p \in Actors, pc[p] = "read", NEW n, NEW i, Make(p, n, i) PROVE Holds(q)
  <2>1. CASE Finish(p)
    BY <1>f, <2>1
  <2>2. CASE todo' = [todo EXCEPT ![p] = Tail(todo[p])] /\ UNCHANGED <<pc, name, snap>>
    BY <1>t, <1>h, <1>m, <1>s, <2>2 DEF WorkType
  <2> QED
    BY <1>m, <2>1, <2>2 DEF Make
<1>1. ASSUME NEW p \in Actors, NEW r, NEW e, Begin(p, r, e) PROVE Holds(q)
  BY <1>t, <1>h, <1>s, <1>1 DEF Begin, WorkType
<1>2. ASSUME NEW p \in Actors, Look(p) \/ Missing(p) \/ ReadMode(p) \/ Refused(p) PROVE Holds(q)
  BY <1>2, <1>f, <1>c, <1>p DEF Look, Missing, ReadMode, Refused
<1>3. ASSUME NEW p \in Actors, Read(p) PROVE Holds(q) \/ Takes(q)
  <2>1. CASE Finish(p) \/ Continue(p)
    BY <1>f, <1>c, <2>1
  <2>2. CASE /\ ~Idle(p, Mine(p))
             /\ pc' = [pc EXCEPT ![p] = IF Stage(p) \in {"soft", "renet"} THEN "net" ELSE "put"]
             /\ snap' = [snap EXCEPT ![p] = Mine(p)]
             /\ UNCHANGED <<req, todo, name, want, seen, env, names, made, refreshed>>
    <3>1. CASE p = q
      <4>1. Stage(p) = "refresh" => Mine(p).addr # None
        BY <2>2 DEF Idle, Refresh
      <4>2. /\ UNCHANGED <<inst, starts>> /\ pc[p] # "idle" /\ Mine(p) # None
        BY <1>3 DEF Read, fixed
      <4>3. snap'[p] = Mine(p) /\ name'[p] = name[p] /\ todo'[p] = todo[p]
        BY <1>t, <2>2 DEF WorkType
      <4> QED
        BY <3>1, <4>1, <4>2, <4>3 DEF Takes
    <3>2. CASE p # q
      BY <1>t, <1>s, <2>2, <3>2 DEF WorkType
    <3> QED
      BY <3>1, <3>2
  <2> QED
    BY <1>3, <2>1, <2>2 DEF Read
<1>4. ASSUME NEW p \in Actors, Put(p) \/ Boot(p) \/ Await(p) \/ Halt(p) \/ Delete(p) \/ Export(p)
      PROVE  Holds(q)
  BY <1>4, <1>f, <1>c DEF Put, Boot, Await, Halt, Delete, Export
<1>5. ASSUME NEW p \in Actors, ReadNet(p) PROVE Holds(q)
  <2>1. pc[p] = "net" \/ (pc[p] = "read" /\ Stage(p) = "ensure")
    BY <1>5 DEF ReadNet, At
  <2>2. CASE Finish(p) \/ Ensured(p)
    BY <1>f, <1>e, <2>1, <2>2
  <2>3. CASE pc' = [pc EXCEPT ![p] = "netput"] /\ UNCHANGED <<todo, name, snap>>
    <3>1. p = q => Has(p)
      BY <1>h, <2>1, <2>3 DEF Has, Stage
    <3> QED
      BY <1>g, <2>3, <3>1
  <2> QED
    BY <1>5, <2>2, <2>3 DEF ReadNet
<1>6. ASSUME NEW p \in Actors, PutNet(p) PROVE Holds(q)
  BY <1>6, <1>f, <1>e DEF PutNet
<1>7. ASSUME NEW p \in Actors, Create(p) PROVE Holds(q)
  <2>1. PICK n, i : Make(p, n, i)
    BY <1>7 DEF Create
  <2> QED
    BY <1>7, <1>m, <2>1 DEF Create, At
<1>8. ASSUME NEW p \in Actors, ImportBackup(p) PROVE Holds(q)
  BY <1>8, <1>m DEF ImportBackup, At
<1>9. ASSUME NEW p \in Actors, ListNames(p) PROVE Holds(q)
  BY <1>t, <1>h, <1>s, <1>9 DEF ListNames, At, WorkType
<1>10. ASSUME NEW p \in Actors, FindImported(p) PROVE Holds(q)
  BY <1>10, <1>f, <1>p DEF FindImported
<1>11. ASSUME NEW n \in Names, Lease(n) PROVE Holds(q)
  BY <1>11, <1>s DEF Lease, work
<1>12. CASE UNCHANGED vars
  BY <1>12, <1>s DEF vars, work
<1> QED
  BY <1>1, <1>2, <1>3, <1>4, <1>5, <1>6, <1>7, <1>8, <1>9, <1>10, <1>11, <1>12 DEF Next, Step

\* The address a command remembers is the one a write with the ETag meets.
LEMMA WrittenAddress ==
  ASSUME TypeOK, PortInv, NEW p \in Actors, NEW i \in Instance, Written(p, i),
         snap[p].addr # None
  PROVE  Mine(p).run /\ Mine(p).addr = snap[p].addr
<1>1. Has(p) /\ snap[p] \in Instance /\ Mine(p) \in Instance /\ Same(Mine(p), snap[p])
  BY DEF Written, Has
<1>2. Recalled(p)
  BY <1>1 DEF PortInv, Written
<1>3. snap[p].run /\ Mine(p).run
  BY <1>1, <1>2, SameFields DEF Recalled, Numbered
<1>4. Mine(p).boots = snap[p].boots
  BY <1>1, <1>3, SameBoots
<1>5. Mine(p) # None
  BY <1>1 DEF Same
<1> QED
  BY <1>2, <1>3, <1>4, <1>5 DEF Recalled

\* A write leaves the mappings of a refreshed container as they are to be, and those of
\* any container that it refreshes.
LEMMA WrittenCurrent ==
  ASSUME TypeOK, PortInv, NEW p \in Actors, NEW i \in Instance, Written(p, i),
         name[p] \in refreshed \/ Stage(p) = "refresh"
  PROVE  Current(inst'[name[p]])
<1>1. /\ name[p] \in Names /\ Mine(p) \in Instance /\ snap[p] \in Instance /\ Knows(p)
      /\ Stage(p) \in {"edit", "security", "refresh", "soft", "renet"}
      /\ i \in Edited(p, snap[p]) /\ regime \in Regimes
  BY WrittenShape DEF Written, TypeOK
<1>2. Stage(p) = "refresh" => snap[p].addr # None
  BY DEF PortInv, Recalled, Has, Written
<1>3. Kept(snap[p], Mine(p))
  BY WrittenShape DEF Mine
<1>4. name[p] \in refreshed => Current(Mine(p))
  BY DEF PortInv, Mine
<1>5. Mine(p).run /\ Mine(p).addr # None
  BY <1>2, <1>4, WrittenAddress DEF Current
<1>6. ASSUME NEW h \in HostPorts, i.ports[h] # None
      PROVE  i.ports[h].at = Mine(p).addr /\ i.ports[h].dual
  <2>1. CASE Stage(p) # "refresh" /\ i.ports[h] = snap[p].ports[h]
    <3>1. i.ports[h] = Mine(p).ports[h]
      BY <1>3, <2>1 DEF Kept
    <3> QED
      BY <1>4, <1>6, <2>1, <3>1 DEF Current
  <2>2. CASE snap[p].addr # None /\ i.ports[h].at = snap[p].addr /\ i.ports[h].dual
    BY <2>2, WrittenAddress
  <2> QED
    BY <1>1, <1>2, <1>6, <2>1, <2>2, EditedPorts
<1> QED
  BY <1>5, <1>6, WrittenAlive DEF Current

\* What has been refreshed stays so until it is stopped.
LEMMA RefreshedStep ==
  ASSUME TypeOK, CourseInv, BackupInv, PortInv, [Next]_vars, NEW n \in refreshed'
  PROVE  inst'[n] # None /\ Current(inst'[n])
<1>0. HostType /\ WorkType
  BY DEF TypeOK, HostType, WorkType
<1>r. n \in refreshed => n \in Names /\ inst[n] # None /\ Current(inst[n])
  BY <1>0 DEF PortInv, HostType
<1>1. CASE UNCHANGED <<inst, refreshed, starts>>
  BY <1>1, <1>r
<1>2. ASSUME NEW p \in Actors, Read(p) PROVE inst'[n] # None /\ Current(inst'[n])
  <2>1. UNCHANGED inst /\ pc[p] # "idle" /\ Mine(p) # None
    BY <1>2 DEF Read
  <2>2. CASE n \in refreshed
    BY <1>r, <2>1, <2>2
  <2>3. CASE n \notin refreshed
    <3>1. n = name[p] /\ Stage(p) = "refresh" /\ Idle(p, Mine(p)) /\ Mine(p).addr # None
      BY <1>2, <2>3 DEF Read
    <3>2. Mine(p) \in Instance /\ Numbered(Mine(p)) /\ Mine(p).ports \in Ports
      <4>1. name[p] \in Names /\ Mine(p) \in Instance
        BY <1>0, <2>1, MineType
      <4> QED
        BY <2>1, <4>1, InstanceFields, ZenonT(60) DEF PortInv, Mine
    <3>3. Refresh(Mine(p)) = Mine(p)
      BY <3>1 DEF Idle
    <3> DEFINE i == Mine(p)
               new == [h \in HostPorts |->
                         IF i.ports[h] = None THEN None
                         ELSE [to |-> i.ports[h].to, at |-> i.addr, dual |-> TRUE]]
    <3>4. i = [i EXCEPT !.ports = new]
      BY <3>1, <3>3 DEF Refresh
    <3>5. i.ports = new
      BY <3>2, <3>4 DEF Instance
    <3>6. ASSUME NEW h \in HostPorts, i.ports[h] # None
          PROVE  i.ports[h].at = i.addr /\ i.ports[h].dual
      <4>1. i.ports[h] = [to |-> i.ports[h].to, at |-> i.addr, dual |-> TRUE]
        BY <3>5, <3>6
      <4> QED
        BY <4>1
    <3>7. Current(Mine(p))
      BY <3>1, <3>2, <3>6 DEF Current, Numbered
    <3> QED
      BY <2>1, <3>1, <3>7 DEF Mine
  <2> QED
    BY <2>2, <2>3
<1>3. ASSUME NEW p \in Actors, Put(p) PROVE inst'[n] # None /\ Current(inst'[n])
  <2>1. ASSUME NEW i \in Instance, Written(p, i),
               refreshed' = IF Stage(p) = "refresh" THEN refreshed \cup {name[p]} ELSE refreshed
        PROVE  inst'[n] # None /\ Current(inst'[n])
    <3>1. CASE n = name[p]
      BY <2>1, <3>1, WrittenAlive, WrittenCurrent
    <3>2. CASE n # name[p]
      BY <1>r, <2>1, <3>2, WrittenAlive
    <3> QED
      BY <3>1, <3>2
  <2> QED
    BY <1>3, <1>r, <2>1, PutWrites
<1>4. ASSUME NEW p \in Actors, Create(p) \/ ImportBackup(p)
      PROVE  inst'[n] # None /\ Current(inst'[n])
  <2>1. n \in refreshed
    BY <1>4, NewRests
  <2> QED
    BY <1>0, <1>4, <1>r, <2>1, NewRests DEF HostType
<1>5. ASSUME NEW k \in Names, There(k), Booted(k) \/ Leased(k) \/ Halted(k) \/ Deleted(k)
      PROVE  inst'[n] # None /\ Current(inst'[n])
  <2>1. n \in refreshed /\ n # k
    BY <1>5, <1>r DEF Booted, Leased, Halted, Deleted, Current, PortInv, Numbered, There
  <2>2. \E i : inst' = [inst EXCEPT ![k] = i]
    BY <1>5 DEF Booted, Leased, Halted, Deleted, Set
  <2> QED
    BY <1>0, <1>r, <2>1, <2>2 DEF HostType
<1> QED
  BY <1>1, <1>2, <1>3, <1>4, <1>5, HostSteps

\* What a command remembers of an address stays true of the container's start.
LEMMA RecalledStep ==
  ASSUME TypeOK, CourseInv, BackupInv, PortInv, [Next]_vars, NEW p \in Actors, Has(p)'
  PROVE  Recalled(p)'
<1>t. HostType /\ WorkType
  BY DEF TypeOK, HostType, WorkType
<1>1. CASE Holds(p)
  <2>1. pc[p] # "idle" /\ Has(p) /\ Recalled(p)
    BY <1>1 DEF Holds, Has, PortInv
  <2>2. name[p] \in Names /\ snap[p] \in Instance
    BY <1>t, <2>1, MineType DEF Knows, Has
  <2>3. snap'[p] = snap[p] /\ name'[p] = name[p] /\ Stage(p)' = Stage(p)
    BY <1>1 DEF Holds, Stage
  <2>4. snap[p].boots \in Nat /\ starts \in Nat
    BY <1>t, <2>2, InstanceFields, ZenonT(60) DEF HostType
  <2>5. Numbered(snap[p])'
    BY <2>1, <2>3, <2>4, StartsGrow DEF Recalled, Numbered
  <2>6. ASSUME inst'[name[p]] # None, inst'[name[p]].run, snap[p].run,
               inst'[name[p]].boots = snap[p].boots, snap[p].addr # None
        PROVE  inst'[name[p]].addr = snap[p].addr
    <3> DEFINE n == name[p]
    <3>1. Lives(n) \/ Starts(n) \/ Rests(n)
      BY <2>2, <2>6, InstanceCourse
    <3>2. Lives(n)
      BY <2>1, <2>4, <2>6, <3>1 DEF Starts, Rests, Recalled, Numbered
    <3>3. Mine(p) # None /\ Mine(p).run /\ Mine(p).boots = snap[p].boots
      BY <2>6, <3>2 DEF Lives, Mine
    <3>4. Mine(p).addr = snap[p].addr
      BY <2>1, <2>6, <3>3 DEF Recalled
    <3> QED
      BY <2>6, <3>2, <3>4 DEF Lives, Mine
  <2> QED
    BY <2>1, <2>3, <2>5, <2>6 DEF Recalled, Mine
<1>2. CASE Takes(p)
  <2>1. name[p] \in Names /\ Numbered(Mine(p))
    BY <1>t, <1>2, MineType DEF Takes, PortInv, Mine
  <2>2. /\ snap'[p] = Mine(p) /\ Mine(p)' = Mine(p) /\ starts' = starts /\ Stage(p)' = Stage(p)
        /\ Stage(p) = "refresh" => Mine(p).addr # None
    BY <1>2 DEF Takes, Mine, Stage
  <2> QED
    BY <2>1, <2>2 DEF Recalled, Numbered
<1> QED
  BY <1>1, <1>2, SnapStep

\* Every step keeps all of it.
LEMMA PortStep ==
  TypeOK /\ CourseInv /\ BackupInv /\ PortInv /\ [Next]_vars => PortInv'
<1> SUFFICES ASSUME TypeOK, CourseInv, BackupInv, PortInv, [Next]_vars
             PROVE  PortInv'
  OBVIOUS
<1>1. ASSUME NEW n \in Names, inst'[n] # None PROVE Numbered(inst[n])'
  <2>1. Lives(n) \/ Starts(n) \/ Rests(n)
    BY <1>1, InstanceCourse
  <2>2. starts \in Nat /\ starts' \in Nat /\ starts <= starts'
    BY StartsGrow DEF TypeOK
  <2>3. CASE Lives(n)
    <3>1. inst[n] # None /\ Numbered(inst[n])
      BY <2>3 DEF Lives, PortInv
    <3>2. inst[n].boots \in Nat
      BY <3>1, InstanceFields, ZenonT(60) DEF TypeOK
    <3> QED
      BY <2>2, <2>3, <3>1, <3>2 DEF Lives, Numbered
  <2>4. CASE Starts(n)
    BY <2>2, <2>4 DEF Starts, Numbered
  <2>5. CASE Rests(n)
    <3>1. inst'[n].boots \in Nat
      <4>1. inst'[n] \in Instance
        BY <1>1, TypeStep DEF TypeOK
      <4> QED
        BY <4>1, InstanceFields, ZenonT(60)
    <3> QED
      BY <2>2, <2>5, <3>1 DEF Rests, Numbered
  <2> QED
    BY <2>1, <2>3, <2>4, <2>5
<1>2. backup' # None => ~backup'.run /\ backup'.addr = None /\ backup'.boots = 0
  <2>1. CASE UNCHANGED backup
    BY <2>1 DEF PortInv
  <2>2. ASSUME NEW n \in Names, inst[n] \in Instance,
               backup' = [inst[n] EXCEPT !.run = FALSE, !.addr = None, !.boots = 0]
        PROVE  ~backup'.run /\ backup'.addr = None /\ backup'.boots = 0
    BY <2>2 DEF Instance
  <2> QED
    BY <2>1, <2>2, BackupChange
<1>3. \A n \in refreshed' : inst'[n] # None /\ Current(inst'[n])
  BY RefreshedStep
<1>4. \A p \in Actors : Has(p)' => Recalled(p)'
  BY RecalledStep
<1> QED
  BY <1>1, <1>2, <1>3, <1>4 DEF PortInv, Current

\* PortsCurrent: once refreshed, a running container's mappings lead to its address,
\* whoever edits them meanwhile, and also where it has been stopped, removed and made
\* anew between the reading and the writing of an edit (RefreshPortMappings).
THEOREM CurrentPorts == Spec => []PortsCurrent
<1>1. Init => TypeOK /\ CourseInv /\ BackupInv /\ PortInv
  <2>1. ASSUME Init PROVE PortInv
    <3>1. /\ \A n \in Names : inst[n] # None =>
               inst[n].boots = 0 /\ (inst[n].addr # None => inst[n].run)
          /\ backup # None => ~backup.run /\ backup.addr = None /\ backup.boots = 0
      BY <2>1, RegimeAssumption DEF Init
    <3>2. starts = 0 /\ refreshed = {} /\ \A p \in Actors : ~Has(p)
      BY <2>1 DEF Init, Has
    <3> QED
      BY <3>1, <3>2 DEF PortInv, Numbered
  <2> QED
    BY <2>1, TypeInit
<1>2. TypeOK /\ CourseInv /\ BackupInv /\ PortInv /\ [Next]_vars
        => (TypeOK /\ CourseInv /\ BackupInv /\ PortInv)'
  BY TypeStep, BackupStep, PortStep
<1>3. TypeOK /\ PortInv => PortsCurrent
  BY DEF TypeOK, PortInv, Current, PortsCurrent
<1> QED
  BY <1>1, <1>2, <1>3, PTL DEF Spec

---------------------------------------------------------------------------
(* What runs is prepared                                                   *)

\* The network of a mode is there, if the mode needs one.
ReadyNet(m) == (m = "nat" \/ regime.wifi) => nets[m] # None /\ nets[m].managed
Prepared(i) == i.secure /\ ReadyNet(i.mode)

\* The same after a step.
ReadyThen(m) == (m = "nat" \/ regime'.wifi) => nets'[m] # None /\ nets'[m].managed

\* What runs at the beginning is prepared, and containers are either removed or
\* imported: between two stages of a start, a removal and an import would put
\* another one in the place of the one that was prepared.
Orderly ==
  /\ Kind \/ \A r \in regime.requests : r.verb # "import"
  /\ \A n \in Names : regime.inst[n] # None /\ regime.inst[n].run =>
       LET i == regime.inst[n]
           net == regime.nets[i.mode]
       IN i.secure /\ (i.mode = "nat" \/ regime.wifi => net # None /\ net.managed)

\* What a command has made ready by each of its stages.
Ahead(p) ==
  /\ Stage(p) = "create" => ReadyNet(want[p])
  /\ pc[p] = "put" /\ Stage(p) \in {"soft", "renet"} => ReadyNet(want[p])
  /\ pc[p] = "netput" => (seen[p] # None => seen[p].managed)
  /\ Stage(p) \in {"soft", "boot"} => (Mine(p) # None => Mine(p).secure)
  /\ Stage(p) \in {"soft", "boot"} => (Kind => Mine(p) # None)
  /\ pc[p] \in {"net", "netput"} /\ Stage(p) = "soft" =>
       (Mine(p) # None => Mine(p).mode = snap[p].mode \/ ReadyNet(Mine(p).mode))
  /\ Stage(p) = "boot" => (Mine(p) # None => ReadyNet(Mine(p).mode))

PrepInv ==
  Orderly =>
    /\ \A n \in Names : inst[n] # None /\ inst[n].run => Prepared(inst[n])
    /\ \A p \in Actors : pc[p] # "idle" => Ahead(p)

\* What comes before a stage that relies on others.
LEMMA StageBefore ==
  ASSUME NEW r \in Request, NEW t \in Course(r), Tail(t) # <<>>
  PROVE  /\ Head(Tail(t)) = "create" => Head(t) = "ensure"
         /\ Head(Tail(t)) = "soft" => Head(t) = "security"
         /\ Head(Tail(t)) = "boot" => Head(t) = "soft"
<1>1. CASE r.verb = "start"
  <2>1. t \in StartCourse
    BY <1>1 DEF Course
  <2>2. Tail(t) # <<>> /\ Len(t) > 1 /\ Head(Tail(t)) = t[2]
    BY <2>1 DEF StartCourse
  <2> QED
    BY <2>1, <2>2 DEF StartCourse
<1>2. CASE r.verb = "run"
  <2>1. t \in RunCourse
    BY <1>2 DEF Course
  <2>2. Tail(t) # <<>> /\ Len(t) > 1 /\ Head(Tail(t)) = t[2]
    BY <2>1 DEF RunCourse
  <2> QED
    BY <2>1, <2>2 DEF RunCourse
<1>3. CASE r.verb \notin {"start", "run"}
  <2>1. Tail(t) \in Course(r)
    BY TailCourse
  <2>2. \A u \in Course(r) : Head(u) \notin {"create", "soft", "boot"}
    <3>1. CASE r.verb = "import"
      BY <3>1 DEF Course, ImportCourse, ModelessCourse
    <3>2. CASE r.verb # "import"
      BY <1>3, <3>2 DEF Course
    <3> QED
      BY <3>1, <3>2
  <2> QED
    BY <2>1, <2>2
<1> QED
  BY <1>1, <1>2, <1>3

\* No command begins with such a stage.
LEMMA PlanBefore ==
  ASSUME NEW r \in Request
  PROVE  Head(Plan(r)) \notin {"create", "soft", "boot"}
<1>1. CASE r.verb = "import"
  BY <1>1, ImportHead
<1>2. CASE r.verb # "import"
  BY <1>2 DEF Plan, StartPlan
<1> QED
  BY <1>1, <1>2

\* What an edit makes of policy and mode.
LEMMA EditedPrepared ==
  ASSUME NEW p \in Actors, Knows(p), NEW i \in Instance,
         Stage(p) \in {"edit", "security", "refresh", "soft", "renet"}, NEW x \in Edited(p, i)
  PROVE  /\ i.secure \/ Stage(p) = "security" => x.secure
         /\ x.mode = IF Stage(p) \in {"soft", "renet"} THEN want[p] ELSE i.mode
<1>1. CASE Stage(p) = "security"
  <2>1. x = [i EXCEPT !.secure = TRUE]
    BY <1>1 DEF Edited
  <2> QED
    BY <1>1, <2>1 DEF Instance
<1>2. CASE Stage(p) = "refresh"
  <2>1. x = Refresh(i)
    BY <1>2 DEF Edited
  <2> QED
    BY <1>2, <2>1, RefreshFields
<1>3. CASE Stage(p) = "soft"
  <2>1. x = [i EXCEPT !.mode = want[p]]
    BY <1>3 DEF Edited
  <2> QED
    BY <1>3, <2>1 DEF Instance
<1>4. CASE Stage(p) = "renet"
  <2>1. x.secure = i.secure /\ x.mode = want[p]
    BY <1>4 DEF Edited, Instance
  <2> QED
    BY <1>4, <2>1
<1>5. CASE Stage(p) = "edit"
  <2>v. req[p].verb \in {"autostart", "port", "unport", "mount", "unmount", "remount"}
    BY <1>5, StageOf DEF Knows, Stage
  <2>e. x \in EditedBy(req[p], i)
    BY <1>5 DEF Edited
  <2>1. \/ \E a : x = [i EXCEPT !.auto = a]
        \/ \E a : x = [i EXCEPT !.ports = a]
        \/ \E a : x = [i EXCEPT !.mounts = a]
    BY <2>v, <2>e DEF EditedBy, SetAutostart, AddPort, RemovePort, AddMount, RemoveMount, UpdateMount
  <2>2. x.secure = i.secure /\ x.mode = i.mode
    BY <2>1 DEF Instance
  <2> QED
    BY <1>5, <2>2
<1> QED
  BY <1>1, <1>2, <1>3, <1>4, <1>5

\* Only an update of a network changes the networks.
LEMMA NetsSame ==
  ASSUME [Next]_vars
  PROVE  UNCHANGED nets \/ \E p \in Actors : PutNet(p)
<1>1. ASSUME NEW p \in Actors, NEW r, NEW e, Begin(p, r, e) PROVE UNCHANGED nets
  BY <1>1 DEF Begin
<1>2. ASSUME NEW p \in Actors,
             \/ Look(p) \/ Missing(p) \/ ReadMode(p) \/ Read(p) \/ Put(p) \/ ReadNet(p)
             \/ Boot(p) \/ Await(p)
      PROVE  UNCHANGED nets
  BY <1>2 DEF Look, Missing, ReadMode, Read, Put, ReadNet, Boot, Await
<1>3. ASSUME NEW p \in Actors,
             \/ Halt(p) \/ Delete(p) \/ Create(p) \/ ListNames(p) \/ ImportBackup(p)
             \/ FindImported(p) \/ Export(p) \/ Refused(p)
      PROVE  UNCHANGED nets
  BY <1>3 DEF Halt, Delete, Create, ListNames, ImportBackup, FindImported, Export, Refused
<1>4. ASSUME NEW n \in Names, Lease(n) PROVE UNCHANGED nets
  BY <1>4 DEF Lease
<1>5. CASE UNCHANGED vars
  BY <1>5 DEF vars
<1> QED
  BY <1>1, <1>2, <1>3, <1>4, <1>5 DEF Next, Step

\* A network that is ready stays so, for bocker only changes those it manages.
LEMMA NetsKept ==
  ASSUME TypeOK, CourseInv, OwnInv, PrepInv, Orderly, [Next]_vars, NEW m \in Modes, ReadyNet(m)
  PROVE  ReadyThen(m)
<1>1. UNCHANGED regime
  BY RegimeKept
<1>2. CASE UNCHANGED nets
  BY <1>1, <1>2 DEF ReadyNet, ReadyThen
<1>3. ASSUME NEW p \in Actors, PutNet(p) PROVE ReadyThen(m)
  <2>1. pc[p] = "netput" /\ (seen[p] # None => seen[p].managed)
    BY <1>3 DEF PutNet, PrepInv, Ahead
  <2>2. Desired(seen[p], env[p]) # None /\ Desired(seen[p], env[p]).managed
    <3>1. env[p] \in Env /\ seen[p] \in Net \cup {None}
      BY DEF TypeOK
    <3>2. Desired(seen[p], env[p]) \in Net
      BY <3>1, DesiredType
    <3>3. Desired(seen[p], env[p]).managed
      BY <2>1, <3>1 DEF Desired, Net
    <3> QED
      BY <3>2, <3>3, InstanceConfigAssumption
  <2>3. nets' = nets \/ nets' = [nets EXCEPT ![want[p]] = Desired(seen[p], env[p])]
    BY <1>3 DEF PutNet
  <2> QED
    BY <1>1, <2>2, <2>3 DEF ReadyNet, ReadyThen, TypeOK
<1> QED
  BY <1>2, <1>3, NetsSame

\* What becomes of a container that is there after a step, as far as it concerns its
\* readiness to run: it stays as it is or gets better, is made ready or imported.
Steady(n) ==
  /\ inst[n] # None /\ (inst[n].secure => inst'[n].secure)
  /\ inst'[n].mode = inst[n].mode \/ ReadyNet(inst'[n].mode)
Made(n) == inst[n] = None /\ inst'[n].secure /\ ReadyNet(inst'[n].mode)
Imported(n) ==
  inst[n] = None /\ \E p \in Actors : pc[p] = "read" /\ Knows(p) /\ Stage(p) = "import"

\* Each takes one of these courses.
LEMMA PreparedCourse ==
  ASSUME TypeOK, CourseInv, BackupInv, PrepInv, Orderly, [Next]_vars,
         NEW n \in Names, inst'[n] # None
  PROVE  Steady(n) \/ Made(n) \/ Imported(n)
<1>o. inst'[n] = inst[n] => Steady(n)
  BY DEF Steady
<1>s. ASSUME NEW k, NEW i, inst' = [inst EXCEPT ![k] = i]
      PROVE  IF k = n THEN inst'[n] = i ELSE inst'[n] = inst[n]
  BY <1>s DEF TypeOK
<1>1. CASE UNCHANGED inst
  BY <1>1, <1>o
<1>2. ASSUME NEW k \in Names, Alive(k) PROVE Steady(n)
  BY <1>2, <1>o, <1>s DEF Alive, Kept, Steady
<1>3. ASSUME NEW k \in Names, Gone(k) PROVE Steady(n)
  BY <1>3, <1>o, <1>s DEF Gone
<1>4. ASSUME NEW k \in Names, Fetched(k) PROVE Steady(n) \/ Imported(n)
  BY <1>4, <1>o, <1>s DEF Fetched, Imported
<1>5. ASSUME NEW k \in Names, Born(k) PROVE Steady(n) \/ Made(n)
  <2>1. PICK p \in Actors, m \in FreeMACs :
          /\ pc[p] = "read" /\ Stage(p) = "create" /\ want[p] \in Modes
          /\ inst[k] = None /\ inst' = [inst EXCEPT ![k] = Fresh(m, want[p])]
    BY <1>5 DEF Born
  <2>2. ReadyNet(want[p])
    BY <2>1 DEF PrepInv, Ahead
  <2>3. Fresh(m, want[p]).secure /\ Fresh(m, want[p]).mode = want[p]
    BY DEF Fresh
  <2> QED
    BY <1>o, <1>s, <2>1, <2>2, <2>3 DEF Made
<1>6. ASSUME NEW p \in Actors, NEW i \in Instance, Written(p, i) PROVE Steady(n)
  <2>1. /\ name[p] \in Names /\ inst[name[p]] \in Instance /\ snap[p] \in Instance
        /\ Kept(snap[p], inst[name[p]])
    BY <1>6, WrittenShape
  <2>2. /\ pc[p] = "put" /\ (snap[p].secure => i.secure)
        /\ i.mode = IF Stage(p) \in {"soft", "renet"} THEN want[p] ELSE snap[p].mode
    BY <1>6, <2>1, EditedPrepared DEF Written
  <2>3. Stage(p) \in {"soft", "renet"} => ReadyNet(want[p])
    BY <2>2 DEF PrepInv, Ahead
  <2>4. PICK j \in Instance : Kept(j, i) /\ inst' = [inst EXCEPT ![name[p]] = j]
    BY <1>6, WrittenShape
  <2>5. j.secure = i.secure /\ j.mode = i.mode
    BY <2>4 DEF Kept
  <2>6. inst[name[p]] # None
    BY <2>1, InstanceConfigAssumption
  <2> QED
    BY <1>o, <1>s, <2>1, <2>2, <2>3, <2>4, <2>5, <2>6 DEF Kept, Steady
<1> QED
  BY <1>1, <1>2, <1>3, <1>4, <1>5, <1>6, InstChange

\* A write with the ETag, after the policy or the mode has been edited.
LEMMA WrittenPrepared ==
  ASSUME TypeOK, NEW p \in Actors, NEW i \in Instance, Written(p, i)
  PROVE  /\ inst'[name[p]] # None
         /\ Mine(p).secure \/ Stage(p) = "security" => inst'[name[p]].secure
         /\ Stage(p) \in {"soft", "renet"} => inst'[name[p]].mode = want[p]
<1>1. /\ name[p] \in Names /\ snap[p] \in Instance /\ Kept(snap[p], Mine(p))
  BY WrittenShape DEF Mine
<1>2. /\ snap[p].secure \/ Stage(p) = "security" => i.secure
      /\ Stage(p) \in {"soft", "renet"} => i.mode = want[p]
  BY <1>1, EditedPrepared DEF Written
<1>3. PICK j \in Instance : Kept(j, i) /\ inst' = [inst EXCEPT ![name[p]] = j]
  BY WrittenShape
<1>4. inst'[name[p]] = j /\ j # None
  BY <1>1, <1>3, InstanceConfigAssumption DEF TypeOK
<1> QED
  BY <1>1, <1>2, <1>3, <1>4 DEF Kept

\* Between the stages of a start its container stays prepared, or another one that
\* is comes in its place.
LEMMA Onward ==
  ASSUME TypeOK, CourseInv, BackupInv, OwnInv, PrepInv, Orderly, [Next]_vars,
         NEW p \in Actors, pc[p] # "idle", Stage(p) \in {"soft", "boot"}
  PROVE  /\ Kind => inst'[name[p]] # None
         /\ inst'[name[p]] # None =>
              /\ inst'[name[p]].secure
              /\ \/ Mine(p) # None /\ inst'[name[p]].mode = Mine(p).mode
                 \/ ReadyThen(inst'[name[p]].mode)
<1> DEFINE n == name[p]
<1>1. n \in Names /\ Ahead(p)
  BY DEF CourseInv, Knows, PrepInv
<1>2. Kind => inst'[n] # None
  BY <1>1, Grows DEF Ahead, Mine, Existing
<1>3. ASSUME inst'[n] # None
      PROVE  /\ inst'[n].secure
             /\ (Mine(p) # None /\ inst'[n].mode = Mine(p).mode) \/ ReadyNet(inst'[n].mode)
  <2>1. CASE Steady(n)
    BY <1>1, <2>1 DEF Steady, Ahead, Mine
  <2>2. CASE Made(n)
    BY <2>2 DEF Made
  <2>3. CASE Imported(n)
    <3>1. PICK q \in Actors : pc[q] # "idle" /\ Knows(q) /\ Stage(q) = "import"
      BY <2>3 DEF Imported
    <3>2. req[q].verb = "import" /\ req[q] \in regime.requests
      BY <3>1, StageOf DEF Knows, Stage, OwnInv
    <3>3. Kind
      BY <3>2 DEF Orderly
    <3> QED
      BY <1>1, <2>3, <3>3 DEF Imported, Ahead, Mine
  <2> QED
    BY <1>1, <1>3, <2>1, <2>2, <2>3, PreparedCourse
<1>4. ASSUME inst'[n] # None, ReadyNet(inst'[n].mode) PROVE ReadyThen(inst'[n].mode)
  <2>1. inst'[n].mode \in Modes
    <3>1. inst'[n] \in Instance
      BY <1>1, <1>4, TypeStep DEF TypeOK
    <3> QED
      BY <3>1, InstanceFields, ZenonT(60)
  <2> QED
    BY <1>4, <2>1, NetsKept
<1> QED
  BY <1>2, <1>3, <1>4

\* A command that does nothing in a step relies on what it did,
Waits(p) ==
  /\ pc'[p] = pc[p] /\ todo'[p] = todo[p] /\ name'[p] = name[p] /\ want'[p] = want[p]
  /\ snap'[p] = snap[p] /\ seen'[p] = seen[p]
LEMMA AheadWaits ==
  ASSUME TypeOK, CourseInv, BackupInv, OwnInv, PrepInv, Orderly, [Next]_vars,
         NEW p \in Actors, pc[p] # "idle", Waits(p)
  PROVE  Ahead(p)'
<1>1. Knows(p) /\ Ahead(p) /\ Stage(p)' = Stage(p) /\ UNCHANGED regime
  BY RegimeKept DEF CourseInv, PrepInv, Waits, Stage
<1>2. Kind' = Kind /\ Mine(p)' = inst'[name[p]]
  BY <1>1 DEF Kind, Mine, Waits
<1>3. Stage(p) \in {"create", "soft", "renet"} /\ ReadyNet(want[p]) => ReadyNet(want[p])'
  <2>1. Stage(p) \in {"create", "soft", "renet"} => want[p] \in Modes
    BY <1>1 DEF Knows, Needing
  <2> QED
    BY <2>1, NetsKept DEF ReadyNet, ReadyThen, Waits
<1>4. CASE Stage(p) \in {"soft", "boot"}
  <2>1. Kind => Mine(p)' # None
    BY <1>2, <1>4, Onward
  <2>2. ASSUME Mine(p)' # None
        PROVE  /\ Mine(p)'.secure
               /\ \/ Mine(p) # None /\ Mine(p)'.mode = Mine(p).mode
                  \/ ReadyNet(Mine(p).mode)'
    BY <1>2, <1>4, <2>2, Onward DEF ReadyNet, ReadyThen
  <2>3. ASSUME Mine(p)' # None, Mine(p) # None, ReadyNet(Mine(p).mode), Mine(p)'.mode = Mine(p).mode
        PROVE  ReadyNet(Mine(p).mode)'
    <3>1. Mine(p).mode \in Modes
      <4>1. Mine(p) \in Instance
        BY <1>1, <2>3 DEF TypeOK, Mine, Knows
      <4> QED
        BY <4>1, InstanceFields, ZenonT(60)
    <3>2. ReadyThen(Mine(p).mode)
      BY <2>3, <3>1, NetsKept
    <3> QED
      BY <2>3, <3>2 DEF ReadyNet, ReadyThen
  <2> QED
    BY <1>1, <1>2, <1>3, <1>4, <2>1, <2>2, <2>3 DEF Ahead, Waits
<1>5. CASE Stage(p) \notin {"soft", "boot"}
  BY <1>1, <1>3, <1>5 DEF Ahead, Waits
<1> QED
  BY <1>4, <1>5

\* and one that goes on to a stage that relies on nothing has nothing to show.
LEMMA AheadFree ==
  ASSUME NEW p \in Actors, pc'[p] = "read", Head(todo'[p]) \notin {"create", "soft", "boot"}
  PROVE  Ahead(p)'
  BY DEF Ahead, Stage

\* From the soft edit of a start on to its boot, with the network that it has.
LEMMA AheadBoot ==
  ASSUME TypeOK, CourseInv, BackupInv, OwnInv, PrepInv, Orderly, [Next]_vars,
         NEW p \in Actors, pc[p] # "idle", Stage(p) = "soft", pc'[p] = "read",
         Head(todo'[p]) = "boot", name'[p] = name[p],
         inst'[name[p]] # None => ReadyThen(inst'[name[p]].mode)
  PROVE  Ahead(p)'
<1>1. Kind' = Kind /\ Mine(p)' = inst'[name[p]]
  BY RegimeKept DEF Kind, Mine
<1>2. (Kind => Mine(p)' # None) /\ (Mine(p)' # None => Mine(p)'.secure)
  BY <1>1, Onward
<1>3. Mine(p)' # None => ReadyNet(Mine(p).mode)'
  BY <1>1 DEF ReadyNet, ReadyThen
<1> QED
  BY <1>1, <1>2, <1>3 DEF Ahead, Stage

\* A network that has just been made ready serves the rest of the stage.
LEMMA AheadEnsured ==
  ASSUME TypeOK, CourseInv, BackupInv, OwnInv, PrepInv, Orderly, [Next]_vars,
         NEW p \in Actors, Ensured(p), pc'[p] # "idle",
         pc[p] \in {"net", "netput"} \/ At(p, "read", "ensure"),
         ReadyThen(want[p])
  PROVE  Ahead(p)'
<1>t. WorkType
  BY DEF TypeOK, WorkType
<1>1. pc[p] # "idle" /\ Knows(p) /\ Ahead(p)
  BY DEF CourseInv, PrepInv, At
<1>2. CASE Continue(p)
  <2>1. /\ Tail(todo[p]) # <<>> /\ pc'[p] = "read" /\ todo'[p] = Tail(todo[p])
        /\ name'[p] = name[p] /\ want'[p] = want[p]
    BY <1>t, <1>2 DEF Continue, Proceed, Finish, WorkType
  <2>2. /\ Head(todo'[p]) = "create" => Stage(p) = "ensure"
        /\ Head(todo'[p]) = "soft" => Stage(p) = "security"
        /\ Head(todo'[p]) = "boot" => Stage(p) = "soft"
    BY <1>1, <2>1, StageBefore DEF Knows, Stage
  <2>3. Stage(p) \in {"soft", "renet", "ensure"}
    BY <1>1 DEF Knows, At
  <2>4. CASE Head(todo'[p]) = "create"
    BY <2>1, <2>4 DEF Ahead, Stage, ReadyNet, ReadyThen
  <2>5. CASE Head(todo'[p]) = "boot"
    <3>1. snap[p].mode = want[p] /\ pc[p] \in {"net", "netput"}
      <4>1. Stage(p) = "soft" /\ pc'[p] # "put"
        BY <2>1, <2>2, <2>5
      <4>2. pc' # [pc EXCEPT ![p] = "put"]
        BY <1>t, <4>1 DEF WorkType
      <4>3. pc[p] \in {"net", "netput"}
        BY <4>1 DEF At
      <4> QED
        BY <4>1, <4>2, <4>3 DEF Ensured
    <3>2. ASSUME inst'[name[p]] # None PROVE ReadyThen(inst'[name[p]].mode)
      <4>1. CASE Mine(p) # None /\ inst'[name[p]].mode = Mine(p).mode
        <5>1. Mine(p).mode = want[p] \/ ReadyNet(Mine(p).mode)
          BY <1>1, <2>2, <2>5, <3>1, <4>1 DEF Ahead
        <5>2. Mine(p).mode \in Modes
          <6>1. Mine(p) \in Instance
            BY <1>1, <4>1 DEF TypeOK, Mine, Knows
          <6> QED
            BY <6>1, InstanceFields, ZenonT(60)
        <5>3. ReadyThen(Mine(p).mode)
          BY <5>1, <5>2, NetsKept
        <5> QED
          BY <4>1, <5>3
      <4> QED
        BY <1>1, <2>2, <2>5, <3>2, <4>1, Onward
    <3> QED
      BY <1>1, <2>1, <2>2, <2>5, <3>2, AheadBoot
  <2> QED
    BY <2>1, <2>2, <2>3, <2>4, <2>5, AheadFree
<1>3. CASE /\ Stage(p) \in {"soft", "renet"} /\ pc' = [pc EXCEPT ![p] = "put"]
           /\ UNCHANGED <<todo, name, want>>
  <2>1. pc'[p] = "put" /\ Stage(p)' = Stage(p) /\ Kind' = Kind /\ Mine(p)' = inst'[name[p]]
    BY <1>t, <1>3, RegimeKept DEF WorkType, Stage, Kind, Mine
  <2>2. ReadyNet(want[p])'
    BY <1>3 DEF ReadyNet, ReadyThen
  <2>3. Stage(p) = "soft" =>
          (Kind => Mine(p)' # None) /\ (Mine(p)' # None => Mine(p)'.secure)
    BY <1>1, <2>1, Onward
  <2> QED
    BY <1>3, <2>1, <2>2, <2>3 DEF Ahead
<1> QED
  BY <1>2, <1>3 DEF Ensured

\* A write goes on to the next stage with what it has written.
LEMMA AheadPut ==
  ASSUME TypeOK, CourseInv, BackupInv, OwnInv, PrepInv, Orderly, [Next]_vars,
         NEW p \in Actors, Put(p), pc'[p] # "idle"
  PROVE  Ahead(p)'
<1>t. WorkType
  BY DEF TypeOK, WorkType
<1>1. pc[p] = "put" /\ Knows(p) /\ Ahead(p)
  BY DEF Put, CourseInv, PrepInv
<1>2. ~Finish(p)
  BY <1>t DEF Finish, WorkType
<1>3. Continue(p) /\ \E i \in Instance : Written(p, i)
  BY <1>2, PutWrites
<1>4. PICK i \in Instance : Written(p, i)
  BY <1>3
<1>5. /\ Tail(todo[p]) # <<>> /\ pc'[p] = "read" /\ todo'[p] = Tail(todo[p])
      /\ name'[p] = name[p]
  BY <1>t, <1>2, <1>3 DEF Continue, Proceed, WorkType
<1>6. /\ Head(todo'[p]) = "create" => Stage(p) = "ensure"
      /\ Head(todo'[p]) = "soft" => Stage(p) = "security"
      /\ Head(todo'[p]) = "boot" => Stage(p) = "soft"
  BY <1>1, <1>5, StageBefore DEF Knows, Stage
<1>7. /\ Stage(p) # "ensure" /\ Mine(p)' # None
      /\ Stage(p) = "security" => Mine(p)'.secure
      /\ Stage(p) = "soft" => Mine(p)'.mode = want[p]
  BY <1>1, <1>4, <1>5, WrittenPrepared DEF Knows, Mine
<1>8. CASE Head(todo'[p]) = "soft"
  BY <1>5, <1>6, <1>7, <1>8 DEF Ahead, Stage
<1>9. CASE Head(todo'[p]) = "boot"
  <2>1. ReadyThen(want[p])
    <3>1. want[p] \in Modes /\ ReadyNet(want[p])
      BY <1>1, <1>6, <1>9 DEF Knows, Ahead, Needing
    <3> QED
      BY <3>1, NetsKept
  <2>2. inst'[name[p]].mode = want[p]
    BY <1>5, <1>6, <1>7, <1>9 DEF Mine
  <2> QED
    BY <1>1, <1>5, <1>6, <1>9, <2>1, <2>2, AheadBoot
<1> QED
  BY <1>5, <1>6, <1>7, <1>8, <1>9, AheadFree

\* Reading a container or a network for an edit.
LEMMA AheadRead ==
  ASSUME TypeOK, CourseInv, BackupInv, OwnInv, PrepInv, Orderly, [Next]_vars,
         NEW p \in Actors, Read(p), ~Finish(p), ~Continue(p)
  PROVE  Ahead(p)'
<1>t. WorkType
  BY DEF TypeOK, WorkType
<1>1. /\ pc[p] = "read" /\ Knows(p) /\ Ahead(p) /\ UNCHANGED <<inst, nets, regime>>
      /\ Stage(p) \in {"edit", "security", "refresh", "soft", "renet"} /\ Mine(p) # None
  BY DEF Read, CourseInv, PrepInv, fixed
<1>2. /\ pc' = [pc EXCEPT ![p] = IF Stage(p) \in {"soft", "renet"} THEN "net" ELSE "put"]
      /\ snap' = [snap EXCEPT ![p] = Mine(p)] /\ UNCHANGED <<todo, name, want, seen>>
  BY DEF Read
<1>3. /\ pc'[p] = IF Stage(p) \in {"soft", "renet"} THEN "net" ELSE "put"
      /\ snap'[p] = Mine(p) /\ Stage(p)' = Stage(p) /\ Mine(p)' = Mine(p) /\ Kind' = Kind
  BY <1>t, <1>1, <1>2 DEF WorkType, Stage, Mine, Kind
<1> QED
  BY <1>1, <1>3 DEF Ahead

\* A command that has read a network to bring it up to date, which bocker manages.
LEMMA AheadReadNet ==
  ASSUME TypeOK, CourseInv, BackupInv, OwnInv, PrepInv, Orderly, [Next]_vars,
         NEW p \in Actors, ReadNet(p), pc'[p] # "idle"
  PROVE  Ahead(p)'
<1>t. WorkType
  BY DEF TypeOK, WorkType
<1>1. pc[p] # "idle" /\ Knows(p) /\ Ahead(p) /\ UNCHANGED <<inst, nets, regime>>
  BY DEF ReadNet, At, CourseInv, PrepInv, fixed
<1>2. Stage(p) \in {"soft", "renet", "ensure"}
      /\ (pc[p] \in {"net", "netput"} \/ At(p, "read", "ensure"))
  BY <1>1 DEF ReadNet, Knows, At
<1>3. CASE Ensured(p) /\ ReadyNet(want[p])
  <2>1. want[p] \in Modes
    BY <1>1, <1>2 DEF Knows, Needing
  <2>2. ReadyThen(want[p])
    BY <1>3, <2>1, NetsKept
  <2> QED
    BY <1>2, <1>3, <2>2, AheadEnsured
<1>4. CASE /\ nets[want[p]] # None => nets[want[p]].managed
           /\ pc' = [pc EXCEPT ![p] = "netput"] /\ seen' = [seen EXCEPT ![p] = nets[want[p]]]
           /\ UNCHANGED <<todo, name, want, snap>>
  <2>1. /\ pc'[p] = "netput" /\ seen'[p] = nets[want[p]] /\ snap'[p] = snap[p]
        /\ Stage(p)' = Stage(p) /\ Mine(p)' = Mine(p) /\ Kind' = Kind
        /\ \A m : ReadyNet(m)' = ReadyNet(m)
    BY <1>t, <1>1, <1>4 DEF WorkType, Stage, Mine, Kind, ReadyNet
  <2>2. Stage(p) = "soft" => pc[p] \in {"net", "netput"}
    BY <1>2 DEF At
  <2> QED
    BY <1>1, <1>2, <1>4, <2>1, <2>2 DEF Ahead
<1>5. ~Finish(p)
  BY <1>t DEF Finish, WorkType
<1> QED
  BY <1>3, <1>4, <1>5 DEF ReadNet, ReadyNet

\* And one that has brought it up to date.
LEMMA AheadPutNet ==
  ASSUME TypeOK, CourseInv, BackupInv, OwnInv, PrepInv, Orderly, [Next]_vars,
         NEW p \in Actors, PutNet(p), pc'[p] # "idle"
  PROVE  Ahead(p)'
<1>t. WorkType
  BY DEF TypeOK, WorkType
<1>1. pc[p] = "netput" /\ Knows(p) /\ Ahead(p)
  BY DEF PutNet, CourseInv, PrepInv
<1>2. ~Finish(p)
  BY <1>t DEF Finish, WorkType
<1>3. Ensured(p) /\ nets' = [nets EXCEPT ![want[p]] = Desired(seen[p], env[p])]
  BY <1>2 DEF PutNet
<1>4. Desired(seen[p], env[p]) # None /\ Desired(seen[p], env[p]).managed
  <2>1. env[p] \in Env /\ seen[p] \in Net \cup {None} /\ (seen[p] # None => seen[p].managed)
    BY <1>1 DEF TypeOK, Ahead
  <2>2. Desired(seen[p], env[p]) \in Net
    BY <2>1, DesiredType
  <2>3. Desired(seen[p], env[p]).managed
    BY <2>1 DEF Desired, Net
  <2> QED
    BY <2>2, <2>3, InstanceConfigAssumption
<1>5. want[p] \in Modes
  BY <1>1 DEF Knows, Needing
<1>6. ReadyThen(want[p])
  BY <1>3, <1>4, <1>5 DEF TypeOK, ReadyThen
<1> QED
  BY <1>1, <1>3, <1>6, AheadEnsured

\* Every step of every command leaves what comes next made ready.
LEMMA AheadStep ==
  ASSUME TypeOK, CourseInv, BackupInv, OwnInv, PrepInv, Orderly, [Next]_vars,
         NEW q \in Actors, pc'[q] # "idle"
  PROVE  Ahead(q)'
<1>t. WorkType
  BY DEF TypeOK, WorkType
<1>w. ASSUME Waits(q) PROVE Ahead(q)'
  BY <1>w, AheadWaits DEF Waits
<1>f. ASSUME NEW p \in Actors, Finish(p) PROVE q # p /\ Ahead(q)'
  BY <1>t, <1>f, <1>w DEF Finish, Waits, WorkType
<1>p. ASSUME NEW p \in Actors, NEW ss, NEW n, NEW m, Proceed(p, ss, n, m),
             ss # <<>> => Head(ss) \notin {"create", "soft", "boot"}
      PROVE  Ahead(q)'
  <2>1. CASE Finish(p)
    BY <1>f, <2>1
  <2>2. CASE ~Finish(p)
    <3>1. /\ ss # <<>> /\ pc' = [pc EXCEPT ![p] = "read"] /\ todo' = [todo EXCEPT ![p] = ss]
          /\ name' = [name EXCEPT ![p] = n] /\ want' = [want EXCEPT ![p] = m]
          /\ snap' = [snap EXCEPT ![p] = None] /\ seen' = [seen EXCEPT ![p] = None]
      BY <1>p, <2>2 DEF Proceed
    <3>2. CASE q = p
      BY <1>t, <1>p, <3>1, <3>2, AheadFree DEF WorkType
    <3>3. CASE q # p
      BY <1>t, <1>w, <3>1, <3>3 DEF Waits, WorkType
    <3> QED
      BY <3>2, <3>3
  <2> QED
    BY <2>1, <2>2
<1>b. ASSUME NEW p \in Actors, pc[p] # "idle", Stage(p) \notin {"ensure", "security", "soft"},
             Tail(todo[p]) # <<>>
      PROVE  Head(Tail(todo[p])) \notin {"create", "soft", "boot"}
  BY <1>b, StageBefore DEF CourseInv, Knows, Stage
<1>c. ASSUME NEW p \in Actors, pc[p] # "idle", Stage(p) \notin {"ensure", "security", "soft"},
             NEW n, NEW m, Proceed(p, Tail(todo[p]), n, m)
      PROVE  Ahead(q)'
  BY <1>b, <1>c, <1>p
<1>d. ASSUME NEW p \in Actors, q # p, Finish(p) \/ Continue(p) \/ Ensured(p) PROVE Ahead(q)'
  <2>1. Waits(q)
    BY <1>t, <1>d DEF Finish, Continue, Proceed, Ensured, Waits, WorkType
  <2> QED
    BY <1>w, <2>1
<1>1. ASSUME NEW p \in Actors, NEW r \in regime.requests, NEW e, Begin(p, r, e)
      PROVE  Ahead(q)'
  <2>1. CASE q = p
    <3>1. r \in Request
      BY RegimeTypes DEF TypeOK
    <3>2. pc'[q] = "read" /\ todo'[q] = Plan(r)
      BY <1>t, <1>1, <2>1 DEF Begin, WorkType
    <3> QED
      BY <3>1, <3>2, PlanBefore, AheadFree
  <2>2. CASE q # p
    BY <1>t, <1>1, <1>w, <2>2 DEF Begin, Waits, WorkType
  <2> QED
    BY <2>1, <2>2
<1>2. ASSUME NEW p \in Actors, Look(p) PROVE Ahead(q)'
  <2>1. pc[p] # "idle" /\ Stage(p) \notin {"ensure", "security", "soft"}
    BY <1>2 DEF Look, At
  <2> DEFINE ss == <<"await", "refresh">>
  <2>2. ss # <<>> => Head(ss) \notin {"create", "soft", "boot"}
    OBVIOUS
  <2>3. Finish(p) \/ Continue(p) \/ Proceed(p, ss, name[p], want[p])
    BY <1>2 DEF Look
  <2> HIDE DEF ss
  <2> QED
    BY <1>c, <1>f, <1>p, <2>1, <2>2, <2>3 DEF Continue
<1>3. ASSUME NEW p \in Actors, Missing(p) \/ Refused(p) PROVE Ahead(q)'
  BY <1>3, <1>f DEF Missing, Refused
<1>4. ASSUME NEW p \in Actors, ReadMode(p) \/ FindImported(p) PROVE Ahead(q)'
  <2>1. pc[p] # "idle" /\ Stage(p) \notin {"ensure", "security", "soft"}
    BY <1>4 DEF ReadMode, FindImported, At
  <2>2. Finish(p) \/ \E n, m : Proceed(p, Tail(todo[p]), n, m)
    BY <1>4 DEF ReadMode, FindImported
  <2> QED
    BY <1>c, <1>f, <2>1, <2>2
<1>5. ASSUME NEW p \in Actors, Read(p) PROVE Ahead(q)'
  <2>1. CASE Finish(p)
    BY <1>f, <2>1
  <2>2. CASE Continue(p) /\ Idle(p, Mine(p))
    <3>1. pc[p] # "idle" /\ Stage(p) \notin {"ensure", "security", "soft"}
      BY <1>5, <2>2 DEF Read, Idle
    <3> QED
      BY <1>c, <2>2, <3>1 DEF Continue
  <2>3. CASE /\ pc' = [pc EXCEPT ![p] = IF Stage(p) \in {"soft", "renet"} THEN "net" ELSE "put"]
             /\ snap' = [snap EXCEPT ![p] = Mine(p)] /\ UNCHANGED <<todo, name, want, seen>>
    <3>1. CASE q = p
      <4>1. pc'[p] \in {"net", "put"}
        BY <1>t, <2>3 DEF WorkType
      <4>2. ~Finish(p) /\ ~Continue(p)
        BY <1>t, <4>1 DEF Finish, Continue, Proceed, WorkType
      <4> QED
        BY <1>5, <3>1, <4>2, AheadRead
    <3>2. CASE q # p
      BY <1>t, <1>w, <2>3, <3>2 DEF Waits, WorkType
    <3> QED
      BY <3>1, <3>2
  <2> QED
    BY <1>5, <2>1, <2>2, <2>3 DEF Read
<1>6. ASSUME NEW p \in Actors, Put(p) PROVE Ahead(q)'
  BY <1>6, <1>d, AheadPut DEF Put
<1>7. ASSUME NEW p \in Actors, ReadNet(p) PROVE Ahead(q)'
  <2>1. CASE q = p
    BY <1>7, <2>1, AheadReadNet
  <2>2. CASE q # p
    <3>1. CASE pc' = [pc EXCEPT ![p] = "netput"] /\ seen' = [seen EXCEPT ![p] = nets[want[p]]]
               /\ UNCHANGED <<todo, name, want, snap>>
      BY <1>t, <1>w, <2>2, <3>1 DEF Waits, WorkType
    <3> QED
      BY <1>7, <1>d, <2>2, <3>1 DEF ReadNet
  <2> QED
    BY <2>1, <2>2
<1>8. ASSUME NEW p \in Actors, PutNet(p) PROVE Ahead(q)'
  BY <1>8, <1>d, AheadPutNet DEF PutNet
<1>9. ASSUME NEW p \in Actors, Boot(p) \/ Await(p) \/ Halt(p) \/ Delete(p) \/ Export(p)
      PROVE  Ahead(q)'
  <2>1. /\ pc[p] # "idle" /\ Stage(p) \notin {"ensure", "security", "soft"}
        /\ Finish(p) \/ Continue(p)
    BY <1>9 DEF Boot, Await, Halt, Delete, Export, At
  <2> QED
    BY <1>c, <1>f, <2>1 DEF Continue
<1>10. ASSUME NEW p \in Actors, Create(p) \/ ImportBackup(p) \/ ListNames(p) PROVE Ahead(q)'
  <2>1. pc[p] = "read" /\ Stage(p) \in {"create", "import", "names"}
    BY <1>10 DEF Create, ImportBackup, ListNames, At
  <2>2. \/ Finish(p)
        \/ todo' = [todo EXCEPT ![p] = Tail(todo[p])] /\ UNCHANGED <<pc, name, want, snap, seen>>
    BY <1>10 DEF Create, ImportBackup, ListNames, Make
  <2>3. CASE todo' = [todo EXCEPT ![p] = Tail(todo[p])] /\ UNCHANGED <<pc, name, want, snap, seen>>
    <3>1. CASE q = p
      <4>1. Knows(p)
        BY <2>1 DEF CourseInv
      <4>2. Tail(todo[p]) # <<>>
        <5>1. Tail(todo[p]) \in Course(req[p])
          BY <2>1, <4>1, MakeTail DEF Knows, Stage
        <5> QED
          BY <4>1, <5>1, TailCourse DEF Knows
      <4>3. pc'[q] = "read" /\ todo'[q] = Tail(todo[p])
        BY <1>t, <2>1, <2>3, <3>1 DEF WorkType
      <4> QED
        BY <1>b, <2>1, <4>2, <4>3, AheadFree
    <3>2. CASE q # p
      BY <1>t, <1>w, <2>3, <3>2 DEF Waits, WorkType
    <3> QED
      BY <3>1, <3>2
  <2> QED
    BY <1>f, <2>2, <2>3
<1>11. ASSUME NEW n \in Names, Lease(n) PROVE Ahead(q)'
  BY <1>11, <1>w DEF Lease, work, Waits
<1>12. CASE UNCHANGED vars
  BY <1>12, <1>w DEF vars, work, Waits
<1> QED
  BY <1>1, <1>2, <1>3, <1>4, <1>5, <1>6, <1>7, <1>8, <1>9, <1>10, <1>11, <1>12 DEF Next, Step

\* Every step keeps what runs prepared.
LEMMA PrepStep ==
  TypeOK /\ CourseInv /\ BackupInv /\ OwnInv /\ PortInv /\ PrepInv /\ [Next]_vars => PrepInv'
<1> SUFFICES ASSUME TypeOK, CourseInv, BackupInv, OwnInv, PortInv, PrepInv, [Next]_vars, Orderly'
             PROVE  /\ \A n \in Names : inst'[n] # None /\ inst'[n].run => Prepared(inst[n])'
                    /\ \A p \in Actors : pc'[p] # "idle" => Ahead(p)'
  BY DEF PrepInv
<1>o. Orderly
  BY RegimeKept DEF Orderly, Kind
<1>1. ASSUME NEW n \in Names, inst'[n] # None, inst'[n].run PROVE Prepared(inst[n])'
  <2>1. Lives(n) \/ Starts(n)
    BY <1>1, InstanceCourse DEF Rests
  <2>2. inst'[n].mode \in Modes
    <3>1. inst'[n] \in Instance
      BY <1>1, TypeStep DEF TypeOK
    <3> QED
      BY <3>1, InstanceFields, ZenonT(60)
  <2>3. CASE Lives(n)
    <3>1. Prepared(inst[n]) /\ inst[n] # None
      BY <1>o, <1>1, <2>3 DEF Lives, PrepInv
    <3>2. Steady(n)
      BY <1>o, <1>1, <3>1, PreparedCourse DEF Made, Imported
    <3>3. inst'[n].secure /\ ReadyNet(inst'[n].mode)
      BY <3>1, <3>2 DEF Steady, Prepared
    <3>4. ReadyThen(inst'[n].mode)
      BY <1>o, <2>2, <3>3, NetsKept
    <3> QED
      BY <3>3, <3>4 DEF Prepared, ReadyNet, ReadyThen
  <2>4. CASE Starts(n)
    <3>1. PICK p \in Actors : At(p, "read", "boot") /\ name[p] = n
      BY <2>4 DEF Starts
    <3>2. inst[n] # None /\ pc[p] # "idle" /\ Stage(p) = "boot" /\ Ahead(p)
      BY <1>o, <2>4, <3>1 DEF Starts, At, PrepInv
    <3>3. inst[n].secure /\ ReadyNet(inst[n].mode)
      BY <3>1, <3>2 DEF Ahead, Mine
    <3>4. inst'[n].secure /\ (inst'[n].mode = inst[n].mode \/ ReadyThen(inst'[n].mode))
      BY <1>o, <1>1, <3>1, <3>2, Onward DEF Mine
    <3>5. ReadyThen(inst'[n].mode)
      BY <1>o, <2>2, <3>3, <3>4, NetsKept
    <3> QED
      BY <3>4, <3>5 DEF Prepared, ReadyNet, ReadyThen
  <2> QED
    BY <2>1, <2>3, <2>4
<1>2. ASSUME NEW p \in Actors, pc'[p] # "idle" PROVE Ahead(p)'
  BY <1>o, <1>2, AheadStep
<1> QED
  BY <1>1, <1>2

\* RunsPrepared: whatever container a start finds, a run makes or an import brings in,
\* it has the policy and its network when it runs, also where others edit it, or
\* remove it and make it anew, between the stages (Start, EnsureNetworkMode).
THEOREM PreparedRuns == Spec => [](Orderly => RunsPrepared)
<1>1. Init => TypeOK /\ CourseInv /\ BackupInv /\ OwnInv /\ PortInv /\ PrepInv
  <2>1. ASSUME Init PROVE OwnInv /\ PortInv
    <3>1. /\ \A n \in Names : inst[n] # None =>
               inst[n].boots = 0 /\ (inst[n].addr # None => inst[n].run)
          /\ backup # None => ~backup.run /\ backup.addr = None /\ backup.boots = 0
      BY <2>1, RegimeAssumption DEF Init
    <3>2. starts = 0 /\ refreshed = {} /\ \A p \in Actors : ~Has(p)
      BY <2>1 DEF Init, Has
    <3> QED
      BY <2>1, <3>1, <3>2 DEF Init, OwnInv, PortInv, Numbered
  <2>2. ASSUME Init PROVE PrepInv
    <3>1. inst = regime.inst /\ nets = regime.nets /\ \A p \in Actors : pc[p] = "idle"
      BY <2>2 DEF Init
    <3> QED
      BY <3>1 DEF PrepInv, Orderly, Prepared, ReadyNet
  <2> QED
    BY <2>1, <2>2, TypeInit
<1>2. TypeOK /\ CourseInv /\ BackupInv /\ OwnInv /\ PortInv /\ PrepInv /\ [Next]_vars
        => (TypeOK /\ CourseInv /\ BackupInv /\ OwnInv /\ PortInv /\ PrepInv)'
  BY TypeStep, BackupStep, OwnStep, PortStep, PrepStep
<1>3. PrepInv => (Orderly => RunsPrepared)
  BY DEF PrepInv, Prepared, ReadyNet, RunsPrepared, Existing
<1> QED
  BY <1>1, <1>2, <1>3, PTL DEF Spec
=============================================================================
