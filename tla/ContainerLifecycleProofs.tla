----------------------- MODULE ContainerLifecycleProofs -----------------------
(***************************************************************************)
(* Proofs about the container commands, for any number of them at work at  *)
(* once, any names and addresses and any choice of failing steps.          *)
(***************************************************************************)
EXTENDS ContainerLifecycle, TLAPS

\* The circumstances are typed, and do not change.
LEMMA RegimeFixed ==
  /\ [Next]_vars => UNCHANGED regime
  /\ TypeOK => /\ regime.busy \subseteq Actors /\ regime.on \subseteq Names
               /\ regime.commands \subseteq Requests
BY LifecycleAssumption DEF Next, vars, TypeOK, Regime

\* The value of EXCEPT on a container stays a container.
LEMMA InstanceType ==
  ASSUME NEW i \in Instance
  PROVE  /\ Stopped(i) \in Instance /\ Stopped(i).ip = NoAddr /\ Stopped(i).id = i.id
         /\ [i EXCEPT !.running = TRUE] \in Instance
         /\ [i EXCEPT !.running = TRUE].running /\ [i EXCEPT !.running = TRUE].id = i.id
         /\ \A d \in BOOLEAN : /\ [i EXCEPT !.domain = d] \in Instance
                              /\ [i EXCEPT !.domain = d].ip = i.ip
                              /\ [i EXCEPT !.domain = d].running = i.running
                              /\ [i EXCEPT !.domain = d].id = i.id
         /\ \A x \in Addrs : /\ [i EXCEPT !.ip = x] \in Instance
                            /\ [i EXCEPT !.ip = x].running = i.running
                            /\ [i EXCEPT !.ip = x].id = i.id
BY DEF Instance, Stopped

\* A container put under a command's name keeps the table of instances typed.
LEMMA SetInstType ==
  ASSUME TypeOK, NEW p \in Actors, pc[p] # "idle", NEW i \in Instance \cup {Absent},
         i # Absent /\ i.ip # NoAddr => i.running, SetInst(p, i)
  PROVE  /\ inst' \in [Names -> Instance \cup {Absent}]
         /\ \A n \in Names : inst'[n] # Absent /\ inst'[n].ip # NoAddr => inst'[n].running
BY DEF TypeOK, SetInst

\* A step of a command preserves the types.
LEMMA TypeStep ==
  ASSUME TypeOK, NEW p \in Actors, Step(p), UNCHANGED regime
  PROVE  TypeOK'
<1>0. MaxCalls \in Nat /\ Absent \notin Instance
  BY LifecycleAssumption
<1>1. pc[p] # "idle" => name[p] \in Names
  BY DEF TypeOK
<1>2. pc[p] # "idle" /\ Exists(name[p]) => Mine(p) \in Instance
  BY <1>1 DEF TypeOK, Exists, Mine
<1>3. Failure(p) \/ Fail(p) => /\ pc' \in [Actors -> Steps]
                               /\ outcome' \in [Actors -> {"none", "ok", "failed"}]
                               /\ \A q \in Actors : pc'[q] # "idle" => pc[q] # "idle" \/ q = p
  BY DEF Failure, Fail, Goto, GiveUp, TypeOK, Steps
<1> USE <1>0, <1>1, <1>2, <1>3
<1> USE DEF TypeOK, At, Goto, Succeed, GiveUp, SetInst, callVars, hostVars
<1>4. CASE ReadRestart(p) BY <1>4 DEF ReadRestart, Steps, Verbs, Requests
<1>5. CASE ReadFree(p) BY <1>5 DEF ReadFree, Steps
<1>6. CASE Read(p)
  <2>1. Exists(name[p]) => Mine(p).ip \in Addrs \cup {NoAddr} /\ Mine(p).domain \in BOOLEAN
    BY <1>6 DEF Read, Instance
  <2>2. QED BY <1>6, <2>1 DEF Read, Look, Steps
<1>7. CASE Create(p)
  <2> DEFINE new == [id |-> born + 1, running |-> FALSE, ip |-> NoAddr, domain |-> FALSE]
  <2>1. born < MaxCalls => born + 1 \in 1..MaxCalls
    OBVIOUS
  <2>2. born < MaxCalls => new \in Instance /\ new.ip = NoAddr
    BY <2>1 DEF Instance
  <2>3. SetInst(p, new) /\ born < MaxCalls =>
          /\ inst' \in [Names -> Instance \cup {Absent}]
          /\ \A n \in Names : inst'[n] # Absent /\ inst'[n].ip # NoAddr => inst'[n].running
    BY <1>7, <2>2, SetInstType DEF Create
  <2> HIDE DEF new, SetInst
  <2>4. QED BY <1>7, <2>1, <2>3 DEF Create, Steps, new
<1>8. CASE Boot(p)
  <2>1. CASE SetInst(p, [Mine(p) EXCEPT !.running = TRUE]) /\ Exists(name[p])
    <3>1. /\ inst' \in [Names -> Instance \cup {Absent}]
          /\ \A n \in Names : inst'[n] # Absent /\ inst'[n].ip # NoAddr => inst'[n].running
      BY <1>8, <2>1, InstanceType, SetInstType DEF Boot
    <3> HIDE DEF SetInst
    <3>2. QED BY <1>8, <3>1 DEF Boot, Steps
  <2>2. QED BY <1>8, <2>1 DEF Boot, Steps
<1>9. CASE Reread(p)
  <2>1. Exists(name[p]) => Mine(p).ip \in Addrs \cup {NoAddr} /\ Mine(p).domain \in BOOLEAN
    BY <1>9 DEF Reread, Instance
  <2>2. QED BY <1>9, <2>1 DEF Reread, Look, Steps
<1>10. CASE WaitForIP(p) BY <1>10 DEF WaitForIP, HasAddr, Steps, Instance
<1>11. CASE WaitTimesOut(p) BY <1>11 DEF WaitTimesOut, Steps
<1>12. CASE ListTargets(p)
  <2>1. {inst[n].ip : n \in {m \in Bridged : Running(m)}} \ {NoAddr} \subseteq Addrs
    BY LifecycleAssumption DEF Running, Exists, Instance
  <2>2. QED BY <1>12, <2>1 DEF ListTargets, Steps
<1>13. CASE AddRoutes(p) BY <1>13 DEF AddRoutes, Steps
<1>14. CASE ChangeDomain(p)
  <2>1. UNCHANGED inst \/ /\ inst' \in [Names -> Instance \cup {Absent}]
                          /\ \A n \in Names : inst'[n] # Absent /\ inst'[n].ip # NoAddr
                                                => inst'[n].running
    <3> DEFINE new == [Mine(p) EXCEPT !.domain = cmd[p] # "unset-domain"]
    <3>1. CASE Exists(name[p]) /\ SetInst(p, new)
      <4>0. Mine(p) \in Instance
        BY <1>14, <3>1, InstanceType DEF ChangeDomain
      <4>1. new \in Instance /\ new.ip = Mine(p).ip /\ new.running = Mine(p).running
        BY <4>0 DEF Instance
      <4>2. new.ip # NoAddr => new.running
        BY <1>14, <3>1, <4>1 DEF ChangeDomain, Mine, Exists
      <4> HIDE DEF new
      <4>3. QED BY <1>14, <3>1, <4>1, <4>2, SetInstType DEF ChangeDomain
    <3>2. QED BY <1>14, <3>1 DEF ChangeDomain
  <2> HIDE DEF SetInst
  <2>2. QED BY <1>14, <2>1 DEF ChangeDomain, Steps
<1>15. CASE UpdateHosts(p) BY <1>15 DEF UpdateHosts, Steps
<1>16. CASE Ports(p) BY <1>16 DEF Ports, Steps
<1>17. CASE Halt(p)
  <2>1. UNCHANGED inst \/ /\ inst' \in [Names -> Instance \cup {Absent}]
                          /\ \A n \in Names : inst'[n] # Absent /\ inst'[n].ip # NoAddr
                                                => inst'[n].running
    <3>1. CASE Exists(name[p]) /\ SetInst(p, Stopped(Mine(p)))
      <4>1. pc[p] # "idle"
        BY <1>17 DEF Halt
      <4>2. Stopped(Mine(p)) \in Instance /\ Stopped(Mine(p)).ip = NoAddr
        BY <3>1, <4>1, InstanceType
      <4>3. QED BY <3>1, <4>1, <4>2, SetInstType
    <3>2. QED BY <1>17, <3>1 DEF Halt
  <2> HIDE DEF SetInst
  <2>2. QED BY <1>17, <2>1 DEF Halt, Steps
<1>18. CASE Delete(p) BY <1>18 DEF Delete, Steps
<1>19. CASE RemoveHostsLine(p) BY <1>19 DEF RemoveHostsLine, Steps
<1>20. CASE RemoveRoute(p) BY <1>20 DEF RemoveRoute, Steps, Verbs, Requests
<1>21. CASE UndoHosts(p) BY <1>21 DEF UndoHosts, Steps
<1>22. CASE UndoHalt(p)
  <2>1. UNCHANGED inst \/ /\ inst' \in [Names -> Instance \cup {Absent}]
                          /\ \A n \in Names : inst'[n] # Absent /\ inst'[n].ip # NoAddr
                                                => inst'[n].running
    <3>1. CASE Exists(name[p]) /\ SetInst(p, Stopped(Mine(p)))
      <4>1. pc[p] # "idle"
        BY <1>22 DEF UndoHalt
      <4>2. Stopped(Mine(p)) \in Instance /\ Stopped(Mine(p)).ip = NoAddr
        BY <3>1, <4>1, InstanceType
      <4>3. QED BY <3>1, <4>1, <4>2, SetInstType
    <3>2. QED BY <1>22, <3>1 DEF UndoHalt
  <2> HIDE DEF SetInst
  <2>2. QED BY <1>22, <2>1 DEF UndoHalt, Steps
<1>23. CASE UndoDelete(p) BY <1>23 DEF UndoDelete, Steps
<1>24. QED
  BY <1>4, <1>5, <1>6, <1>7, <1>8, <1>9, <1>10, <1>11, <1>12, <1>13, <1>14, <1>15,
     <1>16, <1>17, <1>18, <1>19, <1>20, <1>21, <1>22, <1>23 DEF Step

\* Every reachable state is well typed, and only running containers have an
\* address.
THEOREM TypeCorrect == Spec => []TypeOK
<1>1. Init => TypeOK
  BY LifecycleAssumption DEF Init, TypeOK, Steps, Verbs, Requests
<1>2. TypeOK /\ [Next]_vars => TypeOK'
  <2> SUFFICES ASSUME TypeOK, [Next]_vars PROVE TypeOK'
    OBVIOUS
  <2>0. UNCHANGED regime
    BY RegimeFixed
  <2>1. ASSUME NEW p \in Actors, NEW c \in Requests, NEW n \in Names, Begin(p, c, n)
        PROVE  TypeOK'
    <3>0. regime.calls \in 0..MaxCalls
      BY LifecycleAssumption DEF TypeOK, Regime
    <3>1. c \in Verbs /\ n # NoName /\ calls + 1 \in 0..MaxCalls
      BY <2>1, <3>0, LifecycleAssumption DEF Verbs, Begin, TypeOK
    <3>2. /\ pc' \in [Actors -> Steps] /\ cmd' \in [Actors -> Verbs]
          /\ name' \in [Actors -> Names \cup {NoName}] /\ dom' \in [Actors -> BOOLEAN]
          /\ snap' \in [Actors -> Instance \cup {Absent}]
          /\ ip' \in [Actors -> Addrs \cup {NoAddr}]
      BY <2>1, <3>1 DEF Begin, TypeOK, Steps
    <3>3. /\ made' \in [Actors -> 0..MaxCalls] /\ targets' \in [Actors -> SUBSET Addrs]
          /\ outcome' \in [Actors -> {"none", "ok", "failed"}]
      BY <2>1, LifecycleAssumption DEF Begin, TypeOK
    <3>4. \A q \in Actors : pc'[q] # "idle" => name'[q] # NoName
      BY <2>1, <3>1 DEF Begin, TypeOK
    <3>5. calls' \in 0..MaxCalls /\ UNCHANGED <<inst, born, hosts, routes>>
      BY <2>1, <3>1 DEF Begin, hostVars
    <3>6. QED BY <2>0, <3>2, <3>3, <3>4, <3>5 DEF TypeOK
  <2>2. ASSUME NEW p \in Actors, Step(p) PROVE TypeOK'
    BY <2>0, <2>2, TypeStep
  <2>3. ASSUME NEW n \in Names, Lease(n) \/ PowersOff(n) PROVE TypeOK'
    <3>1. inst[n] \in Instance /\ inst[n].running
      BY <2>3 DEF Lease, PowersOff, Running, Exists, TypeOK
    <3>2. PICK i \in Instance : inst' = [inst EXCEPT ![n] = i] /\ (i.ip # NoAddr => i.running)
      <4>1. CASE PowersOff(n)
        <5>1. inst' = [inst EXCEPT ![n] = Stopped(inst[n])]
          BY <4>1 DEF PowersOff
        <5>2. QED BY <3>1, <5>1, InstanceType
      <4>2. CASE Lease(n)
        <5>1. PICK x \in Addrs : inst' = [inst EXCEPT ![n].ip = x]
          BY <4>2 DEF Lease
        <5>2. inst' = [inst EXCEPT ![n] = [inst[n] EXCEPT !.ip = x]]
          BY <5>1
        <5>3. [inst[n] EXCEPT !.ip = x] \in Instance /\ [inst[n] EXCEPT !.ip = x].running
          BY <3>1, InstanceType
        <5>4. QED BY <5>2, <5>3
      <4>3. QED BY <2>3, <4>1, <4>2
    <3>3. UNCHANGED <<born, hostVars, calls, pc, callVars, outcome>>
      BY <2>3 DEF Lease, PowersOff
    <3>4. QED BY <2>0, <3>2, <3>3 DEF TypeOK, callVars, hostVars
  <2>4. CASE UNCHANGED vars
    BY <2>4 DEF vars, callVars, hostVars, TypeOK
  <2>5. QED BY <2>1, <2>2, <2>3, <2>4, RegimeFixed DEF Next
<1>3. QED BY <1>1, <1>2, PTL DEF Spec

-----------------------------------------------------------------------------
(* Rollbacks.  As long as nobody removes containers, the container a        *)
(* command created is there, under its name, until its own rollback has     *)
(* deleted it.                                                              *)

Creating == {"install", "run"}
Undoing  == {"undo-hosts", "undo-halt", "undo-delete"}

\* Where a command stands tells what it is and whether it has created anything.
Stage(p) ==
  /\ cmd[p] # "remove" /\ pc[p] # "delete"
  /\ pc[p] \in {"create"} \cup Undoing => cmd[p] \in Creating
  /\ cmd[p] \in Creating /\ pc[p] \notin {"idle", "read", "create"} => made[p] # 0

\* A command under way owns what it created.
Owner(p) == pc[p] # "idle" /\ made[p] # 0 => Exists(name[p]) /\ Mine(p).id = made[p]

\* No two commands created one container.
Distinct == \A p, q \in Actors : p # q /\ made[p] # 0 => made[p] # made[q]

\* While nobody removes containers, each is its creator's.
OwnInv ==
  /\ \A p \in Actors : Stage(p) /\ Owner(p) /\ made[p] <= born
  /\ Distinct

\* A step of a command is its own: of the others' state it changes the containers
\* alone, and of those only the one of its name.
LEMMA StepLocal ==
  ASSUME TypeOK, NEW p \in Actors, Step(p)
  PROVE  /\ pc[p] # "idle" /\ name' = name
         /\ \A q \in Actors \ {p} :
              pc'[q] = pc[q] /\ cmd'[q] = cmd[q] /\ made'[q] = made[q]
         /\ \A n \in Names \ {name[p]} : inst'[n] = inst[n]
         /\ name[p] \in Names
         /\ born \in Nat /\ born <= born' /\ made' \in [Actors -> Nat]
BY LifecycleAssumption DEF TypeOK, Step, ReadRestart, ReadFree, Read, Create, Boot, Reread,
   WaitForIP, WaitTimesOut, ListTargets, AddRoutes, ChangeDomain, UpdateHosts, Ports, Halt,
   Delete, RemoveHostsLine, RemoveRoute, UndoHosts, UndoHalt, UndoDelete, Failure, Fail,
   Goto, GiveUp, Succeed, SetInst, At, callVars

\* A step creates a container of a free name, deletes one in its rollback, or
\* changes nothing that identifies one.
Creates(p) ==
  /\ pc[p] = "create" /\ ~Exists(name[p]) /\ born' = born + 1 /\ made'[p] = born + 1
  /\ Exists(name[p])' /\ inst'[name[p]].id = born + 1

Deletes(p) ==
  /\ pc[p] = "undo-delete" /\ pc'[p] = "idle" /\ inst'[name[p]] = Absent
  /\ born' = born /\ made' = made

Leaves(p) ==
  /\ born' = born /\ made' = made
  /\ Exists(name[p])' = Exists(name[p])
  /\ Exists(name[p]) => inst'[name[p]].id = inst[name[p]].id

\* What a step does to the container of its command: make it, delete it in a
\* rollback, or leave it the same container.
LEMMA StepKind ==
  ASSUME TypeOK, OwnInv, NEW p \in Actors, Step(p)
  PROVE  Creates(p) \/ Deletes(p) \/ Leaves(p)
<1>0. Absent \notin Instance /\ MaxCalls \in Nat
  BY LifecycleAssumption
<1>1. name[p] \in Names /\ (Exists(name[p]) => Mine(p) \in Instance)
  BY StepLocal DEF TypeOK, Exists, Mine
<1>2. pc[p] # "delete"
  BY DEF OwnInv, Stage
<1>a. name' = name
  BY StepLocal
<1> DEFINE Same == UNCHANGED <<born, made>> /\ inst'[name[p]] = inst[name[p]]
<1>3. Same => Leaves(p)
  BY <1>a DEF Leaves, Exists
<1>4. ASSUME NEW i \in Instance, SetInst(p, i), Exists(name[p]), i.id = Mine(p).id,
             UNCHANGED <<born, made>>
      PROVE  Leaves(p)
  <2>1. inst'[name[p]] = i /\ i # Absent
    BY <1>0, <1>1, <1>4 DEF SetInst, TypeOK
  <2>2. QED BY <1>a, <1>4, <2>1 DEF Leaves, Exists, Mine
<1> USE <1>0, <1>1, <1>2
<1>5. CASE Create(p)
  <2> DEFINE new == [id |-> born + 1, running |-> FALSE, ip |-> NoAddr, domain |-> FALSE]
  <2>1. CASE ~Exists(name[p]) /\ born < MaxCalls /\ SetInst(p, new) /\ born' = born + 1
               /\ made' = [made EXCEPT ![p] = born + 1]
    <3>1. new \in Instance /\ new.id = born + 1
      BY <2>1 DEF Instance, TypeOK
    <3>2. inst'[name[p]] = new
      BY <2>1 DEF SetInst, TypeOK
    <3>3. made'[p] = born + 1
      BY <2>1 DEF TypeOK
    <3> HIDE DEF new
    <3>4. QED BY <1>5, <2>1, <3>1, <3>2, <3>3 DEF Creates, Create, At, Exists
  <2>2. CASE UNCHANGED <<inst, born, made>>
    BY <1>3, <2>2
  <2>3. QED BY <1>5, <2>1, <2>2 DEF Create
<1>6. CASE Boot(p)
  <2>1. CASE Exists(name[p]) /\ SetInst(p, [Mine(p) EXCEPT !.running = TRUE])
    BY <1>4, <1>6, <2>1, InstanceType DEF Boot, callVars
  <2>2. QED BY <1>3, <1>6, <2>1 DEF Boot, callVars
<1>7. CASE ChangeDomain(p)
  <2>1. CASE Exists(name[p]) /\ SetInst(p, [Mine(p) EXCEPT !.domain = cmd[p] # "unset-domain"])
    BY <1>4, <1>7, <2>1, InstanceType DEF ChangeDomain, callVars
  <2>2. QED BY <1>3, <1>7, <2>1 DEF ChangeDomain, callVars
<1>8. CASE Halt(p) \/ UndoHalt(p)
  <2>1. CASE Exists(name[p]) /\ SetInst(p, Stopped(Mine(p)))
    BY <1>4, <1>8, <2>1, InstanceType DEF Halt, UndoHalt, callVars
  <2>2. QED BY <1>3, <1>8, <2>1 DEF Halt, UndoHalt, callVars
<1>9. CASE UndoDelete(p)
  <2>1. pc[p] = "undo-delete" /\ pc'[p] = "idle" /\ UNCHANGED <<born, made>>
    BY <1>9 DEF UndoDelete, At, GiveUp, TypeOK, callVars
  <2>2. CASE SetInst(p, Absent)
    BY <2>1, <2>2 DEF Deletes, SetInst, TypeOK
  <2>3. QED BY <1>3, <1>9, <2>1, <2>2 DEF UndoDelete
<1>10. CASE Delete(p)
  BY <1>10 DEF Delete, At
<1>11. CASE ReadRestart(p) \/ ReadFree(p) \/ Read(p) \/ Reread(p) \/ WaitForIP(p)
              \/ WaitTimesOut(p) \/ ListTargets(p) \/ AddRoutes(p) \/ UpdateHosts(p)
              \/ Ports(p) \/ RemoveHostsLine(p) \/ RemoveRoute(p) \/ UndoHosts(p)
  BY <1>3, <1>11 DEF ReadRestart, ReadFree, Read, Reread, WaitForIP, WaitTimesOut,
     ListTargets, AddRoutes, UpdateHosts, Ports, RemoveHostsLine, RemoveRoute, UndoHosts,
     callVars
<1>12. QED
  BY <1>5, <1>6, <1>7, <1>8, <1>9, <1>10, <1>11 DEF Step

\* A step keeps its command where a command of that kind can be.
LEMMA StageStep ==
  ASSUME TypeOK, OwnInv, NEW p \in Actors, Step(p)
  PROVE  Stage(p)'
<1>1. Stage(p)
  BY DEF OwnInv
<1>2. Creates(p) => made'[p] # 0
  BY DEF Creates, TypeOK
<1>3. Fail(p) => /\ pc'[p] \in {"idle"} \cup Undoing
                 /\ pc'[p] # "idle" => cmd[p] \in Creating /\ pc[p] \notin {"read", "create", "boot"}
  BY DEF Fail, Goto, GiveUp, TypeOK, Creating, Undoing
<1>4. made'[p] = made[p] \/ Creates(p)
  BY StepKind DEF Deletes, Leaves
<1> USE <1>1, <1>2, <1>3, <1>4
<1> USE DEF Stage, Creating, Undoing, Goto, GiveUp, Succeed, TypeOK, At, Failure, callVars
<1>5. CASE ReadRestart(p) \/ ReadFree(p) \/ Read(p)
  BY <1>5 DEF ReadRestart, ReadFree, Read
<1>6. CASE Create(p) BY <1>6, StepLocal DEF Create, Creates
<1>7. CASE Boot(p) \/ Reread(p) \/ WaitForIP(p) \/ WaitTimesOut(p)
  BY <1>7 DEF Boot, Reread, WaitForIP, WaitTimesOut
<1>8. CASE ListTargets(p) \/ AddRoutes(p) \/ ChangeDomain(p) \/ UpdateHosts(p) \/ Ports(p)
  BY <1>8 DEF ListTargets, AddRoutes, ChangeDomain, UpdateHosts, Ports
<1>9. CASE Halt(p) \/ Delete(p) \/ RemoveHostsLine(p) \/ RemoveRoute(p)
  BY <1>9 DEF Halt, Delete, RemoveHostsLine, RemoveRoute
<1>10. CASE UndoHosts(p) \/ UndoHalt(p) \/ UndoDelete(p)
  BY <1>10 DEF UndoHosts, UndoHalt, UndoDelete
<1>11. QED BY <1>5, <1>6, <1>7, <1>8, <1>9, <1>10 DEF Step

\* A step keeps the containers with those who made them.
LEMMA OwnStep ==
  ASSUME TypeOK, OwnInv, NEW p \in Actors, Step(p)
  PROVE  OwnInv'
<1>1. \A q \in Actors : Stage(q) /\ Owner(q) /\ made[q] <= born /\ made[q] \in Nat
  BY LifecycleAssumption DEF OwnInv, TypeOK
<1>2. Distinct
  BY DEF OwnInv
<1>3. Creates(p) \/ Deletes(p) \/ Leaves(p)
  BY StepKind
<1>4. /\ pc[p] # "idle" /\ name' = name /\ name[p] \in Names
      /\ \A q \in Actors \ {p} : pc'[q] = pc[q] /\ cmd'[q] = cmd[q] /\ made'[q] = made[q]
      /\ \A n \in Names \ {name[p]} : inst'[n] = inst[n]
      /\ born \in Nat /\ born <= born'
  BY StepLocal
<1>5. \A q \in Actors : pc[q] # "idle" => name[q] \in Names
  BY DEF TypeOK
<1>6. ASSUME NEW q \in Actors PROVE Stage(q)'
  <2>1. CASE q = p BY <2>1, StageStep
  <2>2. CASE q # p BY <1>1, <1>4, <2>2 DEF Stage
  <2>3. QED BY <2>1, <2>2
<1>7. \A q \in Actors : made'[q] <= born'
  BY <1>1, <1>3, <1>4 DEF Creates, Deletes, Leaves
<1>8. Distinct'
  <2>1. CASE Creates(p)
    BY <1>1, <1>2, <1>4, <2>1 DEF Creates, Distinct
  <2>2. CASE made' = made
    BY <1>2, <2>2 DEF Distinct
  <2>3. QED BY <1>3, <2>1, <2>2 DEF Deletes, Leaves
<1>9. ASSUME NEW q \in Actors, pc'[q] # "idle", made'[q] # 0
      PROVE  Exists(name[q])' /\ inst'[name[q]].id = made'[q]
  <2>1. CASE q = p
    <3>1. CASE Creates(p) BY <2>1, <3>1 DEF Creates
    <3>2. CASE Deletes(p) BY <1>9, <2>1, <3>2 DEF Deletes
    <3>3. CASE Leaves(p)
      BY <1>1, <1>4, <1>9, <2>1, <3>3 DEF Leaves, Owner, Mine
    <3>4. QED BY <1>3, <3>1, <3>2, <3>3
  <2>2. CASE q # p
    <3>1. pc[q] # "idle" /\ made[q] # 0 /\ made'[q] = made[q]
      BY <1>4, <1>9, <2>2
    <3>2. Exists(name[q]) /\ inst[name[q]].id = made[q] /\ name[q] \in Names
      BY <1>1, <1>5, <3>1 DEF Owner, Mine
    <3>3. CASE name[q] # name[p]
      BY <1>4, <3>1, <3>2, <3>3 DEF Exists
    <3>4. CASE name[q] = name[p]
      <4>1. ~Creates(p)
        BY <3>2, <3>4 DEF Creates
      <4>2. ~Deletes(p)
        <5>1. SUFFICES ASSUME pc[p] = "undo-delete" PROVE FALSE
          BY DEF Deletes
        <5>2. made[p] # 0 /\ inst[name[p]].id = made[p]
          BY <1>1, <5>1 DEF Stage, Owner, Undoing, Mine
        <5>3. QED BY <1>2, <2>2, <3>1, <3>2, <3>4, <5>2 DEF Distinct
      <4>3. QED BY <1>3, <1>4, <3>1, <3>2, <3>4, <4>1, <4>2 DEF Leaves
    <3>5. QED BY <3>3, <3>4
  <2>3. QED BY <2>1, <2>2
<1>10. \A q \in Actors : Owner(q)'
  BY <1>4, <1>9 DEF Owner, Mine
<1>11. QED BY <1>6, <1>7, <1>8, <1>10 DEF OwnInv

\* So does every step of the system while nobody removes.
LEMMA OwnNext ==
  ASSUME "remove" \notin regime.commands, TypeOK, OwnInv, [Next]_vars
  PROVE  OwnInv'
<1>1. ASSUME NEW p \in Actors, NEW c \in regime.commands, NEW n \in Names, Begin(p, c, n)
      PROVE  OwnInv'
  <2>1. /\ c # "remove" /\ pc' = [pc EXCEPT ![p] = IF c = "install" THEN "create" ELSE "read"]
        /\ cmd' = [cmd EXCEPT ![p] = c] /\ made' = [made EXCEPT ![p] = 0]
        /\ name' = [name EXCEPT ![p] = n] /\ UNCHANGED <<inst, born>>
    BY <1>1 DEF Begin
  <2>2. born \in Nat
    BY LifecycleAssumption DEF TypeOK
  <2>3. \A q \in Actors : Stage(q)'
    BY <2>1 DEF OwnInv, Stage, TypeOK, Creating, Undoing
  <2>4. \A q \in Actors : Owner(q)' /\ made'[q] <= born'
    BY <2>1, <2>2 DEF OwnInv, Owner, Mine, Exists, TypeOK
  <2>5. Distinct'
    BY <2>1 DEF OwnInv, Distinct, TypeOK
  <2>6. QED BY <2>3, <2>4, <2>5 DEF OwnInv
<1>2. ASSUME NEW p \in Actors, Step(p) PROVE OwnInv'
  BY <1>2, OwnStep
<1>3. ASSUME NEW n \in Names, Lease(n) \/ PowersOff(n) PROVE OwnInv'
  <2>1. inst[n] \in Instance /\ Exists(n) /\ Absent \notin Instance
    BY <1>3, LifecycleAssumption DEF Lease, PowersOff, Running, Exists, TypeOK
  <2>2. PICK i \in Instance : inst' = [inst EXCEPT ![n] = i] /\ i.id = inst[n].id
    <3>1. CASE PowersOff(n)
      <4>1. inst' = [inst EXCEPT ![n] = Stopped(inst[n])]
        BY <3>1 DEF PowersOff
      <4>2. QED BY <2>1, <4>1, InstanceType
    <3>2. CASE Lease(n)
      <4>1. PICK x \in Addrs : inst' = [inst EXCEPT ![n].ip = x]
        BY <3>2 DEF Lease
      <4>2. inst' = [inst EXCEPT ![n] = [inst[n] EXCEPT !.ip = x]]
        BY <4>1
      <4>3. [inst[n] EXCEPT !.ip = x] \in Instance /\ [inst[n] EXCEPT !.ip = x].id = inst[n].id
        BY <2>1, InstanceType
      <4>4. QED BY <4>2, <4>3
    <3>3. QED BY <1>3, <3>1, <3>2
  <2>3. UNCHANGED <<born, pc, cmd, name, made>>
    BY <1>3 DEF Lease, PowersOff, callVars
  <2>4. \A m \in Names : Exists(m) => inst'[m] # Absent /\ inst'[m].id = inst[m].id
    BY <2>1, <2>2 DEF Exists, TypeOK
  <2>5. \A q \in Actors : pc[q] # "idle" => name[q] \in Names
    BY DEF TypeOK
  <2>6. QED BY <2>3, <2>4, <2>5 DEF OwnInv, Stage, Owner, Mine, Exists, Distinct
<1>4. CASE UNCHANGED vars
  BY <1>4 DEF vars, callVars, OwnInv, Stage, Owner, Mine, Exists, Distinct
<1>5. QED BY <1>1, <1>2, <1>3, <1>4, RegimeFixed DEF Next

\* Where no container is removed by hand, a rollback deletes no container but
\* the one its command created, however many commands use the same name.
THEOREM RollbackDeletesOwn == Spec => RollbackOwn
<1> DEFINE Kept == "remove" \notin regime.commands => OwnInv
           Own == \A n \in Names : Exists(n) /\ inst'[n] = Absent =>
                    \/ "remove" \in regime.commands
                    \/ \E p \in Actors :
                         pc[p] = "undo-delete" /\ name[p] = n /\ made[p] = inst[n].id
<1>1. Init => Kept
  BY DEF Init, OwnInv, Stage, Owner, Distinct, Creating, Undoing
<1>2. TypeOK /\ Kept /\ [Next]_vars => Kept'
  BY OwnNext, RegimeFixed
<1>3. TypeOK /\ Kept /\ [Next]_vars => [Own]_vars
  <2> SUFFICES ASSUME TypeOK, OwnInv, Next, NEW n \in Names, Exists(n), inst'[n] = Absent
               PROVE  \E p \in Actors :
                        pc[p] = "undo-delete" /\ name[p] = n /\ made[p] = inst[n].id
    OBVIOUS
  <2>1. CASE \E p \in Actors : Step(p)
    <3>1. PICK p \in Actors : Step(p)
      BY <2>1
    <3>2. name[p] = n /\ name'[p] = n
      BY <3>1, StepLocal DEF Exists
    <3>3. Deletes(p)
      BY <3>1, <3>2, StepKind DEF Creates, Leaves, Exists
    <3>4. made[p] # 0 /\ inst[n].id = made[p]
      BY <3>2, <3>3 DEF Deletes, OwnInv, Stage, Owner, Undoing, Mine
    <3>5. QED BY <3>2, <3>3, <3>4 DEF Deletes
  <2>2. CASE \E p \in Actors, c \in regime.commands, m \in Names : Begin(p, c, m)
    BY <2>2 DEF Begin, Exists
  <2>3. CASE \E m \in Names : Lease(m) \/ PowersOff(m)
    <3>1. PICK m \in Names : Lease(m) \/ PowersOff(m)
      BY <2>3
    <3>2. inst[m] \in Instance /\ Absent \notin Instance
      BY <3>1, LifecycleAssumption DEF Lease, PowersOff, Running, Exists, TypeOK
    <3>3. CASE PowersOff(m)
      <4>1. inst' = [inst EXCEPT ![m] = Stopped(inst[m])] /\ Stopped(inst[m]) # Absent
        BY <3>2, <3>3, InstanceType DEF PowersOff
      <4>2. QED BY <4>1 DEF Exists, TypeOK
    <3>4. CASE Lease(m)
      <4>1. PICK x \in Addrs : inst' = [inst EXCEPT ![m].ip = x]
        BY <3>4 DEF Lease
      <4>2. [inst[m] EXCEPT !.ip = x] # Absent
        BY <3>2, InstanceType
      <4>3. inst' = [inst EXCEPT ![m] = [inst[m] EXCEPT !.ip = x]]
        BY <4>1
      <4>4. QED BY <4>2, <4>3 DEF Exists, TypeOK
    <3>5. QED BY <3>1, <3>3, <3>4
  <2>4. QED BY <2>1, <2>2, <2>3, RegimeFixed DEF Next
<1>4. QED BY <1>1, <1>2, <1>3, TypeCorrect, PTL DEF Spec, RollbackOwn

-----------------------------------------------------------------------------
(* One command at a time.  What a command may take for granted between two  *)
(* of its requests is then what it left there itself.                       *)

\* The verbs that stop a container.
Ending == {"stop", "stop-then-start", "remove"}

\* Which commands come to which steps.
Course(p) ==
  /\ pc[p] \in {"create"} \cup Undoing => cmd[p] \in Creating
  /\ pc[p] = "reread" => cmd[p] = "start"
  /\ pc[p] = "boot" => cmd[p] \in {"start"} \cup Creating
  /\ pc[p] \in {"wait", "list", "route", "ports", "hosts"} =>
       cmd[p] \in {"start", "set-domain"} \cup Creating
  /\ cmd[p] = "set-domain" => pc[p] \in {"idle", "read", "domain", "wait", "hosts"}
  /\ cmd[p] = "install" => pc[p] \notin {"read", "domain", "hosts", "ports"}
  /\ pc[p] = "domain" => cmd[p] \in {"run", "set-domain", "unset-domain"}
  /\ pc[p] \in {"halt", "unroute"} => cmd[p] \in Ending
  /\ pc[p] = "delete" => cmd[p] = "remove"
  /\ pc[p] = "unhost" => cmd[p] \in {"unset-domain"} \cup Ending
  /\ cmd[p] \in Creating /\ pc[p] \notin {"idle", "read", "create"} => made[p] # 0
  /\ made[p] # 0 => cmd[p] \in Creating /\ pc[p] \notin {"read", "create"}
  /\ outcome[p] # "none" => pc[p] = "idle" /\ name[p] # NoName
  /\ p \notin regime.busy => pc[p] = "idle" /\ outcome[p] = "none"

\* Every command is on its course.
CourseInv == \A p \in Actors : Course(p)

\* A step changes the state of its own command alone.
LEMMA StepAlone ==
  ASSUME TypeOK, NEW p \in Actors, Step(p)
  PROVE  \A q \in Actors \ {p} :
           /\ pc'[q] = pc[q] /\ outcome'[q] = outcome[q] /\ cmd'[q] = cmd[q]
           /\ made'[q] = made[q] /\ snap'[q] = snap[q] /\ ip'[q] = ip[q]
           /\ dom'[q] = dom[q] /\ targets'[q] = targets[q]
BY DEF TypeOK, Step, ReadRestart, ReadFree, Read, Create, Boot, Reread,
   WaitForIP, WaitTimesOut, ListTargets, AddRoutes, ChangeDomain, UpdateHosts, Ports, Halt,
   Delete, RemoveHostsLine, RemoveRoute, UndoHosts, UndoHalt, UndoDelete, Failure, Fail,
   Goto, GiveUp, Succeed, Look, At, callVars

\* Where a command stands tells which step it takes.
LEMMA StepAt ==
  ASSUME NEW p \in Actors, Step(p)
  PROVE  /\ pc[p] = "create" => Create(p)
         /\ pc[p] = "boot" => Boot(p)
         /\ pc[p] = "halt" => Halt(p)
         /\ pc[p] = "delete" => Delete(p)
         /\ pc[p] = "unhost" => RemoveHostsLine(p)
         /\ pc[p] = "unroute" => RemoveRoute(p)
         /\ pc[p] = "undo-hosts" => UndoHosts(p)
         /\ pc[p] = "undo-halt" => UndoHalt(p)
         /\ pc[p] = "undo-delete" => UndoDelete(p)
         /\ pc[p] = "read" => ReadRestart(p) \/ ReadFree(p) \/ Read(p)
         /\ pc[p] \in {"reread", "wait", "list", "route", "domain", "hosts", "ports"} =>
              \/ Reread(p) \/ WaitForIP(p) \/ WaitTimesOut(p) \/ ListTargets(p)
              \/ AddRoutes(p) \/ ChangeDomain(p) \/ UpdateHosts(p) \/ Ports(p)
BY DEF Step, ReadRestart, ReadFree, Read, Create, Boot, Reread, WaitForIP, WaitTimesOut,
   ListTargets, AddRoutes, ChangeDomain, UpdateHosts, Ports, Halt, Delete, RemoveHostsLine,
   RemoveRoute, UndoHosts, UndoHalt, UndoDelete, At

\* An error ends a command, or begins its rollback.
LEMMA FailStep ==
  ASSUME TypeOK, NEW p \in Actors, Fail(p) \/ Failure(p)
  PROVE  \/ pc'[p] = "idle" /\ outcome'[p] = "failed"
            /\ (pc[p] \in {"read", "create", "boot"} \/ cmd[p] \notin Creating)
         \/ /\ pc'[p] \in {"undo-hosts", "undo-halt"} /\ outcome'[p] = outcome[p]
            /\ pc[p] \notin {"read", "create", "boot"} /\ cmd[p] \in Creating
BY DEF Failure, Fail, Goto, GiveUp, TypeOK, Creating

\* A step takes a command to one of the next steps of its kind.
LEMMA CourseStep ==
  ASSUME TypeOK, CourseInv, NEW p \in Actors, p \in regime.busy, Step(p), UNCHANGED regime
  PROVE  CourseInv'
<1>1. Course(p) /\ pc[p] # "idle" /\ name[p] # NoName /\ name' = name
  BY StepLocal DEF CourseInv, TypeOK
<1>2. Fail(p) \/ Failure(p) =>
        \/ pc'[p] = "idle" /\ outcome'[p] = "failed"
        \/ /\ pc'[p] \in {"undo-hosts", "undo-halt"} /\ outcome'[p] = outcome[p]
           /\ pc[p] \notin {"read", "create", "boot"} /\ cmd[p] \in Creating
  BY FailStep
<1>3. Course(p)'
  <2> USE <1>1, <1>2 DEF Course, Creating, Undoing, Ending, Goto, GiveUp, Succeed, TypeOK, At,
                         callVars
  <2>1. CASE ReadRestart(p) BY <2>1 DEF ReadRestart
  <2>2. CASE ReadFree(p) BY <2>2 DEF ReadFree
  <2>3. CASE Read(p) BY <2>3 DEF Read
  <2>4. CASE Create(p)
    <3>1. made'[p] # 0 \/ made' = made
      BY <2>4, LifecycleAssumption DEF Create
    <3>2. QED BY <2>4, <3>1 DEF Create
  <2>5. CASE Boot(p) BY <2>5 DEF Boot
  <2>6. CASE Reread(p) BY <2>6 DEF Reread
  <2>7. CASE WaitForIP(p) BY <2>7 DEF WaitForIP
  <2>8. CASE WaitTimesOut(p) BY <2>8 DEF WaitTimesOut
  <2>9. CASE ListTargets(p) BY <2>9 DEF ListTargets
  <2>10. CASE AddRoutes(p) BY <2>10 DEF AddRoutes
  <2>11. CASE ChangeDomain(p) BY <2>11 DEF ChangeDomain
  <2>12. CASE UpdateHosts(p) BY <2>12 DEF UpdateHosts
  <2>13. CASE Ports(p) BY <2>13 DEF Ports
  <2>14. CASE Halt(p) BY <2>14 DEF Halt
  <2>15. CASE Delete(p) BY <2>15 DEF Delete
  <2>16. CASE RemoveHostsLine(p) BY <2>16 DEF RemoveHostsLine
  <2>17. CASE RemoveRoute(p) BY <2>17 DEF RemoveRoute
  <2>18. CASE UndoHosts(p) \/ UndoHalt(p) \/ UndoDelete(p)
    BY <2>18 DEF UndoHosts, UndoHalt, UndoDelete
  <2>19. QED
    BY <2>1, <2>2, <2>3, <2>4, <2>5, <2>6, <2>7, <2>8, <2>9, <2>10, <2>11, <2>12, <2>13,
       <2>14, <2>15, <2>16, <2>17, <2>18 DEF Step
<1>4. ASSUME NEW q \in Actors, q # p PROVE Course(q)'
  <2>1. Course(q)
    BY DEF CourseInv
  <2>2. QED BY <1>1, <1>4, <2>1, StepAlone DEF Course
<1>5. QED BY <1>3, <1>4 DEF CourseInv

\* Nothing else takes it off its course.
LEMMA CourseNext == TypeOK /\ CourseInv /\ [Next]_vars => CourseInv'
<1> SUFFICES ASSUME TypeOK, CourseInv, [Next]_vars PROVE CourseInv'
  OBVIOUS
<1>1. regime.busy \subseteq Actors /\ regime.on \subseteq Names /\ UNCHANGED regime
      /\ regime.commands \subseteq Requests
  BY RegimeFixed
<1>2. ASSUME NEW p \in regime.busy, NEW c \in Requests, NEW n \in Names, Begin(p, c, n)
      PROVE  CourseInv'
  BY <1>1, <1>2, LifecycleAssumption
  DEF Begin, CourseInv, Course, TypeOK, At, Creating, Undoing, Ending, Requests
<1>3. ASSUME NEW p \in regime.busy, Step(p) PROVE CourseInv'
  BY <1>1, <1>3, CourseStep
<1>4. ASSUME NEW n \in Names, Lease(n) \/ PowersOff(n) PROVE CourseInv'
  BY <1>1, <1>4 DEF Lease, PowersOff, callVars, CourseInv, Course
<1>5. CASE UNCHANGED vars
  BY <1>5 DEF vars, callVars, CourseInv, Course
<1>6. QED BY <1>1, <1>2, <1>3, <1>4, <1>5 DEF Next

\* Every command is on its course.
LEMMA CourseHolds == Spec => []CourseInv
<1>1. Init => CourseInv
  BY DEF Init, CourseInv, Course, Creating, Undoing, Ending
<1>2. QED BY <1>1, CourseNext, TypeCorrect, PTL DEF Spec

-----------------------------------------------------------------------------
(* Stops.                                                                   *)

\* A stop that has come past the line of /etc/hosts has removed it.
Cleared ==
  Serial => \A p \in Actors :
    cmd[p] \in {"stop", "remove"} /\ (pc[p] = "unroute" \/ outcome[p] = "ok")
      => hosts[name[p]] = NoAddr

\* One command alone cannot put back the line it has removed.
LEMMA ClearedStep == TypeOK /\ CourseInv /\ Cleared /\ [Next]_vars => Cleared'
<1> SUFFICES ASSUME TypeOK, CourseInv, Cleared, [Next]_vars, Serial PROVE Cleared'
  BY RegimeFixed DEF Serial, Cleared
<1>1. /\ regime.busy \subseteq Actors /\ regime.on \subseteq Names /\ UNCHANGED regime
      /\ regime.commands \subseteq Requests
  BY RegimeFixed
<1> DEFINE Clear(p) == cmd[p] \in {"stop", "remove"} /\ (pc[p] = "unroute" \/ outcome[p] = "ok")
                         => hosts[name[p]] = NoAddr
<1>2. \A p \in Actors : Course(p) /\ Clear(p)
  BY DEF CourseInv, Cleared
<1>3. \A p \in Actors \ regime.busy : outcome[p] = "none" /\ pc[p] = "idle"
  BY <1>2 DEF Course
<1>4. ASSUME NEW p \in regime.busy, Step(p) PROVE Cleared'
  <2>1. \A q \in Actors \ {p} : Clear(q)'
    BY <1>1, <1>3, <1>4, StepAlone DEF Serial
  <2>2. Clear(p)'
    <3>1. Course(p)' /\ Course(p) /\ Clear(p) /\ pc[p] # "idle" /\ name' = name
          /\ name[p] \in Names /\ outcome[p] = "none"
      BY <1>1, <1>2, <1>4, CourseStep, StepLocal DEF CourseInv, Course, TypeOK
    <3>2. CASE pc[p] = "unhost"
      <4>1. RemoveHostsLine(p)
        BY <1>1, <1>4, <3>2, StepAt
      <4>2. QED BY <1>1, <3>1, <4>1 DEF RemoveHostsLine, TypeOK, Failure, Fail, Goto, GiveUp,
                                      Succeed, At, callVars
    <3>3. CASE pc[p] = "unroute"
      <4>1. RemoveRoute(p)
        BY <1>1, <1>4, <3>3, StepAt
      <4>2. QED BY <3>1, <3>3, <4>1 DEF RemoveRoute, TypeOK
    <3>4. CASE pc[p] \notin {"unhost", "unroute"}
      <4>1. SUFFICES ASSUME cmd'[p] \in {"stop", "remove"}
                     PROVE  pc'[p] # "unroute" /\ outcome'[p] # "ok"
        OBVIOUS
      <4>2. cmd[p] \in {"stop", "remove"}
        BY <1>4, <3>4, <4>1 DEF Step, ReadRestart, ReadFree, Read, Create, Boot, Reread,
           WaitForIP, WaitTimesOut, ListTargets, AddRoutes, ChangeDomain, UpdateHosts, Ports,
           Halt, Delete, RemoveHostsLine, RemoveRoute, UndoHosts, UndoHalt, UndoDelete, At,
           TypeOK, callVars
      <4>3. pc[p] \in {"read", "halt", "delete"}
        BY <1>1, <3>1, <3>4, <4>2 DEF Course, Creating, Undoing, TypeOK, Steps
      <4>4. Read(p) \/ Halt(p) \/ Delete(p)
        BY <1>1, <1>4, <4>2, <4>3, StepAt DEF ReadRestart, ReadFree
      <4>5. QED BY <1>1, <3>1, <4>2, <4>4 DEF Read, Halt, Delete, TypeOK, Failure, Fail, Goto,
           GiveUp, Succeed
    <3>5. QED BY <3>2, <3>3, <3>4
  <2>3. QED BY <2>1, <2>2 DEF Cleared
<1>5. ASSUME NEW p \in regime.busy, NEW c \in Requests, NEW n \in Names, Begin(p, c, n)
      PROVE  Cleared'
  <2>1. outcome'[p] = "none" /\ pc'[p] # "unroute" /\ UNCHANGED hosts
    BY <1>1, <1>5 DEF Begin, TypeOK, hostVars
  <2>2. \A q \in Actors \ {p} : pc'[q] = pc[q] /\ outcome'[q] = outcome[q]
                              /\ cmd'[q] = cmd[q] /\ name'[q] = name[q]
    BY <1>5 DEF Begin, TypeOK
  <2>3. QED BY <1>2, <2>1, <2>2 DEF Cleared
<1>6. ASSUME NEW n \in Names, Lease(n) \/ PowersOff(n) PROVE Cleared'
  BY <1>1, <1>6 DEF Lease, PowersOff, callVars, hostVars, Cleared, Serial
<1>7. CASE UNCHANGED vars
  BY <1>7 DEF vars, callVars, hostVars, Cleared, Serial
<1>8. QED BY <1>1, <1>4, <1>5, <1>6, <1>7 DEF Next

\* Whatever failed in earlier attempts, a stop or removal that reports success
\* has taken the container's line out of /etc/hosts.
THEOREM StopsClean == Spec => []StopCleansHosts
<1>1. Init => Cleared
  BY DEF Init, Cleared
<1>2. Cleared => StopCleansHosts
  BY DEF Cleared, StopCleansHosts
<1>3. QED BY <1>1, <1>2, ClearedStep, CourseHolds, TypeCorrect, PTL DEF Spec

-----------------------------------------------------------------------------
(* What happens to a container in a step, field by field.                   *)

\* A step leaves the containers, deletes its own, creates it or changes it.
InstStep(p) ==
  \/ inst' = inst
  \/ /\ \A m \in Names \ {name[p]} : inst'[m] = inst[m]
     /\ \/ /\ pc[p] \in {"delete", "undo-delete"}
           /\ Exists(name[p]) /\ ~Running(name[p]) /\ ~Exists(name[p])'
        \/ /\ Exists(name[p])'
           /\ \/ /\ pc[p] = "create" /\ ~Exists(name[p]) /\ inst'[name[p]].id = born + 1
                 /\ ~inst'[name[p]].running /\ inst'[name[p]].ip = NoAddr
                 /\ ~inst'[name[p]].domain /\ born' = born + 1 /\ made'[p] = born + 1
              \/ /\ Exists(name[p]) /\ inst'[name[p]].id = Mine(p).id
                 /\ \/ /\ pc[p] = "boot" /\ ~Running(name[p]) /\ inst'[name[p]].running
                       /\ inst'[name[p]].ip = Mine(p).ip
                       /\ inst'[name[p]].domain = Mine(p).domain
                    \/ /\ pc[p] = "domain" /\ inst'[name[p]].running = Mine(p).running
                       /\ inst'[name[p]].ip = Mine(p).ip
                       /\ inst'[name[p]].domain = (cmd[p] # "unset-domain")
                    \/ /\ pc[p] \in {"halt", "undo-halt"} /\ ~inst'[name[p]].running
                       /\ inst'[name[p]].ip = NoAddr
                       /\ inst'[name[p]].domain = Mine(p).domain

\* Each of the twenty steps is one of these.
LEMMA InstSteps ==
  ASSUME TypeOK, NEW p \in Actors, Step(p)
  PROVE  /\ InstStep(p)
         /\ \/ born' = born /\ made' = made
            \/ /\ pc[p] = "create" /\ born' = born + 1
               /\ made' = [made EXCEPT ![p] = born + 1] /\ inst' # inst
<1>0. Absent \notin Instance /\ MaxCalls \in Nat /\ NoAddr \notin Addrs
  BY LifecycleAssumption
<1>1. name[p] \in Names /\ name' = name /\ (Exists(name[p]) => Mine(p) \in Instance)
  BY StepLocal DEF TypeOK, Exists, Mine
<1>2. ASSUME NEW i \in Instance, SetInst(p, i)
      PROVE  /\ inst'[name[p]] = i /\ Exists(name[p])'
             /\ \A m \in Names \ {name[p]} : inst'[m] = inst[m]
  BY <1>0, <1>1, <1>2 DEF SetInst, TypeOK, Exists
<1> USE <1>0, <1>1
<1>3. CASE Create(p)
  <2> DEFINE new == [id |-> born + 1, running |-> FALSE, ip |-> NoAddr, domain |-> FALSE]
  <2>1. CASE ~Exists(name[p]) /\ born < MaxCalls /\ SetInst(p, new) /\ born' = born + 1
               /\ made' = [made EXCEPT ![p] = born + 1]
    <3>1. new \in Instance /\ new.id = born + 1 /\ ~new.running /\ new.ip = NoAddr /\ ~new.domain
      BY <2>1 DEF Instance, TypeOK
    <3>2. made'[p] = born + 1
      BY <2>1 DEF TypeOK
    <3> HIDE DEF new
    <3>3. inst' # inst
      BY <1>2, <2>1, <3>1 DEF Exists
    <3>4. QED BY <1>2, <1>3, <2>1, <3>1, <3>2, <3>3 DEF InstStep, Create, At
  <2>2. CASE UNCHANGED <<inst, born, made>>
    BY <2>2 DEF InstStep
  <2>3. QED BY <1>3, <2>1, <2>2 DEF Create
<1>4. CASE Boot(p)
  <2>1. CASE Exists(name[p]) /\ ~Running(name[p]) /\ SetInst(p, [Mine(p) EXCEPT !.running = TRUE])
    <3> DEFINE new == [Mine(p) EXCEPT !.running = TRUE]
    <3>1. new \in Instance /\ new.running /\ new.id = Mine(p).id /\ new.ip = Mine(p).ip
          /\ new.domain = Mine(p).domain
      BY <2>1 DEF Instance
    <3> HIDE DEF new
    <3>2. SetInst(p, new)
      BY <2>1 DEF new
    <3>3. QED BY <1>2, <1>4, <2>1, <3>1, <3>2 DEF InstStep, Boot, At, callVars
  <2>2. QED BY <1>4, <2>1 DEF InstStep, Boot, callVars
<1>5. CASE ChangeDomain(p)
  <2>1. CASE Exists(name[p]) /\ SetInst(p, [Mine(p) EXCEPT !.domain = cmd[p] # "unset-domain"])
    <3> DEFINE new == [Mine(p) EXCEPT !.domain = cmd[p] # "unset-domain"]
    <3>1. new \in Instance /\ new.running = Mine(p).running /\ new.id = Mine(p).id
          /\ new.ip = Mine(p).ip /\ new.domain = (cmd[p] # "unset-domain")
      BY <2>1 DEF Instance
    <3> HIDE DEF new
    <3>2. SetInst(p, new)
      BY <2>1 DEF new
    <3>3. QED BY <1>2, <1>5, <2>1, <3>1, <3>2 DEF InstStep, ChangeDomain, At, callVars
  <2>2. QED BY <1>5, <2>1 DEF InstStep, ChangeDomain, callVars
<1>6. CASE Halt(p) \/ UndoHalt(p)
  <2>1. CASE Exists(name[p]) /\ SetInst(p, Stopped(Mine(p)))
    <3> DEFINE new == Stopped(Mine(p))
    <3>1. new \in Instance /\ ~new.running /\ new.id = Mine(p).id /\ new.ip = NoAddr
          /\ new.domain = Mine(p).domain
      BY <2>1 DEF Instance, Stopped
    <3> HIDE DEF new
    <3>2. SetInst(p, new)
      BY <2>1 DEF new
    <3>3. QED BY <1>2, <1>6, <2>1, <3>1, <3>2 DEF InstStep, Halt, UndoHalt, At, callVars
  <2>2. QED BY <1>6, <2>1 DEF InstStep, Halt, UndoHalt, callVars
<1>7. CASE Delete(p) \/ UndoDelete(p)
  <2>1. CASE Exists(name[p]) /\ ~Running(name[p]) /\ SetInst(p, Absent)
    BY <1>7, <2>1 DEF InstStep, Delete, UndoDelete, At, SetInst, TypeOK, Exists, callVars
  <2>2. QED BY <1>7, <2>1 DEF InstStep, Delete, UndoDelete, callVars
<1>8. CASE ReadRestart(p) \/ ReadFree(p) \/ Read(p) \/ Reread(p) \/ WaitForIP(p)
             \/ WaitTimesOut(p) \/ ListTargets(p) \/ AddRoutes(p) \/ UpdateHosts(p)
             \/ Ports(p) \/ RemoveHostsLine(p) \/ RemoveRoute(p) \/ UndoHosts(p)
  BY <1>8 DEF InstStep, ReadRestart, ReadFree, Read, Reread, WaitForIP, WaitTimesOut,
     ListTargets, AddRoutes, UpdateHosts, Ports, RemoveHostsLine, RemoveRoute, UndoHosts,
     callVars
<1>9. QED
  BY <1>3, <1>4, <1>5, <1>6, <1>7, <1>8 DEF Step

\* The network gives a running container a free address, and a container that
\* powers itself off loses it.
LEMMA NetworkStep ==
  ASSUME TypeOK, NEW n \in Names, Lease(n) \/ PowersOff(n)
  PROVE  /\ Exists(n) /\ Exists(n)' /\ \A m \in Names \ {n} : inst'[m] = inst[m]
         /\ inst'[n].id = inst[n].id /\ inst'[n].domain = inst[n].domain /\ inst[n].running
         /\ \/ /\ inst'[n].running /\ inst[n].ip = NoAddr /\ inst'[n].ip \in Addrs
               /\ \A m \in Names : Exists(m) => inst[m].ip # inst'[n].ip
            \/ n \in regime.leaving /\ ~inst'[n].running /\ inst'[n].ip = NoAddr
         /\ UNCHANGED <<born, hosts, routes, pc, cmd, name, snap, ip, dom, made, targets, outcome>>
<1>1. inst[n] \in Instance /\ Exists(n) /\ inst[n].running /\ Absent \notin Instance
  BY LifecycleAssumption DEF Lease, PowersOff, Running, Exists, TypeOK
<1>2. UNCHANGED <<born, hosts, routes, pc, cmd, name, snap, ip, dom, made, targets, outcome>>
  BY DEF Lease, PowersOff, callVars, hostVars
<1>3. ASSUME NEW i \in Instance, inst' = [inst EXCEPT ![n] = i]
      PROVE  inst'[n] = i /\ Exists(n)' /\ \A m \in Names \ {n} : inst'[m] = inst[m]
  BY <1>1, <1>3 DEF Exists, TypeOK
<1>4. CASE PowersOff(n)
  <2> DEFINE new == Stopped(inst[n])
  <2>1. new \in Instance /\ ~new.running /\ new.id = inst[n].id /\ new.ip = NoAddr
        /\ new.domain = inst[n].domain
    BY <1>1 DEF Instance, Stopped
  <2>2. inst' = [inst EXCEPT ![n] = new] /\ n \in regime.leaving
    BY <1>4 DEF PowersOff
  <2> HIDE DEF new
  <2>3. QED BY <1>1, <1>2, <1>3, <2>1, <2>2
<1>5. CASE Lease(n)
  <2>1. PICK x \in Addrs : /\ inst' = [inst EXCEPT ![n].ip = x]
                           /\ \A m \in Names : Exists(m) => inst[m].ip # x
    BY <1>5 DEF Lease
  <2> DEFINE new == [inst[n] EXCEPT !.ip = x]
  <2>2. new \in Instance /\ new.running = inst[n].running /\ new.id = inst[n].id /\ new.ip = x
        /\ new.domain = inst[n].domain
    BY <1>1 DEF Instance
  <2>3. inst' = [inst EXCEPT ![n] = new]
    BY <2>1
  <2>4. inst[n].ip = NoAddr
    BY <1>5 DEF Lease
  <2> HIDE DEF new
  <2>5. QED BY <1>1, <1>2, <1>3, <2>1, <2>2, <2>3, <2>4
<1>6. QED BY <1>4, <1>5

-----------------------------------------------------------------------------
(* Failed runs.                                                             *)

\* Containers are numbered as they are made.
Numbered ==
  /\ \A n \in Names : Exists(n) => inst[n].id <= born
  /\ \A m, n \in Names : Exists(m) /\ Exists(n) /\ inst[m].id = inst[n].id => m = n
  /\ \A p \in Actors : made[p] <= born

\* No step gives two containers one number.
LEMMA NumberedStep == TypeOK /\ Numbered /\ [Next]_vars => Numbered'
<1> SUFFICES ASSUME TypeOK, Numbered, [Next]_vars PROVE Numbered'
  OBVIOUS
<1>1. regime.busy \subseteq Actors /\ regime.on \subseteq Names
  BY RegimeFixed
<1>2. born \in Nat /\ \A n \in Names : Exists(n) => inst[n].id \in Nat
  BY LifecycleAssumption DEF TypeOK, Exists, Instance
<1>3. ASSUME NEW p \in Actors, Step(p) PROVE Numbered'
  <2>1. InstStep(p) /\ name[p] \in Names /\ name' = name
    BY <1>3, InstSteps, StepLocal
  <2>2. CASE born' = born /\ made' = made
    <3>1. \A n \in Names : Exists(n)' => Exists(n) /\ inst'[n].id = inst[n].id
      BY <1>2, <2>1, <2>2 DEF InstStep, Exists, Mine
    <3>2. QED BY <2>2, <3>1 DEF Numbered
  <2>3. CASE pc[p] = "create" /\ born' = born + 1 /\ made' = [made EXCEPT ![p] = born + 1]
               /\ inst' # inst
    <3>1. \A n \in Names : Exists(n)' =>
            \/ Exists(n) /\ inst'[n].id = inst[n].id /\ n # name[p]
            \/ n = name[p] /\ inst'[n].id = born + 1
      BY <1>2, <2>1, <2>3 DEF InstStep, Exists
    <3>2. \A q \in Actors : made'[q] <= born'
      BY <1>2, <2>3, LifecycleAssumption DEF Numbered, TypeOK
    <3>3. QED BY <1>2, <2>3, <3>1, <3>2 DEF Numbered
  <2>4. QED BY <1>3, <2>2, <2>3, InstSteps
<1>4. ASSUME NEW p \in Actors, NEW c \in regime.commands, NEW n \in Names, Begin(p, c, n)
      PROVE  Numbered'
  BY <1>2, <1>4 DEF Begin, Numbered, Exists, TypeOK
<1>5. ASSUME NEW n \in Names, Lease(n) \/ PowersOff(n) PROVE Numbered'
  <2>1. \A m \in Names : Exists(m)' => Exists(m) /\ inst'[m].id = inst[m].id
    BY <1>5, NetworkStep DEF Exists
  <2>2. born' = born /\ made' = made
    BY <1>5, NetworkStep
  <2>3. QED BY <2>1, <2>2 DEF Numbered
<1>6. CASE UNCHANGED vars
  BY <1>6 DEF vars, callVars, Numbered, Exists
<1>7. QED BY <1>1, <1>3, <1>4, <1>5, <1>6 DEF Next

\* The launch and the rollback do what they are to do.
Undoable == regime.failing \cap {"boot", "undo-halt", "undo-delete"} = {}

\* A failing command finds its container, and has deleted it when it gives up.
Undone ==
  Serial /\ Undoable => \A p \in Actors : made[p] # 0 =>
    /\ pc[p] # "idle" => Exists(name[p]) /\ Mine(p).id = made[p]
    /\ pc[p] \in {"boot", "undo-delete"} => ~Running(name[p])
    /\ outcome[p] = "failed" => \A n \in Names : ~(Exists(n) /\ inst[n].id = made[p])

\* One command alone finds its container as it left it, and its rollback
\* deletes it.
LEMMA UndoneStep ==
  ASSUME TypeOK, CourseInv, CourseInv', Numbered, Undone, [Next]_vars
  PROVE  Undone'
<1> SUFFICES ASSUME Serial, Undoable PROVE Undone'
  BY RegimeFixed DEF Serial, Undoable, Undone
<1>1. /\ regime.busy \subseteq Actors /\ regime.on \subseteq Names /\ UNCHANGED regime
      /\ \A p \in Actors : Course(p) /\ Course(p)'
  BY RegimeFixed DEF CourseInv
<1> DEFINE Own(p) == made[p] # 0 =>
             /\ pc[p] # "idle" => Exists(name[p]) /\ Mine(p).id = made[p]
             /\ pc[p] \in {"boot", "undo-delete"} => ~Running(name[p])
             /\ outcome[p] = "failed" => \A n \in Names : ~(Exists(n) /\ inst[n].id = made[p])
<1>2. \A p \in Actors : Own(p)
  BY DEF Undone
<1> SUFFICES \A p \in Actors : Own(p)'
  BY DEF Undone
<1>3. ASSUME NEW p \in regime.busy, Step(p) PROVE \A q \in Actors : Own(q)'
  <2>1. \A q \in Actors \ {p} : Own(q)'
    BY <1>1, <1>3, StepAlone DEF Serial, Course
  <2>2. Own(p)'
    <3>1. /\ InstStep(p) /\ name[p] \in Names /\ name' = name /\ pc[p] # "idle" /\ p \in Actors
          /\ made' = made \/ (pc[p] = "create" /\ inst' # inst)
          /\ outcome[p] = "none" /\ Course(p) /\ Course(p)' /\ Own(p)
      <4>1. p \in Actors /\ Course(p) /\ Course(p)' /\ Own(p)
        BY <1>1, <1>2
      <4>2. pc[p] # "idle" /\ name' = name /\ name[p] \in Names
        BY <1>3, <4>1, StepLocal
      <4>3. InstStep(p) /\ (made' = made \/ (pc[p] = "create" /\ inst' # inst))
        BY <1>3, <4>1, InstSteps
      <4>4. outcome[p] = "none"
        BY <4>1, <4>2 DEF Course
      <4>5. QED BY <4>1, <4>2, <4>3, <4>4
    <3> SUFFICES ASSUME made'[p] # 0 PROVE Own(p)'
      OBVIOUS
    <3>2. CASE pc[p] = "create"
      <4>1. inst' # inst
        BY <3>1, <3>2 DEF Course
      <4>2. Create(p)
        BY <1>3, <3>1, <3>2, StepAt
      <4>3. pc'[p] = "boot" /\ outcome'[p] = "none"
        BY <3>1, <4>1, <4>2 DEF Create, Goto, TypeOK
      <4>4. Exists(name[p])' /\ ~inst'[name[p]].running /\ inst'[name[p]].id = made'[p]
        BY <3>1, <3>2, <4>1 DEF InstStep
      <4>5. QED BY <3>1, <4>3, <4>4 DEF Running, Mine
    <3>3. CASE pc[p] # "create"
      <4>1. /\ made' = made /\ cmd[p] \in Creating /\ pc[p] # "read"
            /\ Exists(name[p]) /\ Mine(p).id = made[p]
        BY <3>1, <3>3 DEF Course
      <4>2. CASE pc[p] = "undo-delete"
        <5>0. UndoDelete(p)
          BY <1>3, <3>1, <4>2, StepAt
        <5>1. ~Running(name[p]) /\ "undo-delete" \notin regime.failing
          BY <3>1, <4>1, <4>2 DEF Undoable
        <5>2. SetInst(p, Absent)
          BY <4>1, <5>0, <5>1 DEF UndoDelete
        <5>3. \A n \in Names : Exists(n)' => Exists(n) /\ inst'[n] = inst[n] /\ n # name[p]
          BY <3>1, <5>2 DEF SetInst, TypeOK, Exists
        <5>4. \A n \in Names : ~(Exists(n)' /\ inst'[n].id = made[p])
          BY <3>1, <4>1, <5>3 DEF Numbered, Mine
        <5>5. pc'[p] = "idle"
          BY <3>1, <5>0 DEF UndoDelete, GiveUp, TypeOK
        <5>6. QED BY <4>1, <5>4, <5>5 DEF Exists
      <4>3. CASE pc[p] = "undo-halt"
        <5>0. UndoHalt(p)
          BY <1>3, <3>1, <4>3, StepAt
        <5>1. SetInst(p, Stopped(Mine(p)))
          BY <4>1, <5>0 DEF UndoHalt, At, Undoable
        <5>2. pc'[p] = "undo-delete" /\ outcome'[p] = "none"
          BY <3>1, <5>0 DEF UndoHalt, Goto, TypeOK
        <5>3. Mine(p) \in Instance
          BY <3>1, <4>1 DEF TypeOK, Exists, Mine
        <5>4. Stopped(Mine(p)).id = Mine(p).id /\ ~Stopped(Mine(p)).running
              /\ Stopped(Mine(p)) \in Instance
          BY <5>3 DEF Stopped, Instance
        <5>5. inst'[name[p]] = Stopped(Mine(p))
          BY <3>1, <5>1 DEF SetInst, TypeOK
        <5>6. QED BY <3>1, <4>1, <5>2, <5>4, <5>5, LifecycleAssumption
                  DEF Exists, Running, Mine
      <4>4. CASE pc[p] \notin {"undo-delete", "undo-halt"}
        <5>1. pc[p] \notin {"halt", "delete", "unhost", "unroute"}
          BY <3>1, <4>1 DEF Course, Creating, Ending
        <5>2. Exists(name[p])' /\ inst'[name[p]].id = made[p]
          BY <3>1, <3>3, <4>1, <4>4, <5>1 DEF InstStep, Exists, Mine
        <5>3. pc'[p] \notin {"boot", "undo-delete"} /\ outcome'[p] # "failed"
          <6>1. Fail(p) => pc'[p] # "idle" \/ pc[p] = "boot"
            BY <3>1, <3>3, <4>1, FailStep
          <6>2. CASE pc[p] = "boot"
            <7>1. Boot(p)
              BY <1>3, <3>1, <6>2, StepAt
            <7>2. QED BY <3>1, <4>1, <6>2, <7>1 DEF Boot, Failure, Undoable, Goto, TypeOK, Creating
          <6>3. CASE pc[p] # "boot"
            <7>1. Fail(p) => pc'[p] \in {"undo-hosts", "undo-halt"} /\ outcome'[p] = "none"
              BY <3>1, <3>3, <4>1, <6>3, FailStep
            <7>2. \/ Reread(p) \/ WaitForIP(p) \/ WaitTimesOut(p) \/ ListTargets(p)
                  \/ AddRoutes(p) \/ ChangeDomain(p) \/ UpdateHosts(p) \/ Ports(p)
                  \/ UndoHosts(p)
              BY <1>3, <3>1, <3>3, <4>1, <4>4, <5>1, <6>3, StepAt DEF TypeOK, Steps
            <7>3. QED BY <3>1, <7>1, <7>2 DEF Reread, WaitForIP, WaitTimesOut, ListTargets,
               AddRoutes, ChangeDomain, UpdateHosts, Ports, UndoHosts, Goto, Succeed, Failure,
               TypeOK
          <6>4. QED BY <6>2, <6>3
        <5>4. QED BY <3>1, <4>1, <5>2, <5>3 DEF Mine
      <4>5. QED BY <4>2, <4>3, <4>4
    <3>4. QED BY <3>2, <3>3
  <2>3. QED BY <2>1, <2>2
<1>4. ASSUME NEW p \in regime.busy, NEW c \in Requests, NEW n \in Names, Begin(p, c, n)
      PROVE  \A q \in Actors : Own(q)'
  BY <1>1, <1>2, <1>4 DEF Begin, TypeOK, Exists, Running, Mine
<1>5. ASSUME NEW n \in Names, Lease(n) \/ PowersOff(n) PROVE \A q \in Actors : Own(q)'
  <2>1. \A m \in Names : /\ Exists(m)' <=> Exists(m)
                         /\ Exists(m) => inst'[m].id = inst[m].id
                         /\ ~Running(m) => ~Running(m)'
    BY <1>5, NetworkStep DEF Exists, Running
  <2>2. UNCHANGED <<pc, name, made, outcome>>
    BY <1>5, NetworkStep
  <2>3. \A q \in Actors : pc[q] # "idle" => name[q] \in Names
    BY DEF TypeOK
  <2>4. QED BY <1>2, <2>1, <2>2, <2>3 DEF Mine, Exists
<1>6. CASE UNCHANGED vars
  BY <1>2, <1>6 DEF vars, callVars, Exists, Running, Mine
<1>7. regime.commands \subseteq Requests
  BY RegimeFixed
<1>8. QED BY <1>1, <1>3, <1>4, <1>5, <1>6, <1>7 DEF Next

\* In a regime in which the launch and the rollback do not fail by themselves,
\* a run or an install that reports an error has left no container.
THEOREM FailedRunUndone == Spec => [](Undoable => FailedRunLeavesNothing)
<1>1. Init => Numbered /\ Undone
  BY DEF Init, Numbered, Undone, Exists
<1>2. Undone => (Undoable => FailedRunLeavesNothing)
  BY DEF Undone, FailedRunLeavesNothing
<1>3. QED
  BY <1>1, <1>2, NumberedStep, UndoneStep, CourseHolds, TypeCorrect, PTL DEF Spec

-----------------------------------------------------------------------------
(* One command at a time whose steps all succeed: what the host still owes   *)
(* the containers is what the command has yet to do.                         *)

\* A line of /etc/hosts leads to a running container that has a domain.
Line(n) == hosts[n] # NoAddr => Reachable(n, hosts[n]) /\ inst[n].domain

\* A running bridge container has the address.
Routed(x) == \E n \in Bridged : Reachable(n, x)

\* Every line does, but the one of the container that is being stopped or deleted,
\* or has lost its domain.
Lines ==
  \A n \in Names : Line(n) \/ \E p \in Actors : name[p] = n /\ pc[p] \in {"delete", "unhost"}

\* Every route leads to a running container, but the one that is about to go.
Routes ==
  \A x \in routes : \/ Routed(x)
                    \/ \E p \in Actors : /\ pc[p] \in {"delete", "unhost", "unroute"}
                                         /\ cmd[p] \in Ending /\ name[p] \in Bridged
                                         /\ snap[p].ip = x

\* What a command that ends a container has to clear.
Stops(p) ==
  /\ pc[p] = "halt" => (Exists(name[p]) /\ Mine(p).ip \in routes => Mine(p).ip = snap[p].ip)
  /\ pc[p] = "delete" => Exists(name[p])
  /\ pc[p] \in {"delete", "unhost"} /\ cmd[p] \in Ending => ~Running(name[p])
  /\ pc[p] \in {"undo-hosts", "undo-halt"} => Mine(p).ip \notin routes
  /\ pc[p] \in Undoing => Exists(name[p]) /\ hosts[name[p]] = NoAddr
  /\ pc[p] = "undo-delete" => ~Running(name[p])

\* The command has waited for the address.
Addressed(p) ==
  \/ pc[p] \in {"list", "route", "hosts"}
  \/ pc[p] = "domain" /\ cmd[p] = "run"
  \/ pc[p] = "ports" /\ (cmd[p] = "start" \/ dom[p])

\* What a command that makes a container reachable knows, and has done.
Opens(p) ==
  /\ pc[p] \in {"reread", "wait", "list", "route", "ports", "hosts"} => Running(name[p])
  /\ pc[p] = "domain" /\ cmd[p] = "run" => Running(name[p])
  /\ pc[p] = "boot" => Exists(name[p])
  /\ pc[p] = "domain" /\ cmd[p] = "set-domain" /\ snap[p].running => Running(name[p])
  /\ pc[p] = "create" \/ (pc[p] = "read" /\ cmd[p] = "run") => ip[p] = NoAddr
  /\ pc[p] \in {"boot", "reread", "domain", "wait", "list", "route", "ports", "hosts"}
       /\ ip[p] # NoAddr => Running(name[p]) /\ Mine(p).ip = ip[p]
  /\ Addressed(p) => ip[p] # NoAddr

\* What is listed has an address, and the container of the command is among it.
Listed(p) ==
  pc[p] = "route" => /\ \A x \in targets[p] : Routed(x)
                     /\ name[p] \in Bridged => ip[p] \in targets[p]

\* What a command holds of the domain is what the container has.
Domain(p) ==
  /\ cmd[p] = "start" /\ pc[p] \in {"wait", "list", "route", "ports", "hosts"} =>
       dom[p] = Mine(p).domain
  /\ pc[p] = "hosts" => Mine(p).domain
  /\ pc[p] = "wait" /\ cmd[p] = "set-domain" => Mine(p).domain
  /\ cmd[p] = "run" /\ pc[p] \in {"domain", "hosts"} => dom[p]
  /\ cmd[p] = "run" /\ pc[p] \in {"boot", "wait", "list", "route", "ports"} /\ ~dom[p] =>
       ~Mine(p).domain
  /\ cmd[p] = "run" /\ pc[p] = "ports" /\ dom[p] => hosts[name[p]] = ip[p]

\* The command has set the routes.
PastRoutes(p) ==
  \/ cmd[p] = "start" /\ pc[p] \in {"ports", "hosts"}
  \/ cmd[p] = "run" /\ pc[p] \in {"domain", "hosts"}
  \/ cmd[p] = "run" /\ pc[p] = "ports" /\ dom[p]

\* Then a bridge container has its route.
RouteSet(p) == PastRoutes(p) /\ name[p] \in Bridged => ip[p] \in routes

\* What a successful start or run has done.
Opened(p) ==
  outcome[p] = "ok" /\ cmd[p] \in {"start", "run"} =>
    /\ Exists(name[p])
    /\ Mine(p).domain => /\ Mine(p).ip # NoAddr /\ hosts[name[p]] = Mine(p).ip
                         /\ name[p] \in Bridged => Mine(p).ip \in routes

\* The host agrees with the containers, but for what the one command has yet to do.
AgreeInv ==
  Smooth => /\ Lines /\ Routes
            /\ \A p \in Actors : /\ Stops(p) /\ Opens(p) /\ Listed(p) /\ Domain(p)
                                 /\ RouteSet(p) /\ Opened(p)

\* The same, of the one command that is under way.
AgreesFor(p) ==
  /\ \A n \in Names : Line(n) \/ (name[p] = n /\ pc[p] \in {"delete", "unhost"})
  /\ \A x \in routes : \/ Routed(x)
                       \/ /\ pc[p] \in {"delete", "unhost", "unroute"}
                          /\ cmd[p] \in Ending /\ name[p] \in Bridged /\ snap[p].ip = x
  /\ Stops(p) /\ Opens(p) /\ Listed(p) /\ Domain(p) /\ RouteSet(p) /\ Opened(p)

\* The others are idle, so that they owe nothing.
LEMMA AgreeAlone ==
  ASSUME NEW p \in Actors, AgreesFor(p)',
         \A q \in Actors \ {p} : pc'[q] = "idle" /\ outcome'[q] = "none"
  PROVE  /\ Lines' /\ Routes'
         /\ \A q \in Actors : /\ Stops(q)' /\ Opens(q)' /\ Listed(q)' /\ Domain(q)'
                              /\ RouteSet(q)' /\ Opened(q)'
<1>1. ASSUME NEW q \in Actors, pc'[q] = "idle", outcome'[q] = "none"
      PROVE  Stops(q)' /\ Opens(q)' /\ Listed(q)' /\ Domain(q)' /\ RouteSet(q)' /\ Opened(q)'
  BY <1>1 DEF Stops, Opens, Addressed, Listed, Domain, RouteSet, PastRoutes, Opened, Undoing
<1>2. Stops(p)' /\ Opens(p)' /\ Listed(p)' /\ Domain(p)' /\ RouteSet(p)' /\ Opened(p)'
  BY DEF AgreesFor
<1>3. Lines' /\ Routes'
  BY DEF AgreesFor, Lines, Routes
<1>4. QED BY <1>1, <1>2, <1>3

\* A command at rest, or about to create, has nothing to keep to.
LEMMA AgreeRest ==
  ASSUME NEW p \in Actors, pc'[p] \in {"idle", "read", "create"},
         outcome'[p] # "ok" \/ cmd'[p] \notin {"start", "run"},
         pc'[p] = "create" \/ (pc'[p] = "read" /\ cmd'[p] = "run") => ip'[p] = NoAddr
  PROVE  Stops(p)' /\ Opens(p)' /\ Listed(p)' /\ Domain(p)' /\ RouteSet(p)' /\ Opened(p)'
BY DEF Stops, Opens, Addressed, Listed, Domain, RouteSet, PastRoutes, Opened, Undoing

\* A step that leaves the containers and the host alone.
LEMMA AgreeWatch ==
  ASSUME TypeOK, NEW p \in Actors, AgreesFor(p), Course(p), Step(p),
         regime.failing = {}, UNCHANGED <<inst, hostVars>>,
         pc[p] \in {"read", "reread", "wait", "list", "ports"}
  PROVE  AgreesFor(p)'
<1>1. /\ name' = name /\ name[p] \in Names /\ outcome[p] = "none" /\ ~Failure(p)
      /\ UNCHANGED <<inst, hosts, routes>>
  BY StepLocal DEF Course, hostVars, TypeOK, Failure
<1>2. /\ Exists(name[p])' <=> Exists(name[p])
      /\ Running(name[p])' <=> Running(name[p])
      /\ inst'[name[p]] = Mine(p) /\ Mine(p)' = Mine(p)
      /\ \A n \in Names : Line(n)' <=> Line(n)
      /\ \A x : Routed(x)' <=> Routed(x)
  BY <1>1 DEF Line, Routed, Reachable, Running, Exists, Mine
<1>3. /\ Exists(name[p]) /\ Mine(p).ip # NoAddr => Running(name[p])
      /\ \A x \in routes : x # NoAddr
      /\ hosts[name[p]] # NoAddr => Running(name[p]) /\ Mine(p).ip = hosts[name[p]]
  BY <1>1, LifecycleAssumption DEF TypeOK, Mine, Exists, Running, AgreesFor, Line, Reachable
<1>4. /\ (\A n \in Names : Line(n) \/ (name[p] = n /\ pc[p] \in {"delete", "unhost"}))'
      /\ (\A x \in routes : \/ Routed(x)
                            \/ /\ pc[p] \in {"delete", "unhost", "unroute"}
                               /\ cmd[p] \in Ending /\ name[p] \in Bridged /\ snap[p].ip = x)'
  BY <1>1, <1>2 DEF AgreesFor
<1>5. Stops(p) /\ Opens(p) /\ Domain(p) /\ RouteSet(p)
  BY DEF AgreesFor
<1> SUFFICES Stops(p)' /\ Opens(p)' /\ Listed(p)' /\ Domain(p)' /\ RouteSet(p)' /\ Opened(p)'
  BY <1>4 DEF AgreesFor
<1>6. CASE ReadRestart(p) \/ ReadFree(p)
  <2>1. /\ pc'[p] \in {"idle", "read", "create"} /\ outcome'[p] # "ok"
        /\ pc'[p] = "create" \/ (pc'[p] = "read" /\ cmd'[p] = "run") => ip'[p] = NoAddr
    BY <1>1, <1>5, <1>6 DEF ReadRestart, ReadFree, At, Goto, GiveUp, TypeOK, callVars, Opens
  <2>2. QED BY <2>1, AgreeRest
<1>7. CASE Read(p)
  <2>1. /\ cmd' = cmd /\ cmd[p] \notin {"run", "restart"}
        /\ \/ pc'[p] = "idle" /\ (outcome'[p] # "ok" \/ cmd[p] = "unset-domain")
           \/ /\ Exists(name[p]) /\ snap'[p] = Mine(p) /\ ip'[p] = Mine(p).ip
              /\ dom'[p] = Mine(p).domain /\ outcome'[p] = "none"
              /\ \/ cmd[p] = "start" /\ pc'[p] = "wait" /\ Mine(p).running
                 \/ cmd[p] = "start" /\ pc'[p] = "boot"
                 \/ cmd[p] \in Ending /\ pc'[p] = "halt"
                 \/ cmd[p] \in {"set-domain", "unset-domain"} /\ pc'[p] = "domain"
    BY <1>1, <1>7 DEF Read, Look, At, Goto, GiveUp, Succeed, TypeOK, Ending
  <2>2. CASE pc'[p] = "idle"
    BY <2>1, <2>2, AgreeRest
  <2>3. CASE pc'[p] # "idle"
    <3>1. Stops(p)'
      BY <1>1, <1>2, <2>1, <2>3 DEF Stops, Undoing
    <3>2. Opens(p)'
      BY <1>1, <1>2, <1>3, <2>1, <2>3 DEF Opens, Addressed, Running, Mine, Ending
    <3>3. Listed(p)' /\ Domain(p)' /\ RouteSet(p)' /\ Opened(p)'
      BY <1>2, <2>1, <2>3 DEF Listed, Domain, RouteSet, PastRoutes, Opened, Ending
    <3>4. QED BY <3>1, <3>2, <3>3
  <2>4. QED BY <2>2, <2>3
<1>8. CASE Reread(p)
  <2>1. /\ cmd' = cmd /\ cmd[p] = "start" /\ pc[p] = "reread"
        /\ \/ pc'[p] = "idle" /\ outcome'[p] = "failed"
           \/ /\ pc'[p] = "wait" /\ Exists(name[p]) /\ ip'[p] = Mine(p).ip
              /\ dom'[p] = Mine(p).domain /\ outcome'[p] = "none"
    BY <1>1, <1>8 DEF Reread, Look, At, Goto, GiveUp, Fail, TypeOK, Course
  <2>2. CASE pc'[p] = "idle"
    BY <2>1, <2>2, AgreeRest
  <2>3. CASE pc'[p] # "idle"
    <3>1. Stops(p)'
      BY <2>1, <2>3 DEF Stops, Undoing
    <3>2. Opens(p)'
      BY <1>1, <1>2, <1>5, <2>1, <2>3 DEF Opens, Addressed
    <3>3. Listed(p)' /\ Domain(p)' /\ RouteSet(p)' /\ Opened(p)'
      BY <1>2, <2>1, <2>3 DEF Listed, Domain, RouteSet, PastRoutes, Opened
    <3>4. QED BY <3>1, <3>2, <3>3
  <2>4. QED BY <2>2, <2>3
<1>9. CASE WaitForIP(p)
  <2>1. /\ cmd' = cmd /\ dom' = dom /\ pc[p] = "wait" /\ outcome'[p] = "none"
        /\ ip'[p] = (IF ip[p] # NoAddr THEN ip[p] ELSE Mine(p).ip) /\ ip'[p] # NoAddr
        /\ pc'[p] = IF cmd[p] = "set-domain" THEN "hosts"
                    ELSE IF cmd[p] = "start" /\ name[p] \notin Bridged THEN "ports" ELSE "list"
    BY <1>1, <1>9 DEF WaitForIP, HasAddr, At, Goto, TypeOK
  <2>2. Running(name[p]) /\ Mine(p).ip = ip'[p]
    BY <1>5, <2>1 DEF Opens
  <2>3. Stops(p)' /\ Listed(p)' /\ Opened(p)'
    BY <2>1 DEF Stops, Undoing, Listed, Opened
  <2>4. Opens(p)'
    BY <1>1, <1>2, <2>1, <2>2 DEF Opens, Addressed
  <2>5. Domain(p)'
    BY <1>2, <1>5, <2>1, <1>1 DEF Domain, Course
  <2>6. RouteSet(p)'
    BY <1>1, <2>1 DEF RouteSet, PastRoutes, Course
  <2>7. QED BY <2>3, <2>4, <2>5, <2>6
<1>10. CASE WaitTimesOut(p)
  <2>1. /\ UNCHANGED <<cmd, dom, ip, targets>> /\ pc[p] = "wait" /\ ip[p] = NoAddr
        /\ Running(name[p]) /\ Exists(name[p]) /\ Mine(p).ip = NoAddr
    BY <1>5, <1>10 DEF WaitTimesOut, HasAddr, At, callVars, Opens, Running
  <2>2. \/ pc'[p] = "idle" /\ (outcome'[p] = "failed" \/ cmd[p] = "set-domain")
        \/ pc'[p] = "ports" /\ cmd[p] = "run" /\ ~dom[p] /\ outcome'[p] = "none"
        \/ pc'[p] \in {"undo-hosts", "undo-halt"} /\ outcome'[p] = "none"
    BY <1>1, <1>10, FailStep DEF WaitTimesOut, At, Goto, Succeed, TypeOK
  <2>3. CASE pc'[p] = "idle"
    BY <2>1, <2>2, <2>3, AgreeRest
  <2>4. CASE pc'[p] = "ports" /\ cmd[p] = "run" /\ ~dom[p] /\ outcome'[p] = "none"
    <3>1. Stops(p)' /\ Listed(p)' /\ Opened(p)' /\ RouteSet(p)'
      BY <2>1, <2>4 DEF Stops, Undoing, Listed, Opened, RouteSet, PastRoutes
    <3>2. Opens(p)' /\ Domain(p)'
      BY <1>1, <1>2, <1>5, <2>1, <2>4 DEF Opens, Addressed, Domain
    <3>3. QED BY <3>1, <3>2
  <2>5. CASE pc'[p] \in {"undo-hosts", "undo-halt"} /\ outcome'[p] = "none"
    <3>1. Opens(p)' /\ Listed(p)' /\ Domain(p)' /\ RouteSet(p)' /\ Opened(p)'
      BY <2>5 DEF Opens, Addressed, Listed, Domain, RouteSet, PastRoutes, Opened
    <3>2. Stops(p)'
      BY <1>1, <1>2, <1>3, <2>1, <2>5 DEF Stops
    <3>3. QED BY <3>1, <3>2
  <2>6. QED BY <2>2, <2>3, <2>4, <2>5
<1>11. CASE ListTargets(p)
  <2>1. /\ UNCHANGED <<cmd, dom, ip>> /\ pc[p] = "list" /\ pc'[p] = "route" /\ outcome'[p] = "none"
        /\ targets'[p] = {inst[n].ip : n \in {m \in Bridged : Running(m)}} \ {NoAddr}
    BY <1>1, <1>11 DEF ListTargets, At, Goto, TypeOK
  <2>2. Running(name[p]) /\ Mine(p).ip = ip[p] /\ ip[p] # NoAddr
    BY <1>5, <2>1 DEF Opens, Addressed
  <2>3. Stops(p)' /\ Opened(p)' /\ RouteSet(p)'
    BY <2>1 DEF Stops, Undoing, Opened, RouteSet, PastRoutes
  <2>4. Opens(p)'
    BY <1>1, <1>2, <2>1, <2>2 DEF Opens, Addressed
  <2>5. Domain(p)'
    BY <1>2, <1>5, <2>1 DEF Domain
  <2>6. Listed(p)'
    BY <1>1, <1>2, <2>1, <2>2 DEF Listed, Routed, Reachable, Mine
  <2>7. QED BY <2>3, <2>4, <2>5, <2>6
<1>12. CASE Ports(p)
  <2>1. /\ UNCHANGED <<cmd, dom, ip>> /\ pc[p] = "ports" /\ Running(name[p]) /\ Exists(name[p])
    BY <1>5, <1>12 DEF Ports, At, callVars, Opens, Running
  <2>2. \/ /\ cmd[p] = "start" /\ dom[p] /\ pc'[p] = "hosts" /\ outcome'[p] = "none"
        \/ /\ cmd[p] # "start" \/ ~dom[p]
           /\ pc'[p] = "idle" /\ outcome'[p] = "ok"
    BY <1>1, <1>12, <2>1 DEF Ports, Goto, Succeed, TypeOK
  <2>3. CASE pc'[p] = "hosts" /\ cmd[p] = "start" /\ dom[p] /\ outcome'[p] = "none"
    <3>1. Stops(p)' /\ Listed(p)' /\ Opened(p)'
      BY <2>3 DEF Stops, Undoing, Listed, Opened
    <3>2. Opens(p)'
      BY <1>1, <1>2, <1>5, <2>1, <2>3 DEF Opens, Addressed
    <3>3. Domain(p)' /\ RouteSet(p)'
      BY <1>1, <1>2, <1>5, <2>1, <2>3 DEF Domain, RouteSet, PastRoutes
    <3>4. QED BY <3>1, <3>2, <3>3
  <2>4. CASE pc'[p] = "idle" /\ (cmd[p] # "start" \/ ~dom[p])
    <3>1. Stops(p)' /\ Listed(p)' /\ Opens(p)' /\ Domain(p)' /\ RouteSet(p)'
      BY <2>4 DEF Stops, Undoing, Listed, Opens, Addressed, Domain, RouteSet, PastRoutes
    <3>2. Opened(p)'
      <4>1. CASE cmd[p] = "run" /\ dom[p]
        BY <1>1, <1>2, <1>5, <2>1, <4>1 DEF Opened, Opens, Addressed, Domain, RouteSet, PastRoutes
      <4>2. CASE ~dom[p] \/ cmd[p] \notin {"start", "run"}
        BY <1>1, <1>2, <1>5, <2>1, <4>2 DEF Opened, Domain
      <4>3. QED BY <2>4, <4>1, <4>2
    <3>3. QED BY <3>1, <3>2
  <2>5. QED BY <2>2, <2>3, <2>4
<1>13. QED
  BY <1>6, <1>7, <1>8, <1>9, <1>10, <1>11, <1>12, StepAt
  DEF AddRoutes, ChangeDomain, UpdateHosts, At

\* A step that changes the host's lines or routes.
LEMMA AgreeHost ==
  ASSUME TypeOK, NEW p \in Actors, AgreesFor(p), Course(p), Step(p), regime.failing = {},
         \/ AddRoutes(p) \/ UpdateHosts(p) \/ RemoveHostsLine(p) \/ RemoveRoute(p) \/ UndoHosts(p)
  PROVE  AgreesFor(p)'
<1>1. /\ name' = name /\ name[p] \in Names /\ outcome[p] = "none" /\ ~Failure(p)
      /\ UNCHANGED <<inst, snap, ip, dom, targets>>
  <2>1. pc[p] # "idle"
    BY DEF AddRoutes, UpdateHosts, RemoveHostsLine, RemoveRoute, UndoHosts, At
  <2>2. UNCHANGED <<inst, snap, ip, dom, targets, name>>
    BY DEF AddRoutes, UpdateHosts, RemoveHostsLine, RemoveRoute, UndoHosts, callVars
  <2>3. QED BY <2>1, <2>2, StepLocal DEF Course, TypeOK, Failure
<1>2. /\ Exists(name[p])' <=> Exists(name[p])
      /\ Running(name[p])' <=> Running(name[p])
      /\ inst'[name[p]] = Mine(p) /\ Mine(p)' = Mine(p)
      /\ \A n \in Names : hosts'[n] = hosts[n] => (Line(n)' <=> Line(n))
      /\ \A x : Routed(x)' <=> Routed(x)
  BY <1>1 DEF Line, Routed, Reachable, Running, Exists, Mine
<1>3. /\ \A n \in Names : Line(n) \/ (name[p] = n /\ pc[p] \in {"delete", "unhost"})
      /\ \A x \in routes : \/ Routed(x)
                           \/ /\ pc[p] \in {"delete", "unhost", "unroute"}
                              /\ cmd[p] \in Ending /\ name[p] \in Bridged /\ snap[p].ip = x
      /\ Stops(p) /\ Opens(p) /\ Listed(p) /\ Domain(p) /\ RouteSet(p)
  BY DEF AgreesFor
<1>4. CASE AddRoutes(p)
  <2>1. /\ pc[p] = "route" /\ routes' = routes \cup targets[p] /\ UNCHANGED <<hosts, cmd>>
        /\ \/ cmd[p] = "install" /\ pc'[p] = "idle" /\ outcome'[p] = "ok"
           \/ cmd[p] = "start" /\ pc'[p] = "ports" /\ outcome'[p] = "none"
           \/ cmd[p] = "run" /\ outcome'[p] = "none"
              /\ pc'[p] = (IF dom[p] THEN "domain" ELSE "ports")
    BY <1>1, <1>4 DEF AddRoutes, At, Goto, Succeed, TypeOK, callVars
  <2>2. (\A n \in Names : Line(n)') /\ (\A x \in routes' : Routed(x)')
    BY <1>1, <1>2, <1>3, <2>1 DEF Listed
  <2>3. Running(name[p]) /\ Mine(p).ip = ip[p] /\ ip[p] # NoAddr
        /\ (name[p] \in Bridged => ip[p] \in routes')
    BY <1>3, <2>1 DEF Opens, Addressed, Listed
  <2>4. Stops(p)' /\ Listed(p)' /\ Opened(p)'
    BY <2>1 DEF Stops, Undoing, Listed, Opened
  <2>5. Opens(p)' /\ RouteSet(p)'
    BY <1>1, <1>2, <2>1, <2>3 DEF Opens, Addressed, RouteSet
  <2>6. Domain(p)'
    BY <1>1, <1>2, <1>3, <2>1 DEF Domain
  <2>7. QED BY <2>2, <2>4, <2>5, <2>6 DEF AgreesFor
<1>5. CASE UpdateHosts(p)
  <2>1. /\ pc[p] = "hosts" /\ hosts' = [hosts EXCEPT ![name[p]] = ip[p]]
        /\ UNCHANGED <<routes, cmd>>
        /\ \/ cmd[p] = "run" /\ pc'[p] = "ports" /\ outcome'[p] = "none"
           \/ cmd[p] # "run" /\ pc'[p] = "idle" /\ outcome'[p] = "ok"
    BY <1>1, <1>5 DEF UpdateHosts, At, Goto, Succeed, TypeOK, callVars
  <2>2. /\ Running(name[p]) /\ Exists(name[p]) /\ Mine(p).ip = ip[p] /\ ip[p] # NoAddr
        /\ Mine(p).domain
    BY <1>3, <2>1 DEF Opens, Addressed, Domain, Running
  <2>3. hosts'[name[p]] = ip[p] /\ \A n \in Names \ {name[p]} : hosts'[n] = hosts[n]
    BY <1>1, <2>1 DEF TypeOK
  <2>4. Line(name[p])'
    BY <1>1, <1>2, <2>2, <2>3 DEF Line, Reachable, Mine
  <2>5. (\A n \in Names : Line(n)') /\ (\A x \in routes' : Routed(x)')
    BY <1>1, <1>2, <1>3, <2>1, <2>3, <2>4
  <2>6. Stops(p)' /\ Listed(p)' /\ Opens(p)' /\ RouteSet(p)'
    BY <1>1, <1>2, <1>3, <2>1, <2>2
    DEF Stops, Undoing, Listed, Opens, Addressed, RouteSet, PastRoutes
  <2>7. Domain(p)'
    BY <1>1, <1>3, <2>1, <2>3 DEF Domain
  <2>8. Opened(p)'
    BY <1>1, <1>2, <1>3, <2>1, <2>2, <2>3 DEF Opened, RouteSet, PastRoutes
  <2>9. QED BY <2>5, <2>6, <2>7, <2>8 DEF AgreesFor
<1>6. CASE RemoveHostsLine(p)
  <2>1. /\ pc[p] = "unhost" /\ hosts' = [hosts EXCEPT ![name[p]] = NoAddr]
        /\ UNCHANGED <<routes, cmd>>
        /\ \/ cmd[p] = "unset-domain" /\ pc'[p] = "idle" /\ outcome'[p] = "ok"
           \/ cmd[p] # "unset-domain" /\ pc'[p] = "unroute" /\ outcome'[p] = "none"
    BY <1>1, <1>6 DEF RemoveHostsLine, At, Goto, Succeed, TypeOK, callVars
  <2>2. hosts'[name[p]] = NoAddr /\ \A n \in Names \ {name[p]} : hosts'[n] = hosts[n]
    BY <1>1, <2>1 DEF TypeOK
  <2>3. Line(name[p])'
    BY <1>1, <2>2 DEF Line
  <2>4. \A n \in Names : Line(n)'
    BY <1>1, <1>2, <1>3, <2>2, <2>3
  <2>5. \A x \in routes' : \/ Routed(x)'
                           \/ /\ pc'[p] = "unroute" /\ cmd'[p] \in Ending
                              /\ name'[p] \in Bridged /\ snap'[p].ip = x
    BY <1>1, <1>2, <1>3, <2>1 DEF Ending
  <2>6. Stops(p)' /\ Opens(p)' /\ Listed(p)' /\ Domain(p)' /\ RouteSet(p)' /\ Opened(p)'
    BY <2>1 DEF Stops, Undoing, Opens, Addressed, Listed, Domain, RouteSet, PastRoutes, Opened
  <2>7. QED BY <2>4, <2>5, <2>6 DEF AgreesFor
<1>7. CASE RemoveRoute(p)
  <2>1. /\ pc[p] = "unroute" /\ UNCHANGED hosts /\ cmd[p] \in Ending
        /\ routes' = IF name[p] \in Bridged THEN routes \ {snap[p].ip} ELSE routes
        /\ \/ pc'[p] = "idle" /\ cmd'[p] \notin {"start", "run"}
           \/ pc'[p] = "read" /\ cmd'[p] = "start" /\ outcome'[p] = "none"
    BY <1>1, <1>7 DEF RemoveRoute, At, Goto, Succeed, TypeOK, Course, Ending
  <2>2. (\A n \in Names : Line(n)') /\ (\A x \in routes' : Routed(x)')
    BY <1>1, <1>2, <1>3, <2>1
  <2>3. Stops(p)' /\ Opens(p)' /\ Listed(p)' /\ Domain(p)' /\ RouteSet(p)' /\ Opened(p)'
    BY <2>1, AgreeRest
  <2>4. QED BY <2>2, <2>3 DEF AgreesFor
<1>8. CASE UndoHosts(p)
  <2>1. /\ pc[p] = "undo-hosts" /\ hosts' = [hosts EXCEPT ![name[p]] = NoAddr]
        /\ UNCHANGED <<routes, cmd>> /\ pc'[p] = "undo-halt" /\ outcome'[p] = "none"
    BY <1>1, <1>8 DEF UndoHosts, At, Goto, TypeOK, callVars
  <2>2. hosts'[name[p]] = NoAddr /\ \A n \in Names \ {name[p]} : hosts'[n] = hosts[n]
    BY <1>1, <2>1 DEF TypeOK
  <2>3. Line(name[p])'
    BY <1>1, <2>2 DEF Line
  <2>4. (\A n \in Names : Line(n)') /\ (\A x \in routes' : Routed(x)')
    BY <1>1, <1>2, <1>3, <2>1, <2>2, <2>3
  <2>5. Stops(p)'
    BY <1>1, <1>2, <1>3, <2>1, <2>2 DEF Stops, Undoing
  <2>6. Opens(p)' /\ Listed(p)' /\ Domain(p)' /\ RouteSet(p)' /\ Opened(p)'
    BY <2>1 DEF Opens, Addressed, Listed, Domain, RouteSet, PastRoutes, Opened
  <2>7. QED BY <2>4, <2>5, <2>6 DEF AgreesFor
<1>9. QED BY <1>4, <1>5, <1>6, <1>7, <1>8

\* A step that creates the container, starts it, changes its domain, stops or
\* deletes it.
LEMMA AgreeContainer ==
  ASSUME TypeOK, NEW p \in Actors, AgreesFor(p), Course(p), Step(p), regime.failing = {},
         pc[p] \in {"create", "boot", "domain", "halt", "delete", "undo-halt", "undo-delete"}
  PROVE  AgreesFor(p)'
<1>1. /\ name' = name /\ name[p] \in Names /\ outcome[p] = "none" /\ ~Failure(p)
      /\ InstStep(p) /\ Bridged \subseteq Names
  BY StepLocal, InstSteps, LifecycleAssumption DEF Course, TypeOK, Failure
<1>2. UNCHANGED <<hosts, routes, cmd, snap, ip, dom, targets>>
  BY StepAt DEF Create, Boot, ChangeDomain, Halt, Delete, UndoHalt, UndoDelete, hostVars,
     callVars, At, Reread, WaitForIP, WaitTimesOut, ListTargets, AddRoutes, UpdateHosts, Ports
<1>3. \A n \in Names \ {name[p]} : inst'[n] = inst[n] /\ (Line(n)' <=> Line(n))
  BY <1>1, <1>2 DEF InstStep, Line, Reachable, Running, Exists
<1>4. /\ \A n \in Names : Line(n) \/ (name[p] = n /\ pc[p] = "delete")
      /\ \A x \in routes : \/ Routed(x)
                           \/ /\ pc[p] = "delete"
                              /\ cmd[p] \in Ending /\ name[p] \in Bridged /\ snap[p].ip = x
      /\ Stops(p) /\ Opens(p) /\ Domain(p) /\ RouteSet(p)
  BY DEF AgreesFor
<1>5. \A x : Routed(x) =>
        \/ \E n \in Bridged \ {name[p]} : Reachable(n, x)
        \/ name[p] \in Bridged /\ Running(name[p]) /\ Mine(p).ip = x
  BY DEF Routed, Reachable, Mine
<1>6. \A x : (\E n \in Bridged \ {name[p]} : Reachable(n, x)) => Routed(x)'
  BY <1>1, <1>3 DEF Routed, Reachable, Running, Exists
<1>7. Exists(name[p]) => Mine(p) \in Instance
  BY <1>1 DEF TypeOK, Exists, Mine
<1>8. CASE pc[p] = "create"
  <2>1. Create(p) /\ ip[p] = NoAddr
    BY <1>4, <1>8, StepAt DEF Opens
  <2>2. CASE Exists(name[p])
    <3>1. inst' = inst /\ pc'[p] = "idle" /\ outcome'[p] = "failed"
      BY <1>1, <1>8, <2>1, <2>2, FailStep DEF Create, TypeOK
    <3>2. (\A n \in Names : Line(n)') /\ (\A x \in routes' : Routed(x)')
      BY <1>1, <1>2, <1>4, <1>8, <3>1 DEF Line, Routed, Reachable, Running, Exists
    <3>3. QED BY <3>1, <3>2, AgreeRest DEF AgreesFor
  <2>3. CASE ~Exists(name[p])
    <3>1. /\ pc'[p] = "boot" /\ outcome'[p] = "none" /\ inst' # inst
      BY <1>1, <1>8, <2>1, <2>3, InstSteps, LifecycleAssumption
      DEF Create, TypeOK, Goto, Exists, SetInst
    <3>2. Exists(name[p])' /\ ~inst'[name[p]].domain
      BY <1>1, <1>8, <2>3, <3>1 DEF InstStep
    <3>3. hosts[name[p]] = NoAddr
      BY <1>1, <1>4, <1>8, <2>3 DEF Line, Reachable, Running
    <3>4. \A n \in Names : Line(n)'
      BY <1>1, <1>2, <1>3, <1>4, <1>8, <3>3 DEF Line
    <3>5. \A x \in routes' : Routed(x)'
      BY <1>2, <1>4, <1>5, <1>6, <1>8, <2>3 DEF Running
    <3>6. Stops(p)' /\ Listed(p)' /\ RouteSet(p)' /\ Opened(p)'
      BY <3>1 DEF Stops, Undoing, Listed, RouteSet, PastRoutes, Opened
    <3>7. Opens(p)' /\ Domain(p)'
      BY <1>1, <1>2, <2>1, <3>1, <3>2 DEF Opens, Addressed, Domain, Mine
    <3>8. QED BY <3>4, <3>5, <3>6, <3>7 DEF AgreesFor
  <2>4. QED BY <2>2, <2>3
<1>9. CASE pc[p] = "boot"
  <2>1. Boot(p) /\ Exists(name[p]) /\ cmd[p] \in {"start", "install", "run"}
    BY <1>4, <1>9, StepAt DEF Opens, Course, Creating
  <2>2. CASE Running(name[p])
    <3>1. inst' = inst /\ pc'[p] = "idle" /\ outcome'[p] = "failed"
      BY <1>1, <1>9, <2>1, <2>2, FailStep DEF Boot, TypeOK
    <3>2. (\A n \in Names : Line(n)') /\ (\A x \in routes' : Routed(x)')
      BY <1>1, <1>2, <1>4, <1>9, <3>1 DEF Line, Routed, Reachable, Running, Exists
    <3>3. QED BY <3>1, <3>2, AgreeRest DEF AgreesFor
  <2>3. CASE ~Running(name[p])
    <3>1. /\ pc'[p] = IF cmd[p] = "start" THEN "reread" ELSE "wait"
          /\ outcome'[p] = "none" /\ inst'[name[p]].running
      <4>1. SetInst(p, [Mine(p) EXCEPT !.running = TRUE]) /\ Mine(p) \in Instance
        BY <1>1, <2>1, <2>3 DEF Boot, TypeOK, Exists, Mine
      <4>2. [Mine(p) EXCEPT !.running = TRUE].running
        BY <4>1 DEF Instance
      <4>3. inst'[name[p]] = [Mine(p) EXCEPT !.running = TRUE]
        BY <1>1, <4>1 DEF SetInst, TypeOK
      <4>4. QED BY <1>1, <2>1, <2>3, <4>2, <4>3 DEF Boot, Goto, TypeOK
    <3>2. /\ Running(name[p])' /\ inst'[name[p]].domain = Mine(p).domain
      BY <1>1, <1>9, <2>1, <2>3, <3>1 DEF InstStep, Running, Mine
    <3>3. hosts[name[p]] = NoAddr /\ ip[p] = NoAddr
      BY <1>1, <1>4, <1>9, <2>3 DEF Line, Reachable, Opens
    <3>4. \A n \in Names : Line(n)'
      BY <1>1, <1>2, <1>3, <1>4, <1>9, <3>3 DEF Line
    <3>5. \A x \in routes' : Routed(x)'
      BY <1>2, <1>4, <1>5, <1>6, <1>9, <2>3
    <3>6. Stops(p)' /\ Listed(p)' /\ RouteSet(p)' /\ Opened(p)'
      BY <2>1, <3>1 DEF Stops, Undoing, Listed, RouteSet, PastRoutes, Opened
    <3>7. Opens(p)'
      BY <1>1, <1>2, <2>1, <3>1, <3>2, <3>3 DEF Opens, Addressed
    <3>8. Domain(p)'
      BY <1>1, <1>2, <1>4, <1>9, <2>1, <3>1, <3>2 DEF Domain, Mine
    <3>9. QED BY <3>4, <3>5, <3>6, <3>7, <3>8 DEF AgreesFor
  <2>4. QED BY <2>2, <2>3
<1>10. CASE pc[p] = "domain"
  <2>1. ChangeDomain(p) /\ cmd[p] \in {"run", "set-domain", "unset-domain"}
    BY <1>10, StepAt DEF Course, Reread, WaitForIP, WaitTimesOut, ListTargets, AddRoutes,
       UpdateHosts, Ports, At
  <2>2. CASE ~Exists(name[p])
    <3>1. inst' = inst /\ pc'[p] = "idle" /\ outcome'[p] = "failed"
      <4>1. cmd[p] # "run"
        BY <1>4, <1>10, <2>2 DEF Opens, Running
      <4>2. QED BY <1>1, <2>1, <2>2, <4>1 DEF ChangeDomain, Fail, GiveUp, TypeOK
    <3>2. (\A n \in Names : Line(n)') /\ (\A x \in routes' : Routed(x)')
      BY <1>1, <1>2, <1>4, <1>10, <3>1 DEF Line, Routed, Reachable, Running, Exists
    <3>3. QED BY <3>1, <3>2, AgreeRest DEF AgreesFor
  <2>3. CASE Exists(name[p])
    <3>1. /\ SetInst(p, [Mine(p) EXCEPT !.domain = cmd[p] # "unset-domain"])
          /\ \/ cmd[p] = "run" /\ pc'[p] = "hosts" /\ outcome'[p] = "none"
             \/ cmd[p] = "unset-domain" /\ pc'[p] = "unhost" /\ outcome'[p] = "none"
             \/ cmd[p] = "set-domain" /\ snap[p].running /\ pc'[p] = "wait" /\ outcome'[p] = "none"
             \/ cmd[p] = "set-domain" /\ pc'[p] = "idle"
      BY <1>1, <2>1, <2>3 DEF ChangeDomain, Goto, Succeed, TypeOK
    <3> DEFINE new == [Mine(p) EXCEPT !.domain = cmd[p] # "unset-domain"]
    <3>2. /\ new \in Instance /\ new.running = Mine(p).running
          /\ new.ip = Mine(p).ip /\ new.domain = (cmd[p] # "unset-domain")
      BY <1>7, <2>3 DEF Instance
    <3>3. inst'[name[p]] = new
      BY <1>1, <3>1 DEF SetInst, TypeOK
    <3> HIDE DEF new
    <3>4. /\ Exists(name[p])' /\ (Running(name[p])' <=> Running(name[p]))
          /\ inst'[name[p]].ip = Mine(p).ip /\ inst'[name[p]].domain = (cmd[p] # "unset-domain")
      BY <1>1, <2>3, <3>2, <3>3, LifecycleAssumption DEF Exists, Running, Mine
    <3>5. \A x \in routes' : Routed(x)'
      BY <1>1, <1>2, <1>4, <1>5, <1>6, <1>10, <3>4 DEF Routed, Reachable
    <3>6. \A n \in Names : Line(n)' \/ (name'[p] = n /\ pc'[p] = "unhost")
      BY <1>1, <1>2, <1>3, <1>4, <1>10, <3>1, <3>4 DEF Line, Reachable, Mine
    <3>7. Stops(p)' /\ Listed(p)' /\ Opened(p)'
      BY <1>2, <3>1 DEF Stops, Undoing, Listed, Opened, Ending
    <3>8. Opens(p)'
      BY <1>1, <1>2, <1>4, <1>10, <3>1, <3>4 DEF Opens, Addressed, Mine
    <3>9. Domain(p)' /\ RouteSet(p)'
      BY <1>1, <1>2, <1>4, <1>10, <3>1, <3>4 DEF Domain, RouteSet, PastRoutes, Mine
    <3>10. QED BY <3>5, <3>6, <3>7, <3>8, <3>9 DEF AgreesFor
  <2>4. QED BY <2>2, <2>3
<1>11. CASE pc[p] = "halt"
  <2>1. Halt(p) /\ cmd[p] \in Ending
    BY <1>11, StepAt DEF Course
  <2>2. CASE ~Exists(name[p])
    <3>1. inst' = inst /\ pc'[p] = "idle" /\ outcome'[p] = "failed"
      BY <1>1, <2>1, <2>2 DEF Halt, Fail, GiveUp, TypeOK, Ending
    <3>2. (\A n \in Names : Line(n)') /\ (\A x \in routes' : Routed(x)')
      BY <1>1, <1>2, <1>4, <1>11, <3>1 DEF Line, Routed, Reachable, Running, Exists
    <3>3. QED BY <3>1, <3>2, AgreeRest DEF AgreesFor
  <2>3. CASE Exists(name[p])
    <3>1. /\ pc'[p] = (IF cmd[p] = "remove" THEN "delete" ELSE "unhost") /\ outcome'[p] = "none"
          /\ SetInst(p, Stopped(Mine(p)))
      BY <1>1, <2>1, <2>3 DEF Halt, Goto, TypeOK
    <3>2. /\ Stopped(Mine(p)) \in Instance /\ ~Stopped(Mine(p)).running
          /\ inst'[name[p]] = Stopped(Mine(p))
      <4>1. Stopped(Mine(p)) \in Instance /\ ~Stopped(Mine(p)).running
        BY <1>7, <2>3 DEF Stopped, Instance
      <4>2. QED BY <1>1, <3>1, <4>1 DEF SetInst, TypeOK
    <3>3. Exists(name[p])' /\ ~Running(name[p])'
      BY <1>1, <3>2, LifecycleAssumption DEF Exists, Running
    <3>4. \A n \in Names : Line(n)' \/ (name'[p] = n /\ pc'[p] \in {"delete", "unhost"})
      BY <1>1, <1>3, <1>4, <1>11, <3>1
    <3>5. \A x \in routes' : \/ Routed(x)'
                             \/ /\ pc'[p] \in {"delete", "unhost", "unroute"}
                                /\ cmd'[p] \in Ending /\ name'[p] \in Bridged /\ snap'[p].ip = x
      BY <1>1, <1>2, <1>4, <1>5, <1>6, <1>11, <2>1, <2>3, <3>1 DEF Stops
    <3>6. Stops(p)' /\ Opens(p)' /\ Listed(p)' /\ Domain(p)' /\ RouteSet(p)' /\ Opened(p)'
      BY <1>1, <3>1, <3>3 DEF Stops, Undoing, Opens, Addressed, Listed, Domain, RouteSet,
         PastRoutes, Opened
    <3>7. QED BY <3>4, <3>5, <3>6 DEF AgreesFor
  <2>4. QED BY <2>2, <2>3
<1>12. CASE pc[p] = "delete"
  <2>1. Delete(p) /\ cmd[p] = "remove" /\ Exists(name[p]) /\ ~Running(name[p])
    BY <1>4, <1>12, StepAt DEF Course, Stops, Ending
  <2>2. pc'[p] = "unhost" /\ outcome'[p] = "none" /\ SetInst(p, Absent)
    BY <1>1, <2>1 DEF Delete, Goto, TypeOK
  <2>3. ~Running(name[p])'
    BY <1>1, <2>2 DEF SetInst, Running, Exists, TypeOK
  <2>4. \A n \in Names : Line(n)' \/ (name'[p] = n /\ pc'[p] \in {"delete", "unhost"})
    BY <1>1, <1>3, <1>4, <2>2
  <2>5. \A x \in routes' : \/ Routed(x)'
                           \/ /\ pc'[p] \in {"delete", "unhost", "unroute"}
                              /\ cmd'[p] \in Ending /\ name'[p] \in Bridged /\ snap'[p].ip = x
    BY <1>1, <1>2, <1>4, <1>5, <1>6, <2>1, <2>2
  <2>6. Stops(p)' /\ Opens(p)' /\ Listed(p)' /\ Domain(p)' /\ RouteSet(p)' /\ Opened(p)'
    BY <1>1, <2>2, <2>3 DEF Stops, Undoing, Opens, Addressed, Listed, Domain, RouteSet,
       PastRoutes, Opened
  <2>7. QED BY <2>4, <2>5, <2>6 DEF AgreesFor
<1>13. CASE pc[p] = "undo-halt"
  <2>1. UndoHalt(p) /\ Exists(name[p]) /\ hosts[name[p]] = NoAddr /\ Mine(p).ip \notin routes
    BY <1>4, <1>13, StepAt DEF Stops, Undoing
  <2>2. pc'[p] = "undo-delete" /\ outcome'[p] = "none" /\ SetInst(p, Stopped(Mine(p)))
    BY <1>1, <2>1 DEF UndoHalt, Goto, TypeOK
  <2>3. /\ Stopped(Mine(p)) \in Instance /\ ~Stopped(Mine(p)).running
        /\ inst'[name[p]] = Stopped(Mine(p))
    <3>1. Stopped(Mine(p)) \in Instance /\ ~Stopped(Mine(p)).running
      BY <1>7, <2>1 DEF Stopped, Instance
    <3>2. QED BY <1>1, <2>2, <3>1 DEF SetInst, TypeOK
  <2>4. Exists(name[p])' /\ ~Running(name[p])'
    BY <1>1, <2>3, LifecycleAssumption DEF Exists, Running
  <2>5. \A n \in Names : Line(n)'
    BY <1>1, <1>2, <1>3, <1>4, <1>13, <2>1 DEF Line
  <2>6. \A x \in routes' : Routed(x)'
    BY <1>2, <1>4, <1>5, <1>6, <1>13, <2>1
  <2>7. Stops(p)' /\ Opens(p)' /\ Listed(p)' /\ Domain(p)' /\ RouteSet(p)' /\ Opened(p)'
    BY <1>1, <1>2, <2>1, <2>2, <2>4 DEF Stops, Undoing, Opens, Addressed, Listed, Domain,
       RouteSet, PastRoutes, Opened
  <2>8. QED BY <2>5, <2>6, <2>7 DEF AgreesFor
<1>14. CASE pc[p] = "undo-delete"
  <2>1. UndoDelete(p) /\ Exists(name[p]) /\ ~Running(name[p]) /\ hosts[name[p]] = NoAddr
    BY <1>4, <1>14, StepAt DEF Stops, Undoing
  <2>2. pc'[p] = "idle" /\ outcome'[p] = "failed"
    BY <1>1, <2>1 DEF UndoDelete, GiveUp, TypeOK
  <2>3. \A n \in Names : Line(n)'
    BY <1>1, <1>2, <1>3, <1>4, <1>14, <2>1 DEF Line
  <2>4. \A x \in routes' : Routed(x)'
    BY <1>2, <1>4, <1>5, <1>6, <1>14, <2>1
  <2>5. Stops(p)' /\ Opens(p)' /\ Listed(p)' /\ Domain(p)' /\ RouteSet(p)' /\ Opened(p)'
    BY <2>2, AgreeRest
  <2>6. QED BY <2>3, <2>4, <2>5 DEF AgreesFor
<1>15. QED BY <1>8, <1>9, <1>10, <1>11, <1>12, <1>13, <1>14

\* The network and a new command owe nothing.
LEMMA AgreeOther ==
  ASSUME TypeOK, CourseInv, AgreeInv, Smooth, UNCHANGED regime,
         \/ \E p \in Actors, c \in Requests, n \in Names : Begin(p, c, n)
         \/ \E n \in Names : Lease(n) \/ PowersOff(n)
  PROVE  AgreeInv'
<1>1. /\ Lines /\ Routes
      /\ \A p \in Actors : /\ Stops(p) /\ Opens(p) /\ Listed(p) /\ Domain(p)
                           /\ RouteSet(p) /\ Opened(p)
  BY DEF AgreeInv
<1>2. ASSUME NEW p \in Actors, NEW c \in Requests, NEW n \in Names, Begin(p, c, n)
      PROVE  AgreeInv'
  <2>1. /\ pc[p] = "idle" /\ pc'[p] \in {"read", "create"} /\ outcome'[p] = "none"
        /\ ip'[p] = NoAddr /\ UNCHANGED <<inst, hosts, routes>>
    BY <1>2 DEF Begin, At, TypeOK, hostVars
  <2>2. \A q \in Actors \ {p} :
          /\ pc'[q] = pc[q] /\ outcome'[q] = outcome[q] /\ cmd'[q] = cmd[q]
          /\ name'[q] = name[q] /\ snap'[q] = snap[q] /\ ip'[q] = ip[q]
          /\ dom'[q] = dom[q] /\ targets'[q] = targets[q]
    BY <1>2 DEF Begin, TypeOK
  <2>3. /\ \A n1 \in Names : Line(n1)' <=> Line(n1)
        /\ \A x : Routed(x)' <=> Routed(x)
    BY <2>1 DEF Line, Routed, Reachable, Running, Exists
  <2>4. Lines' /\ Routes'
    BY <1>1, <2>1, <2>2, <2>3 DEF Lines, Routes
  <2>5. ASSUME NEW q \in Actors, q # p
        PROVE  /\ Stops(q)' /\ Opens(q)' /\ Listed(q)' /\ Domain(q)' /\ RouteSet(q)' /\ Opened(q)'
    <3>1. /\ Exists(name[q])' <=> Exists(name[q])
          /\ Running(name[q])' <=> Running(name[q])
          /\ Mine(q)' = Mine(q) /\ inst'[name[q]] = Mine(q) /\ hosts'[name[q]] = hosts[name[q]]
      BY <2>1, <2>2, <2>5 DEF Exists, Running, Mine
    <3>2. Stops(q)' /\ Opens(q)'
      BY <1>1, <2>1, <2>2, <2>5, <3>1 DEF Stops, Opens, Addressed
    <3>3. Listed(q)' /\ Domain(q)' /\ RouteSet(q)' /\ Opened(q)'
      BY <1>1, <2>1, <2>2, <2>3, <2>5, <3>1 DEF Listed, Domain, RouteSet, PastRoutes, Opened
    <3>4. QED BY <3>2, <3>3
  <2>6. Stops(p)' /\ Opens(p)' /\ Listed(p)' /\ Domain(p)' /\ RouteSet(p)' /\ Opened(p)'
    BY <2>1, AgreeRest
  <2>7. QED BY <2>4, <2>5, <2>6 DEF AgreeInv
<1>3. ASSUME NEW n \in Names, Lease(n) \/ PowersOff(n) PROVE AgreeInv'
  <2>1. /\ Exists(n) /\ Exists(n)' /\ \A m \in Names \ {n} : inst'[m] = inst[m]
        /\ inst'[n].domain = inst[n].domain /\ inst[n].running
        /\ inst'[n].running /\ inst[n].ip = NoAddr /\ inst'[n].ip \in Addrs
        /\ \A m \in Names : Exists(m) => inst[m].ip # inst'[n].ip
        /\ UNCHANGED <<hosts, routes, pc, cmd, name, snap, ip, dom, targets, outcome>>
    BY <1>3, NetworkStep DEF Smooth
  <2>2. \A m \in Names : /\ Exists(m)' <=> Exists(m)
                         /\ Running(m)' <=> Running(m)
                         /\ inst'[m].domain = inst[m].domain
                         /\ inst'[m].ip = inst[m].ip \/ (m = n /\ inst[m].ip = NoAddr)
    BY <2>1 DEF Exists, Running
  <2>3. \A m \in Names : Line(m) => Line(m)'
    BY <2>1, <2>2 DEF Line, Reachable
  <2>4. \A x \in Addrs : Routed(x) => Routed(x)'
    BY <2>1, <2>2, LifecycleAssumption DEF Routed, Reachable
  <2>5. routes \subseteq Addrs /\ Names \cap {NoName} = {}
        /\ \A q \in Actors : /\ targets[q] \subseteq Addrs
                             /\ pc[q] # "idle" \/ outcome[q] # "none" => name[q] \in Names
    BY LifecycleAssumption DEF TypeOK, CourseInv, Course
  <2>6. Lines' /\ Routes'
    BY <1>1, <2>1, <2>3, <2>4, <2>5 DEF Lines, Routes
  <2>7. ASSUME NEW q \in Actors, pc[q] \in {"halt", "undo-hosts", "undo-halt"}
        PROVE  inst'[n].ip \notin routes
    <3>1. \A x \in routes : Routed(x)
      BY <1>1, <2>7 DEF Routes, Smooth, Serial, CourseInv, Course
    <3>2. QED BY <2>1, <3>1, LifecycleAssumption DEF Routed, Reachable, Running
  <2>8. ASSUME NEW q \in Actors, pc[q] # "idle" \/ outcome[q] # "none"
        PROVE  Stops(q)' /\ Opens(q)' /\ Listed(q)' /\ Domain(q)' /\ RouteSet(q)' /\ Opened(q)'
    <3>1. /\ name'[q] = name[q] /\ name[q] \in Names
          /\ Exists(name[q])' <=> Exists(name[q])
          /\ Running(name[q])' <=> Running(name[q])
          /\ Mine(q)'.domain = Mine(q).domain /\ inst'[name[q]].domain = Mine(q).domain
          /\ Mine(q)'.ip = Mine(q).ip \/ (name[q] = n /\ Mine(q).ip = NoAddr)
          /\ Mine(q)' = inst'[name[q]]
      BY <2>1, <2>2, <2>5, <2>8 DEF Mine
    <3>2. Stops(q)'
      BY <1>1, <2>1, <2>7, <3>1 DEF Stops, Undoing
    <3>3. Opens(q)'
      BY <1>1, <2>1, <3>1 DEF Opens, Addressed
    <3>4. Listed(q)' /\ Domain(q)' /\ RouteSet(q)'
      BY <1>1, <2>1, <2>4, <2>5, <3>1 DEF Listed, Domain, RouteSet, PastRoutes
    <3>5. Opened(q)'
      BY <1>1, <2>1, <3>1 DEF Opened
    <3>6. QED BY <3>2, <3>3, <3>4, <3>5
  <2>9. ASSUME NEW q \in Actors, pc[q] = "idle", outcome[q] = "none"
        PROVE  Stops(q)' /\ Opens(q)' /\ Listed(q)' /\ Domain(q)' /\ RouteSet(q)' /\ Opened(q)'
    BY <2>1, <2>9, AgreeRest
  <2>10. QED BY <2>6, <2>8, <2>9 DEF AgreeInv
<1>4. QED BY <1>2, <1>3

\* No step lets the host and the containers drift apart.
LEMMA AgreeStep ==
  ASSUME TypeOK, CourseInv, CourseInv', AgreeInv, [Next]_vars
  PROVE  AgreeInv'
<1>1. /\ regime.busy \subseteq Actors /\ regime.on \subseteq Names /\ UNCHANGED regime
      /\ regime.commands \subseteq Requests
  BY RegimeFixed
<1> SUFFICES ASSUME Smooth PROVE AgreeInv'
  BY <1>1 DEF AgreeInv, Smooth, Serial
<1>2. ASSUME NEW p \in regime.busy, Step(p) PROVE AgreeInv'
  <2>1. p \in Actors /\ Course(p) /\ regime.failing = {}
    BY <1>1 DEF CourseInv, Smooth
  <2>2. \A q \in Actors \ {p} : /\ pc[q] = "idle" /\ outcome[q] = "none"
                                /\ pc'[q] = "idle" /\ outcome'[q] = "none"
    BY <1>1, <1>2 DEF Smooth, Serial, CourseInv, Course
  <2>3. AgreesFor(p)
    BY <2>1, <2>2 DEF AgreeInv, AgreesFor, Lines, Routes
  <2>4. AgreesFor(p)'
    <3>1. CASE pc[p] \in {"read", "reread", "wait", "list", "ports"}
      <4>1. UNCHANGED <<inst, hostVars>>
        BY <1>2, <2>1, <3>1, StepAt DEF ReadRestart, ReadFree, Read, Reread, WaitForIP,
           WaitTimesOut, ListTargets, AddRoutes, ChangeDomain, UpdateHosts, Ports, At
      <4>2. QED BY <1>2, <2>1, <2>3, <3>1, <4>1, AgreeWatch
    <3>2. CASE pc[p] \in {"create", "boot", "domain", "halt", "delete", "undo-halt", "undo-delete"}
      BY <1>2, <2>1, <2>3, <3>2, AgreeContainer
    <3>3. CASE pc[p] \in {"route", "hosts", "unhost", "unroute", "undo-hosts"}
      <4>1. \/ AddRoutes(p) \/ UpdateHosts(p) \/ RemoveHostsLine(p) \/ RemoveRoute(p)
            \/ UndoHosts(p)
        BY <1>2, <2>1, <3>3, StepAt DEF Reread, WaitForIP, WaitTimesOut, ListTargets,
           ChangeDomain, Ports, At
      <4>2. QED BY <1>2, <2>1, <2>3, <4>1, AgreeHost
    <3>4. pc[p] \in Steps /\ pc[p] # "idle"
      BY <1>2, <2>1, StepLocal DEF TypeOK
    <3>5. QED BY <3>1, <3>2, <3>3, <3>4 DEF Steps
  <2>5. QED BY <2>1, <2>2, <2>4, AgreeAlone DEF AgreeInv
<1>3. ASSUME NEW p \in regime.busy, NEW c \in regime.commands, NEW n \in regime.on, Begin(p, c, n)
      PROVE  AgreeInv'
  BY <1>1, <1>3, AgreeOther
<1>4. ASSUME NEW n \in Names, Lease(n) \/ PowersOff(n) PROVE AgreeInv'
  BY <1>1, <1>4, AgreeOther
<1>5. CASE UNCHANGED vars
  BY <1>5 DEF vars, callVars, hostVars, AgreeInv, Smooth, Serial, Lines, Routes, Line, Routed,
     Stops, Opens, Addressed, Listed, Domain, RouteSet, PastRoutes, Opened, Reachable, Running,
     Exists, Mine, Undoing, Ending
<1>6. QED BY <1>1, <1>2, <1>3, <1>4, <1>5 DEF Next

\* Commands that run one at a time, and whose steps succeed, leave no line of
\* /etc/hosts and no route that leads nowhere; and what they report as started
\* is reachable.
THEOREM HostAgreement == Spec => []HostAgrees
<1>1. Init => AgreeInv
  BY DEF Init, AgreeInv, Lines, Line, Routes, Stops, Opens, Addressed, Listed, Domain, RouteSet,
     PastRoutes, Opened, Undoing
<1>2. ASSUME AgreeInv PROVE HostAgrees
  <2>1. SUFFICES ASSUME Smooth, Quiet PROVE HostAgrees
    BY DEF HostAgrees, NoStaleLine, NoStaleRoute, StartMakesReachable
  <2>2. Lines /\ Routes /\ \A p \in Actors : Opened(p) /\ pc[p] = "idle"
    BY <1>2, <2>1 DEF AgreeInv, Quiet
  <2>3. NoStaleLine
    BY <2>2 DEF NoStaleLine, Lines, Line
  <2>4. NoStaleRoute
    BY <2>2 DEF NoStaleRoute, Routes, Routed
  <2>5. StartMakesReachable
    BY <2>2 DEF StartMakesReachable, Opened, Mine
  <2>6. QED BY <2>3, <2>4, <2>5 DEF HostAgrees
<1>3. QED BY <1>1, <1>2, AgreeStep, CourseHolds, TypeCorrect, PTL DEF Spec
=============================================================================
