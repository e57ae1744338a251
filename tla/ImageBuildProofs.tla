-------------------------- MODULE ImageBuildProofs --------------------------
(***************************************************************************)
(* Proofs about ImageBuild.  StepInv says where the build is, LeftInv      *)
(* which containers it still has to take down, StreamInv and CallInv how   *)
(* far the four parties of a copy have come, and EffectInv what is right   *)
(* in the stages so far; PriorInv and ProbeInv are what EffectInv needs of *)
(* the plan and of the probe for the destination.                          *)
(***************************************************************************)
EXTENDS ImageBuild, TLAPS

\* The call has started its goroutine and has not returned.
Joined == {"startTarget", "waitTarget", "waitData", "waitSource"}
\* CopyBetweenContainers runs, after its probe.
InCopy == {"spawn"} \cup Joined
\* A stage's container is being made or its steps run.
InStage == {"create", "start", "prepare", "step"} \cup InCopy
\* The deferred function.
TakingDown == {"stopStage", "deleteStage"}

\* What the place in buildImage says of the stage and the step it is at.
StepInv ==
  /\ pc \in InCopy => step <= Len(Steps(stage)) /\ Now.kind = "copy"
  /\ pc \in {"validate", "create", "start", "prepare"} \cup TakingDown => step = 1
  /\ pc = "validate" => stage = 1
  /\ pc \in {"stop", "publish"} => IsLast(stage)

\* Every container there is has its name noted, and those the deferred function
\* has passed are gone or were refused.
LeftInv ==
  /\ \A s \in StagesOf : box[s] # "none" => s \in named
  /\ pc = "validate" => \A s \in StagesOf : box[s] = "none"
  /\ pc = "start" => stage \in named
  /\ pc \in TakingDown => \A s \in StagesOf : s > stage /\ box[s] # "none" => s \in refused

\* No part of a copy is there.
NotStarted ==
  /\ goroutine = "off" /\ ~sourceErr /\ tar = "off" /\ target = "off" /\ ~targetErr
  /\ pipe = {} /\ written = 0 /\ inflight = 0 /\ arrived = 0 /\ eaten = 0

\* Every chunk written is in the source's connection, the target's or unpacked;
\* a copy in which nobody failed has lost none.
StreamInv ==
  /\ inflight + arrived + eaten = written
  /\ "writer" \in pipe <=> goroutine = "done"
  /\ "reader" \in pipe /\ target \in {"off", "preparing", "reading"} => targetErr
  /\ goroutine \in {"draining", "done"} /\ ~sourceErr => tar = "ok"
  /\ tar = "ok" => written = Chunks
  /\ goroutine = "done" /\ ~sourceErr /\ ~targetErr /\ target # "failed" => inflight = 0
  /\ target = "ok" /\ ~targetErr =>
       goroutine = "done" /\ (~sourceErr => eaten = Chunks)

\* Outside the call nothing of a copy is left; the call waits for the goroutine
\* only when the target has ended or was never started.
CallInv ==
  /\ pc \notin Joined \cup {"ended"} => NotStarted
  /\ pc = "startTarget" => target = "off" /\ ~targetErr
  /\ pc = "waitSource" => targetErr \/ target \in {"ok", "failed"}

\* Validation has refused every copy that is not from an earlier stage.
PriorInv ==
  pc \notin {"validate", "ended"} =>
    \A s \in StagesOf : \A i \in DOMAIN Steps(s) :
      Steps(s)[i].kind = "copy" => Steps(s)[i].from < s

\* Unless an answer was misread, the stages behind are whole, the steps behind in
\* this one took effect, and what is published is whole.
EffectInv == misread = {} =>
  /\ pc \in InStage => \A s \in StagesOf : s < stage => content[s] = Whole(s)
  /\ pc \in InStage \ {"create"} => {Base} \cup 1 .. step - 1 \subseteq content[stage]
  /\ pc \in {"stop", "publish"} => \A s \in StagesOf : s = stage => content[s] = Whole(s)

\* A probe that was not misread takes a directory for none only when its container
\* is down, and then the target fails.
ProbeInv ==
  misread = {} /\ pc \in InCopy /\ Now.directory /\ ~asDirectory =>
    /\ pc \in {"spawn", "startTarget"} => ~Up(stage)
    /\ pc \in {"waitTarget", "waitData", "waitSource"} => targetErr

\* What the assumption about the build files says of the steps.
LEMMA PlanShape ==
  ASSUME plan \in Plans
  PROVE  /\ Len(plan.stages) \in Nat \ {0} /\ plan.runtime \in BOOLEAN
         /\ \A s \in StagesOf :
              /\ Len(Steps(s)) \in Nat /\ DOMAIN Steps(s) = 1 .. Len(Steps(s))
              /\ \A i \in 1 .. Len(Steps(s)) : Steps(s)[i].kind = "copy" =>
                   Steps(s)[i].from \in Nat \ {0} /\ Steps(s)[i].directory \in BOOLEAN
<1>1. plan.stages \in Seq(Seq(Instruction)) /\ plan.stages # <<>>
/\ plan.runtime \in BOOLEAN
  BY PlansAssumption
<1>2. Len(plan.stages) \in Nat \ {0}
  BY <1>1
<1>3. ASSUME NEW s \in StagesOf
      PROVE  /\ Len(Steps(s)) \in Nat /\ DOMAIN Steps(s) = 1 .. Len(Steps(s))
             /\ \A i \in 1 .. Len(Steps(s)) : Steps(s)[i].kind = "copy" =>
                   Steps(s)[i].from \in Nat \ {0} /\ Steps(s)[i].directory \in BOOLEAN
  <2>1. Steps(s) \in Seq(Instruction)
    BY <1>1, <1>2, <1>3 DEF StagesOf, Steps
  <2>2. ASSUME NEW i \in 1 .. Len(Steps(s)), Steps(s)[i].kind = "copy"
        PROVE  Steps(s)[i].from \in Nat \ {0} /\ Steps(s)[i].directory \in BOOLEAN
    <3>1. Steps(s)[i] \in Instruction
      BY <2>1, <2>2
    <3>2. \A x \in Instruction : x.kind = "copy" => x.from \in Nat \ {0}
    /\ x.directory \in BOOLEAN
      BY DEF Instruction, Kinds
    <3> QED
      BY <2>2, <3>1, <3>2
  <2> QED
    BY <2>1, <2>2
<1> QED
  BY <1>1, <1>2, <1>3

\* No step changes the build file.
LEMMA PlanFixed == [Next]_vars => plan' = plan
  BY DEF Next, Build, StageStep, StepStep, CopyStep, EndStep, Goroutine, Copying,
         InSource, InTarget, Validate, Create, Start, Prepare, RunCommand, NoteEnvironment,
         Capture, PushEntry, PersistEnvironment, InstallService, NextStage, Probe, Spawn,
         StartTarget, WaitTarget, WaitData, WaitSource, StopLast, Publish, StopStage,
         DeleteStage, GoStart, GoWait, GoClose, Transfer, SourceTar, TargetScript, Killed,
         StageDies, vars, buildVars

\* Nor anything that is read from it.
LEMMA SameShape ==
  ASSUME plan' = plan
  PROVE  /\ StagesOf' = StagesOf
         /\ \A s \in StagesOf : Steps(s)' = Steps(s) /\ Whole(s)' = Whole(s)
                                /\ IsLast(s)' = IsLast(s)
<1>1. StagesOf' = StagesOf /\ \A s \in StagesOf : Steps(s)' = Steps(s)
  BY DEF StagesOf, Steps
<1>2. \A s \in StagesOf : HasEnv(s)' = HasEnv(s) /\ IsLast(s)' = IsLast(s)
  BY <1>1 DEF HasEnv, IsLast
<1>3. \A s \in StagesOf : Whole(s)' = Whole(s)
  BY <1>1, <1>2 DEF Whole, EnvFiles, Service
<1> QED
  BY <1>1, <1>2, <1>3

\* The part of TypeOK about the place in buildImage,
PlaceType ==
  /\ pc \in Labels /\ outcome \in {"none", "ok", "failed", "killed"}
  /\ stage \in StagesOf /\ step \in 1 .. Len(Steps(stage)) + 1
  /\ entry \in 0 .. Entries - 1

\* about the containers,
BoxType ==
  /\ named \subseteq StagesOf /\ refused \subseteq named
  /\ box \in [StagesOf -> {"none", "stopped", "running"}]
  /\ misread \subseteq {"capture", "environment", "probe"}
  /\ faults \in 0 .. MaxFaults

\* about their file systems,
ContentType ==
  /\ DOMAIN content = StagesOf
  /\ \A s \in StagesOf : content[s] \subseteq Whole(s)

\* and about the copy.
StreamType ==
  /\ asDirectory \in BOOLEAN /\ sourceErr \in BOOLEAN /\ targetErr \in BOOLEAN
  /\ goroutine \in {"off", "starting", "waiting", "draining", "done"}
  /\ tar \in {"off", "running", "ok", "failed"}
  /\ target \in {"off", "preparing", "reading", "ok", "failed"}
  /\ pipe \subseteq {"reader", "writer"}
  /\ inflight \in 0 .. WireCapacity /\ arrived \in 0 .. WireCapacity
  /\ written \in 0 .. Chunks /\ eaten \in 0 .. Chunks
  /\ inflight + arrived + eaten <= written

\* A step to another place at the same step of the same stage keeps its part.
LEMMA PlaceGoto ==
  ASSUME TypeOK, plan' = plan, pc' \in Labels, UNCHANGED <<stage, step, entry>>,
         outcome' \in {"none", "ok", "failed", "killed"}
  PROVE  PlaceType'
  BY SameShape DEF TypeOK, PlaceType

\* So does a return from buildImage
LEMMA PlaceReturn ==
  ASSUME TypeOK, plan' = plan, pc' = "stopStage",
         stage' = Len(plan.stages), step' = 1, entry' = 0,
         outcome' \in {"none", "ok", "failed", "killed"}
  PROVE  PlaceType'
<1>1. Len(plan.stages) \in StagesOf /\ Len(Steps(Len(plan.stages))) \in Nat
  BY PlanShape DEF TypeOK, StagesOf
<1>2. stage' \in StagesOf' /\ Len(Steps(stage)') \in Nat
  BY <1>1 DEF StagesOf, Steps
<1> QED
  BY <1>2, BuildAssumption DEF PlaceType, Labels

\* and the end of a step.
LEMMA PlaceStep ==
  ASSUME TypeOK, plan' = plan, pc' = "step", step <= Len(Steps(stage)),
         step' = step + 1, entry' = 0, UNCHANGED <<stage, outcome>>
  PROVE  PlaceType'
<1>1. Len(Steps(stage)) \in Nat /\ step \in 1 .. Len(Steps(stage)) + 1
  BY PlanShape DEF TypeOK
<1>2. step + 1 \in 1 .. Len(Steps(stage)) + 1
  BY <1>1
<1>3. stage' \in StagesOf' /\ Len(Steps(stage)') = Len(Steps(stage))
  BY SameShape DEF TypeOK
<1> QED
  BY <1>2, <1>3, BuildAssumption, SMTT(30) DEF TypeOK, PlaceType, Labels

\* A stage whose content is replaced by a part of the whole keeps its type.
LEMMA ContentStep ==
  ASSUME TypeOK, plan' = plan,
         NEW effects \in SUBSET Whole(stage), content' = [content EXCEPT ![stage] = effects]
  PROVE  ContentType'
<1>1. DOMAIN content' = StagesOf /\ \A s \in StagesOf : content'[s] \subseteq Whole(s)
  BY DEF TypeOK
<1> QED
  BY <1>1, SameShape DEF ContentType

\* What an action leaves alone keeps its type.
LEMMA TypeKept ==
  ASSUME TypeOK, plan' = plan
  PROVE  /\ UNCHANGED content => ContentType'
         /\ UNCHANGED copyVars => StreamType'
         /\ UNCHANGED <<named, refused, box, misread>> /\ faults' \in 0 .. MaxFaults
              => BoxType'
         /\ UNCHANGED <<pc, outcome, stage, step, entry>> => PlaceType'
<1>1. UNCHANGED content => ContentType'
  BY SameShape DEF TypeOK, ContentType
<1>2. UNCHANGED copyVars => StreamType'
  BY DEF TypeOK, StreamType, copyVars
<1>3. UNCHANGED <<named, refused, box, misread>> /\ faults' \in 0 .. MaxFaults => BoxType'
  BY SameShape DEF TypeOK, BoxType
<1>4. UNCHANGED <<pc, outcome, stage, step, entry>> => PlaceType'
  BY SameShape DEF TypeOK, PlaceType
<1> QED
  BY <1>1, <1>2, <1>3, <1>4

\* The count of faults stays within its bound.
LEMMA FaultsType ==
  ASSUME TypeOK, Fault \/ NoFault
  PROVE  faults' \in 0 .. MaxFaults
  BY BuildAssumption DEF TypeOK, Fault, NoFault

\* Every step keeps the types.
LEMMA TypeStep == TypeOK /\ StepInv /\ [Next]_vars => TypeOK'
<1> SUFFICES ASSUME TypeOK, StepInv, [Next]_vars PROVE TypeOK'
  OBVIOUS
<1>a. plan' = plan /\ plan' \in Plans
  BY PlanFixed DEF TypeOK
<1>b. outcome \in {"none", "ok", "failed", "killed"} /\ pc \in Labels
  BY DEF TypeOK
<1>c. /\ content[stage] \in SUBSET Whole(stage)
      /\ step <= Len(Steps(stage)) => content[stage] \cup {step} \in SUBSET Whole(stage)
  BY PlanShape DEF TypeOK, Whole
<1> SUFFICES PlaceType' /\ BoxType' /\ ContentType' /\ StreamType'
  BY <1>a DEF TypeOK, PlaceType, BoxType, ContentType, StreamType
<1>1. ASSUME Validate PROVE PlaceType' /\ BoxType' /\ ContentType' /\ StreamType'
  <2>1. PlaceType'
    BY <1>1, <1>a, <1>b, PlaceGoto, PlaceReturn DEF Validate, Labels, Goto, Return, Fail,
           StepFails
  <2>2. BoxType'
    BY <1>1, <1>a, TypeKept, FaultsType DEF Validate
  <2>3. ContentType'
    BY <1>1, <1>a, TypeKept DEF Validate, StepFails
  <2>4. StreamType'
    BY <1>1, <1>a, TypeKept DEF Validate
  <2> QED
    BY <2>1, <2>2, <2>3, <2>4
<1>2. ASSUME Create PROVE PlaceType' /\ BoxType' /\ ContentType' /\ StreamType'
  <2>1. PlaceType'
    BY <1>2, <1>a, <1>b, PlaceGoto, PlaceReturn DEF Create, Labels, Goto, Return, Fail,
           StepFails
  <2>2. BoxType'
    BY <1>2, <1>a, SameShape, FaultsType DEF Create, TypeOK, BoxType
  <2>3. ContentType'
    BY <1>2, <1>a, SameShape, TypeKept DEF Create, TypeOK, ContentType, Whole
  <2>4. StreamType'
    BY <1>2, <1>a, TypeKept DEF Create
  <2> QED
    BY <2>1, <2>2, <2>3, <2>4
<1>3. ASSUME Start PROVE PlaceType' /\ BoxType' /\ ContentType' /\ StreamType'
  <2>1. PlaceType'
    BY <1>3, <1>a, <1>b, PlaceGoto, PlaceReturn DEF Start, Labels, Goto, Return, Fail,
           StepFails
  <2>2. BoxType'
    BY <1>3, <1>a, SameShape, FaultsType DEF Start, TypeOK, BoxType
  <2>3. ContentType'
    BY <1>3, <1>a, TypeKept DEF Start, StepFails
  <2>4. StreamType'
    BY <1>3, <1>a, TypeKept DEF Start
  <2> QED
    BY <2>1, <2>2, <2>3, <2>4
<1>4. ASSUME Prepare PROVE PlaceType' /\ BoxType' /\ ContentType' /\ StreamType'
  <2>1. PlaceType'
    BY <1>4, <1>a, <1>b, PlaceGoto, PlaceReturn DEF Prepare, Labels, Goto, Return, Fail,
           StepFails
  <2>2. BoxType'
    BY <1>4, <1>a, TypeKept, FaultsType DEF Prepare
  <2>3. ContentType'
    BY <1>4, <1>a, TypeKept DEF Prepare, StepFails
  <2>4. StreamType'
    BY <1>4, <1>a, TypeKept DEF Prepare
  <2> QED
    BY <2>1, <2>2, <2>3, <2>4
<1>5. ASSUME RunCommand PROVE PlaceType' /\ BoxType' /\ ContentType' /\ StreamType'
  <2>1. PlaceType'
    BY <1>5, <1>a, <1>b, PlaceGoto, PlaceReturn, PlaceStep DEF RunCommand, Labels, AtStep,
           Return, Fail, StepFails, StepDone, Done
  <2>2. BoxType'
    BY <1>5, <1>a, TypeKept, FaultsType DEF RunCommand
  <2>3. ContentType'
    BY <1>5, <1>a, <1>c, TypeKept, ContentStep DEF RunCommand, AtStep, Fail, StepFails,
           StepDone, Done
  <2>4. StreamType'
    BY <1>5, <1>a, TypeKept DEF RunCommand
  <2> QED
    BY <2>1, <2>2, <2>3, <2>4
<1>6. ASSUME NoteEnvironment PROVE PlaceType' /\ BoxType' /\ ContentType' /\ StreamType'
  <2>1. PlaceType'
    BY <1>6, <1>a, <1>b, PlaceGoto, PlaceReturn, PlaceStep DEF NoteEnvironment, Labels,
           AtStep, Return, Fail, StepFails, StepDone, Done
  <2>2. BoxType'
    BY <1>6, <1>a, TypeKept, FaultsType DEF NoteEnvironment
  <2>3. ContentType'
    BY <1>6, <1>a, <1>c, TypeKept, ContentStep DEF NoteEnvironment, AtStep, Fail,
           StepFails, StepDone, Done
  <2>4. StreamType'
    BY <1>6, <1>a, TypeKept DEF NoteEnvironment
  <2> QED
    BY <2>1, <2>2, <2>3, <2>4
<1>7. ASSUME Capture PROVE PlaceType' /\ BoxType' /\ ContentType' /\ StreamType'
  <2>1. PlaceType'
    BY <1>7, <1>a, <1>b, PlaceGoto, PlaceReturn, PlaceStep DEF Capture, Labels, AtStep,
           Return, Fail, StepFails, StepDone, Done
  <2>2. BoxType'
    BY <1>7, <1>a, SameShape, FaultsType DEF Capture, TypeOK, BoxType
  <2>3. ContentType'
    BY <1>7, <1>a, <1>c, TypeKept, ContentStep DEF Capture, AtStep, Fail, StepFails,
           StepDone, Done
  <2>4. StreamType'
    BY <1>7, <1>a, TypeKept DEF Capture
  <2> QED
    BY <2>1, <2>2, <2>3, <2>4
<1>8. ASSUME PushEntry PROVE PlaceType' /\ BoxType' /\ ContentType' /\ StreamType'
  <2>1. PlaceType'
    <3>1. CASE entry' = entry + 1 /\ entry + 1 < Entries /\ UNCHANGED <<pc, stage, step,
    content, outcome>>
      <4>1. entry' \in 0 .. Entries - 1
        BY <3>1, BuildAssumption DEF TypeOK
      <4> QED
        BY <3>1, <4>1, <1>a, SameShape DEF TypeOK, PlaceType
    <3>2. CASE ~(entry' = entry + 1 /\ entry + 1 < Entries /\ UNCHANGED <<pc, stage, step,
    content, outcome>>)
      <4>1. Done \/ StepFails
        BY <1>8, <3>2 DEF PushEntry
      <4>2. CASE Done
        BY <1>8, <4>2, <1>a, <1>b, PlaceStep DEF PushEntry, AtStep, StepDone, Done
      <4>3. CASE StepFails
        BY <4>3, <1>a, PlaceReturn DEF StepFails, Fail, Return
      <4> QED
        BY <4>1, <4>2, <4>3
    <3> QED
      BY <3>1, <3>2
  <2>2. BoxType'
    BY <1>8, <1>a, TypeKept, FaultsType DEF PushEntry
  <2>3. ContentType'
    BY <1>8, <1>a, <1>c, TypeKept, ContentStep DEF PushEntry, AtStep, Fail, StepFails,
           StepDone, Done
  <2>4. StreamType'
    BY <1>8, <1>a, TypeKept DEF PushEntry
  <2> QED
    BY <2>1, <2>2, <2>3, <2>4
<1>9. ASSUME PersistEnvironment PROVE PlaceType' /\ BoxType' /\ ContentType' /\ StreamType'
  <2>1. PlaceType'
    BY <1>9, <1>a, <1>b, PlaceGoto, PlaceReturn, TypeKept DEF PersistEnvironment, Labels,
           Goto, Return, Fail, StepFails
  <2>2. BoxType'
    BY <1>9, <1>a, SameShape, FaultsType DEF PersistEnvironment, TypeOK, BoxType
  <2>3. ContentType'
    BY <1>9, <1>a, SameShape, TypeKept DEF PersistEnvironment, TypeOK, ContentType,
           StepFails, Whole
  <2>4. StreamType'
    BY <1>9, <1>a, TypeKept DEF PersistEnvironment
  <2> QED
    BY <2>1, <2>2, <2>3, <2>4
<1>10. ASSUME InstallService PROVE PlaceType' /\ BoxType' /\ ContentType' /\ StreamType'
  <2>1. PlaceType'
    BY <1>10, <1>a, <1>b, PlaceGoto, PlaceReturn DEF InstallService, Labels, Goto, Return,
           Fail, StepFails
  <2>2. BoxType'
    BY <1>10, <1>a, TypeKept, FaultsType DEF InstallService
  <2>3. ContentType'
    BY <1>10, <1>a, SameShape, TypeKept DEF InstallService, TypeOK, ContentType, StepFails,
           Whole, StepsOver
  <2>4. StreamType'
    BY <1>10, <1>a, TypeKept DEF InstallService
  <2> QED
    BY <2>1, <2>2, <2>3, <2>4
<1>11. ASSUME NextStage PROVE PlaceType' /\ BoxType' /\ ContentType' /\ StreamType'
  <2>1. PlaceType'
    <3>1. CASE Goto("stop")
      BY <1>11, <3>1, <1>a, <1>b, PlaceGoto DEF NextStage, Goto, Labels
    <3>2. CASE ~Goto("stop")
      <4>1. /\ pc' = "create" /\ stage' = stage + 1 /\ step' = 1 /\ entry' = 0
            /\ stage # Len(plan.stages) /\ outcome' = outcome
        BY <1>11, <3>2 DEF NextStage, IsLast
      <4>2. stage + 1 \in StagesOf
        BY <4>1, PlanShape DEF TypeOK, StagesOf
      <4>3. Len(Steps(stage + 1)) \in Nat /\ Steps(stage)' = plan.stages[stage + 1]
        BY <4>1, <4>2, <1>a, PlanShape DEF TypeOK, Steps
      <4>4. 1 \in 1 .. Len(Steps(stage)') + 1
        BY <4>3 DEF Steps
      <4> QED
        BY <4>1, <4>2, <4>4, <1>a, <1>b, SameShape, BuildAssumption DEF PlaceType, Labels
    <3> QED
      BY <3>1, <3>2
  <2>2. BoxType'
    BY <1>11, <1>a, TypeKept, FaultsType DEF NextStage
  <2>3. ContentType'
    BY <1>11, <1>a, TypeKept DEF NextStage, StepFails
  <2>4. StreamType'
    BY <1>11, <1>a, TypeKept DEF NextStage
  <2> QED
    BY <2>1, <2>2, <2>3, <2>4
<1>12. ASSUME Probe PROVE PlaceType' /\ BoxType' /\ ContentType' /\ StreamType'
  <2>1. PlaceType'
    BY <1>12, <1>a, <1>b, PlaceGoto, PlaceReturn DEF Probe, Labels, Goto, Return, Fail,
           StepFails
  <2>2. BoxType'
    BY <1>12, <1>a, SameShape, FaultsType DEF Probe, TypeOK, BoxType
  <2>3. ContentType'
    BY <1>12, <1>a, TypeKept DEF Probe, StepFails
  <2>4. StreamType'
    BY <1>12, <1>a, BuildAssumption DEF Probe, TypeOK, StreamType, copied
  <2> QED
    BY <2>1, <2>2, <2>3, <2>4
<1>13. ASSUME Spawn PROVE PlaceType' /\ BoxType' /\ ContentType' /\ StreamType'
  <2>1. PlaceType'
    BY <1>13, <1>a, <1>b, PlaceGoto, PlaceReturn DEF Spawn, Labels, Goto, Return, Fail,
           StepFails
  <2>2. BoxType'
    BY <1>13, <1>a, TypeKept, FaultsType DEF Spawn
  <2>3. ContentType'
    BY <1>13, <1>a, TypeKept DEF Spawn, StepFails
  <2>4. StreamType'
    BY <1>13, <1>a, BuildAssumption DEF Spawn, TypeOK, StreamType, copied
  <2> QED
    BY <2>1, <2>2, <2>3, <2>4
<1>14. ASSUME StartTarget PROVE PlaceType' /\ BoxType' /\ ContentType' /\ StreamType'
  <2>1. PlaceType'
    BY <1>14, <1>a, <1>b, PlaceGoto, PlaceReturn DEF StartTarget, Labels, Goto, Return,
           Fail, StepFails
  <2>2. BoxType'
    BY <1>14, <1>a, TypeKept, FaultsType DEF StartTarget
  <2>3. ContentType'
    BY <1>14, <1>a, TypeKept DEF StartTarget, StepFails
  <2>4. StreamType'
    BY <1>14, <1>a, BuildAssumption DEF StartTarget, TypeOK, StreamType, copied
  <2> QED
    BY <2>1, <2>2, <2>3, <2>4
<1>15. ASSUME WaitTarget PROVE PlaceType' /\ BoxType' /\ ContentType' /\ StreamType'
  <2>1. PlaceType'
    BY <1>15, <1>a, <1>b, PlaceGoto, PlaceReturn DEF WaitTarget, Labels, Goto, Return,
           Fail, StepFails
  <2>2. BoxType'
    BY <1>15, <1>a, TypeKept, FaultsType DEF WaitTarget
  <2>3. ContentType'
    BY <1>15, <1>a, TypeKept DEF WaitTarget, StepFails
  <2>4. StreamType'
    BY <1>15, <1>a, BuildAssumption DEF WaitTarget, TypeOK, StreamType, copied
  <2> QED
    BY <2>1, <2>2, <2>3, <2>4
<1>16. ASSUME WaitData PROVE PlaceType' /\ BoxType' /\ ContentType' /\ StreamType'
  <2>1. PlaceType'
    BY <1>16, <1>a, <1>b, PlaceGoto, PlaceReturn DEF WaitData, Labels, Goto, Return, Fail,
           StepFails
  <2>2. BoxType'
    BY <1>16, <1>a, TypeKept, FaultsType DEF WaitData
  <2>3. ContentType'
    BY <1>16, <1>a, TypeKept DEF WaitData, StepFails
  <2>4. StreamType'
    BY <1>16, <1>a, TypeKept DEF WaitData
  <2> QED
    BY <2>1, <2>2, <2>3, <2>4
<1>17. ASSUME WaitSource PROVE PlaceType' /\ BoxType' /\ ContentType' /\ StreamType'
  <2>1. PlaceType'
    <3>1. step <= Len(Steps(stage))
      BY <1>17 DEF WaitSource, StepInv, InCopy, Joined
    <3>2. StepFails \/ \E effects : StepDone(effects)
      BY <1>17 DEF WaitSource
    <3>3. CASE StepFails
      BY <3>3, <1>a, PlaceReturn DEF StepFails, Fail, Return
    <3>4. CASE \E effects : StepDone(effects)
      BY <3>1, <3>4, <1>a, <1>b, PlaceStep DEF StepDone
    <3> QED
      BY <3>2, <3>3, <3>4
  <2>2. BoxType'
    BY <1>17, <1>a, TypeKept, FaultsType DEF WaitSource
  <2>3. ContentType'
    <3>1. step <= Len(Steps(stage))
      BY <1>17 DEF WaitSource, StepInv, InCopy, Joined
    <3>2. CASE StepFails
      BY <3>2, <1>a, TypeKept DEF StepFails
    <3>3. CASE ~StepFails
      <4>1. PICK effects \in SUBSET (content[stage] \cup {step}) : StepDone(effects)
        BY <1>17, <3>3 DEF WaitSource
      <4>2. effects \in SUBSET Whole(stage)
        BY <3>1, <1>c
      <4> QED
        BY <4>1, <4>2, <1>a, ContentStep DEF StepDone
    <3> QED
      BY <3>2, <3>3
  <2>4. StreamType'
    <3>1. CopyReset
      BY <1>17 DEF WaitSource
    <3>2. 0 \in 0 .. WireCapacity /\ 0 \in 0 .. Chunks /\ 0 + 0 + 0 <= 0
      BY BuildAssumption
    <3>3. /\ inflight' = 0 /\ arrived' = 0 /\ eaten' = 0 /\ written' = 0 /\ pipe' = {}
          /\ goroutine' = "off" /\ tar' = "off" /\ target' = "off"
          /\ asDirectory' = FALSE /\ sourceErr' = FALSE /\ targetErr' = FALSE
      BY <3>1 DEF CopyReset
    <3> QED
      BY <3>2, <3>3 DEF StreamType
  <2> QED
    BY <2>1, <2>2, <2>3, <2>4
<1>18. ASSUME StopLast PROVE PlaceType' /\ BoxType' /\ ContentType' /\ StreamType'
  <2>1. PlaceType'
    BY <1>18, <1>a, <1>b, PlaceGoto, PlaceReturn DEF StopLast, Labels, Goto, Return, Fail,
           StepFails
  <2>2. BoxType'
    BY <1>18, <1>a, SameShape, FaultsType, BuildAssumption DEF StopLast, TypeOK, BoxType,
           StopOrForce, Up, NoFault
  <2>3. ContentType'
    BY <1>18, <1>a, TypeKept DEF StopLast, StepFails
  <2>4. StreamType'
    BY <1>18, <1>a, TypeKept DEF StopLast
  <2> QED
    BY <2>1, <2>2, <2>3, <2>4
<1>19. ASSUME Publish PROVE PlaceType' /\ BoxType' /\ ContentType' /\ StreamType'
  <2>1. PlaceType'
    BY <1>19, <1>a, <1>b, PlaceGoto, PlaceReturn DEF Publish, Labels, Goto, Return, Fail,
           StepFails
  <2>2. BoxType'
    BY <1>19, <1>a, TypeKept, FaultsType DEF Publish
  <2>3. ContentType'
    BY <1>19, <1>a, TypeKept DEF Publish, StepFails
  <2>4. StreamType'
    BY <1>19, <1>a, TypeKept DEF Publish
  <2> QED
    BY <2>1, <2>2, <2>3, <2>4
<1>20. ASSUME StopStage PROVE PlaceType' /\ BoxType' /\ ContentType' /\ StreamType'
  <2>1. PlaceType'
    BY <1>20, <1>a, <1>b, PlaceGoto, PlaceReturn DEF StopStage, Labels, Goto, Return, Fail,
           StepFails
  <2>2. BoxType'
    BY <1>20, <1>a, SameShape, FaultsType, BuildAssumption DEF StopStage, TypeOK, BoxType,
           StopOrForce, Up, NoFault
  <2>3. ContentType'
    BY <1>20, <1>a, TypeKept DEF StopStage, StepFails
  <2>4. StreamType'
    BY <1>20, <1>a, TypeKept DEF StopStage
  <2> QED
    BY <2>1, <2>2, <2>3, <2>4
<1>21. ASSUME DeleteStage PROVE PlaceType' /\ BoxType' /\ ContentType' /\ StreamType'
  <2>1. PlaceType'
    <3>1. outcome' = outcome /\ step' = step /\ entry' = entry
      BY <1>21 DEF DeleteStage
    <3>2. CASE stage = 1
      BY <1>21, <3>1, <3>2, <1>a, <1>b, PlaceGoto DEF DeleteStage, Labels
    <3>3. CASE stage # 1
      <4>1. pc' = "stopStage" /\ stage' = stage - 1
        BY <1>21, <3>3 DEF DeleteStage
      <4>2. step = 1
        BY <1>21 DEF DeleteStage, StepInv, TakingDown
      <4>3. stage - 1 \in StagesOf
        BY <3>3, PlanShape DEF TypeOK, StagesOf
      <4>4. Len(Steps(stage - 1)) \in Nat /\ Steps(stage)' = plan.stages[stage - 1]
        BY <4>1, <4>3, <1>a, PlanShape DEF TypeOK, Steps
      <4>5. 1 \in 1 .. Len(Steps(stage)') + 1
        BY <4>4 DEF Steps
      <4> QED
        BY <3>1, <4>1, <4>2, <4>3, <4>5, <1>a, <1>b, SameShape DEF TypeOK, PlaceType, Labels
    <3> QED
      BY <3>2, <3>3
  <2>2. BoxType'
    BY <1>21, <1>a, SameShape, FaultsType DEF DeleteStage, TypeOK, BoxType
  <2>3. ContentType'
    BY <1>21, <1>a, TypeKept DEF DeleteStage, StepFails
  <2>4. StreamType'
    BY <1>21, <1>a, TypeKept DEF DeleteStage
  <2> QED
    BY <2>1, <2>2, <2>3, <2>4
<1>22. ASSUME GoStart PROVE PlaceType' /\ BoxType' /\ ContentType' /\ StreamType'
  <2>1. PlaceType'
    BY <1>22, <1>a, TypeKept DEF GoStart, buildVars
  <2>2. BoxType'
    BY <1>22, <1>a, TypeKept, FaultsType DEF GoStart, buildVars
  <2>3. ContentType'
    BY <1>22, <1>a, TypeKept DEF GoStart, buildVars
  <2>4. StreamType'
    BY <1>22, <1>a, BuildAssumption DEF GoStart, TypeOK, StreamType, copied
  <2> QED
    BY <2>1, <2>2, <2>3, <2>4
<1>23. ASSUME GoWait PROVE PlaceType' /\ BoxType' /\ ContentType' /\ StreamType'
  <2>1. PlaceType'
    BY <1>23, <1>a, TypeKept DEF GoWait, buildVars
  <2>2. BoxType'
    BY <1>23, <1>a, TypeKept, FaultsType DEF GoWait, buildVars
  <2>3. ContentType'
    BY <1>23, <1>a, TypeKept DEF GoWait, buildVars
  <2>4. StreamType'
    BY <1>23, <1>a, BuildAssumption DEF GoWait, TypeOK, StreamType, copied
  <2> QED
    BY <2>1, <2>2, <2>3, <2>4
<1>24. ASSUME GoClose PROVE PlaceType' /\ BoxType' /\ ContentType' /\ StreamType'
  <2>1. PlaceType'
    BY <1>24, <1>a, TypeKept DEF GoClose, buildVars
  <2>2. BoxType'
    BY <1>24, <1>a, TypeKept, FaultsType DEF GoClose, buildVars
  <2>3. ContentType'
    BY <1>24, <1>a, TypeKept DEF GoClose, buildVars
  <2>4. StreamType'
    BY <1>24, <1>a, BuildAssumption DEF GoClose, TypeOK, StreamType, copied
  <2> QED
    BY <2>1, <2>2, <2>3, <2>4
<1>25. ASSUME Transfer PROVE PlaceType' /\ BoxType' /\ ContentType' /\ StreamType'
  <2>1. PlaceType'
    BY <1>25, <1>a, TypeKept DEF Transfer, buildVars
  <2>2. BoxType'
    BY <1>25, <1>a, TypeKept, FaultsType DEF Transfer, buildVars
  <2>3. ContentType'
    BY <1>25, <1>a, TypeKept DEF Transfer, buildVars
  <2>4. StreamType'
    BY <1>25, <1>a, BuildAssumption DEF Transfer, TypeOK, StreamType, copied
  <2> QED
    BY <2>1, <2>2, <2>3, <2>4
<1>26. ASSUME SourceTar PROVE PlaceType' /\ BoxType' /\ ContentType' /\ StreamType'
  <2>1. PlaceType'
    BY <1>26, <1>a, TypeKept DEF SourceTar, buildVars
  <2>2. BoxType'
    BY <1>26, <1>a, TypeKept, FaultsType DEF SourceTar, buildVars
  <2>3. ContentType'
    BY <1>26, <1>a, TypeKept DEF SourceTar, buildVars
  <2>4. StreamType'
    BY <1>26, <1>a, BuildAssumption DEF SourceTar, TypeOK, StreamType, copied
  <2> QED
    BY <2>1, <2>2, <2>3, <2>4
<1>27. ASSUME TargetScript PROVE PlaceType' /\ BoxType' /\ ContentType' /\ StreamType'
  <2>1. PlaceType'
    BY <1>27, <1>a, TypeKept DEF TargetScript, buildVars
  <2>2. BoxType'
    BY <1>27, <1>a, TypeKept, FaultsType DEF TargetScript, buildVars
  <2>3. ContentType'
    BY <1>27, <1>a, TypeKept DEF TargetScript, buildVars
  <2>4. StreamType'
    BY <1>27, <1>a, BuildAssumption DEF TargetScript, TypeOK, StreamType, copied
  <2> QED
    BY <2>1, <2>2, <2>3, <2>4
<1>28. ASSUME Killed PROVE PlaceType' /\ BoxType' /\ ContentType' /\ StreamType'
  <2>1. PlaceType'
    BY <1>28, <1>a, SameShape DEF Killed, TypeOK, PlaceType, Labels
  <2>2. BoxType'
    BY <1>28, <1>a, TypeKept, FaultsType DEF Killed
  <2>3. ContentType'
    BY <1>28, <1>a, TypeKept DEF Killed, StepFails
  <2>4. StreamType'
    BY <1>28, <1>a, TypeKept DEF Killed
  <2> QED
    BY <2>1, <2>2, <2>3, <2>4
<1>29. ASSUME NEW s \in StagesOf, StageDies(s) PROVE PlaceType' /\ BoxType'
/\ ContentType' /\ StreamType'
  <2>1. PlaceType'
    BY <1>29, <1>a, TypeKept DEF StageDies
  <2>2. BoxType'
    BY <1>29, <1>a, SameShape, FaultsType DEF StageDies, TypeOK, BoxType
  <2>3. ContentType'
    BY <1>29, <1>a, TypeKept DEF StageDies, StepFails
  <2>4. StreamType'
    BY <1>29, <1>a, BuildAssumption DEF StageDies, TypeOK, StreamType
  <2> QED
    BY <2>1, <2>2, <2>3, <2>4
<1>30. CASE UNCHANGED vars
  BY <1>30, <1>a, TypeKept DEF vars, buildVars, TypeOK
<1> QED
  BY <1>1, <1>2, <1>3, <1>4, <1>5, <1>6, <1>7, <1>8, <1>9, <1>10, <1>11, <1>12, <1>13,
         <1>14, <1>15, <1>16, <1>17, <1>18, <1>19, <1>20, <1>21, <1>22, <1>23, <1>24,
         <1>25, <1>26, <1>27, <1>28, <1>29, <1>30
     DEF Next, Build, StageStep, StepStep, CopyStep, EndStep, Goroutine, Copying,
         InSource, InTarget

\* Every step keeps the place.
LEMMA StepKept == TypeOK /\ StepInv /\ [Next]_vars => StepInv'
<1> SUFFICES ASSUME TypeOK /\ StepInv, [Next]_vars PROVE StepInv'
  OBVIOUS
<1>a. plan' = plan
  BY PlanFixed
<1>b. Len(plan.stages) \in Nat \ {0}
  BY PlanShape DEF TypeOK
<1> USE <1>a, <1>b DEF StepInv, InCopy, Joined, TakingDown, Now, Steps, IsLast, Goto,
      Return, Fail, StepFails, StepDone, Done, AtStep, copyVars, buildVars
<1>1. ASSUME Validate PROVE StepInv'
  BY <1>1 DEF Validate
<1>2. ASSUME Create PROVE StepInv'
  BY <1>2 DEF Create
<1>3. ASSUME Start PROVE StepInv'
  BY <1>3 DEF Start
<1>4. ASSUME Prepare PROVE StepInv'
  BY <1>4 DEF Prepare
<1>5. ASSUME RunCommand PROVE StepInv'
  BY <1>5 DEF RunCommand
<1>6. ASSUME NoteEnvironment PROVE StepInv'
  BY <1>6 DEF NoteEnvironment
<1>7. ASSUME Capture PROVE StepInv'
  BY <1>7 DEF Capture
<1>8. ASSUME PushEntry PROVE StepInv'
  BY <1>8 DEF PushEntry
<1>9. ASSUME PersistEnvironment PROVE StepInv'
  BY <1>9 DEF PersistEnvironment
<1>10. ASSUME InstallService PROVE StepInv'
  BY <1>10 DEF InstallService
<1>11. ASSUME NextStage PROVE StepInv'
  BY <1>11 DEF NextStage
<1>12. ASSUME Probe PROVE StepInv'
  BY <1>12 DEF Probe
<1>13. ASSUME Spawn PROVE StepInv'
  BY <1>13 DEF Spawn
<1>14. ASSUME StartTarget PROVE StepInv'
  BY <1>14 DEF StartTarget
<1>15. ASSUME WaitTarget PROVE StepInv'
  BY <1>15 DEF WaitTarget
<1>16. ASSUME WaitData PROVE StepInv'
  BY <1>16 DEF WaitData
<1>17. ASSUME WaitSource PROVE StepInv'
  BY <1>17 DEF WaitSource
<1>18. ASSUME StopLast PROVE StepInv'
  BY <1>18 DEF StopLast
<1>19. ASSUME Publish PROVE StepInv'
  BY <1>19 DEF Publish
<1>20. ASSUME StopStage PROVE StepInv'
  BY <1>20 DEF StopStage
<1>21. ASSUME DeleteStage PROVE StepInv'
  BY <1>21 DEF DeleteStage
<1>22. ASSUME GoStart PROVE StepInv'
  BY <1>22 DEF GoStart
<1>23. ASSUME GoWait PROVE StepInv'
  BY <1>23 DEF GoWait
<1>24. ASSUME GoClose PROVE StepInv'
  BY <1>24 DEF GoClose
<1>25. ASSUME Transfer PROVE StepInv'
  BY <1>25 DEF Transfer
<1>26. ASSUME SourceTar PROVE StepInv'
  BY <1>26 DEF SourceTar
<1>27. ASSUME TargetScript PROVE StepInv'
  BY <1>27 DEF TargetScript
<1>28. ASSUME Killed PROVE StepInv'
  BY <1>28 DEF Killed
<1>29. ASSUME NEW s \in StagesOf, StageDies(s) PROVE StepInv'
  BY <1>29 DEF StageDies
<1>30. CASE UNCHANGED vars
  BY <1>30 DEF vars
<1> QED
  BY <1>1, <1>2, <1>3, <1>4, <1>5, <1>6, <1>7, <1>8, <1>9, <1>10, <1>11, <1>12, <1>13,
         <1>14, <1>15, <1>16, <1>17, <1>18, <1>19, <1>20, <1>21, <1>22, <1>23, <1>24,
         <1>25, <1>26, <1>27, <1>28, <1>29, <1>30
     DEF Next, Build, StageStep, StepStep, CopyStep, EndStep, Goroutine, Copying,
         InSource, InTarget

\* Every step keeps the containers accounted for; the deferred function takes
\* them down from the last to the first.
LEMMA LeftKept ==
  TypeOK /\ StepInv /\ LeftInv /\ NoContainerLeft /\ [Next]_vars
    => (LeftInv /\ NoContainerLeft)'
<1> SUFFICES ASSUME TypeOK, StepInv, LeftInv, NoContainerLeft, [Next]_vars
             PROVE (LeftInv /\ NoContainerLeft)'
  OBVIOUS
<1>a. plan' = plan
  BY PlanFixed
<1>b. Len(plan.stages) \in Nat \ {0}
  BY PlanShape DEF TypeOK
<1> USE <1>a, <1>b DEF TypeOK, LeftInv, NoContainerLeft, StepInv, StagesOf, TakingDown,
      Goto, Return, Fail, StepFails, StepDone, Done, AtStep, StopOrForce, Up, Labels,
      copyVars, buildVars
<1>c. ASSUME UNCHANGED <<named, box, refused>>, pc' \notin {"validate", "start", "ended"},
             pc' \in TakingDown => stage' = Len(plan.stages)
      PROVE  (LeftInv /\ NoContainerLeft)'
  BY <1>c
<1>1. ASSUME Validate PROVE (LeftInv /\ NoContainerLeft)'
  BY <1>1 DEF Validate
<1>2. ASSUME Create PROVE (LeftInv /\ NoContainerLeft)'
  BY <1>2 DEF Create
<1>3. ASSUME Start PROVE (LeftInv /\ NoContainerLeft)'
  <2>1. StagesOf' = StagesOf /\ stage \in named /\ named' = named
  /\ pc' \in {"prepare", "stopStage"}
    BY <1>3 DEF Start
  <2>2. \A s \in StagesOf : box'[s] # "none" => box[s] # "none" \/ s = stage
    BY <1>3 DEF Start
  <2>3. \A s \in StagesOf : box'[s] # "none" => s \in named'
    BY <2>1, <2>2
  <2>4. pc' = "stopStage" => stage' = Len(plan.stages)
    BY <1>3 DEF Start
  <2>5. pc' \in TakingDown =>
          \A s \in StagesOf : s > stage' /\ box'[s] # "none" => s \in refused'
    BY <2>1, <2>4
  <2> HIDE DEF TypeOK, NoContainerLeft, StepInv
  <2>6. LeftInv'
    BY <2>1, <2>3, <2>5
  <2>7. NoContainerLeft'
    BY <2>1 DEF NoContainerLeft
  <2> QED
    BY <2>6, <2>7
<1>4. ASSUME Prepare PROVE (LeftInv /\ NoContainerLeft)'
  BY <1>4 DEF Prepare
<1>5. ASSUME RunCommand PROVE (LeftInv /\ NoContainerLeft)'
  <2> HIDE DEF TypeOK, LeftInv, NoContainerLeft, StepInv
  <2>1. /\ UNCHANGED <<named, box, refused>>
        /\ pc' \notin {"validate", "start", "ended"}
        /\ pc' \in TakingDown => stage' = Len(plan.stages)
    BY <1>5 DEF RunCommand
  <2> QED
    BY <2>1, <1>c
<1>6. ASSUME NoteEnvironment PROVE (LeftInv /\ NoContainerLeft)'
  <2> HIDE DEF TypeOK, LeftInv, NoContainerLeft, StepInv
  <2>1. /\ UNCHANGED <<named, box, refused>>
        /\ pc' \notin {"validate", "start", "ended"}
        /\ pc' \in TakingDown => stage' = Len(plan.stages)
    BY <1>6 DEF NoteEnvironment
  <2> QED
    BY <2>1, <1>c
<1>7. ASSUME Capture PROVE (LeftInv /\ NoContainerLeft)'
  <2> HIDE DEF TypeOK, LeftInv, NoContainerLeft, StepInv
  <2>1. /\ UNCHANGED <<named, box, refused>>
        /\ pc' \notin {"validate", "start", "ended"}
        /\ pc' \in TakingDown => stage' = Len(plan.stages)
    BY <1>7 DEF Capture
  <2> QED
    BY <2>1, <1>c
<1>8. ASSUME PushEntry PROVE (LeftInv /\ NoContainerLeft)'
  <2> HIDE DEF TypeOK, LeftInv, NoContainerLeft, StepInv
  <2>1. /\ UNCHANGED <<named, box, refused>>
        /\ pc' \notin {"validate", "start", "ended"}
        /\ pc' \in TakingDown => stage' = Len(plan.stages)
    BY <1>8 DEF PushEntry
  <2> QED
    BY <2>1, <1>c
<1>9. ASSUME PersistEnvironment PROVE (LeftInv /\ NoContainerLeft)'
  <2> HIDE DEF TypeOK, LeftInv, NoContainerLeft, StepInv
  <2>1. /\ UNCHANGED <<named, box, refused>>
        /\ pc' \notin {"validate", "start", "ended"}
        /\ pc' \in TakingDown => stage' = Len(plan.stages)
    BY <1>9 DEF PersistEnvironment
  <2> QED
    BY <2>1, <1>c
<1>10. ASSUME InstallService PROVE (LeftInv /\ NoContainerLeft)'
  <2> HIDE DEF TypeOK, LeftInv, NoContainerLeft, StepInv
  <2>1. /\ UNCHANGED <<named, box, refused>>
        /\ pc' \notin {"validate", "start", "ended"}
        /\ pc' \in TakingDown => stage' = Len(plan.stages)
    BY <1>10 DEF InstallService, StepsOver
  <2> QED
    BY <2>1, <1>c
<1>11. ASSUME NextStage PROVE (LeftInv /\ NoContainerLeft)'
  BY <1>11 DEF NextStage
<1>12. ASSUME Probe PROVE (LeftInv /\ NoContainerLeft)'
  BY <1>12 DEF Probe
<1>13. ASSUME Spawn PROVE (LeftInv /\ NoContainerLeft)'
  BY <1>13 DEF Spawn
<1>14. ASSUME StartTarget PROVE (LeftInv /\ NoContainerLeft)'
  BY <1>14 DEF StartTarget
<1>15. ASSUME WaitTarget PROVE (LeftInv /\ NoContainerLeft)'
  BY <1>15 DEF WaitTarget
<1>16. ASSUME WaitData PROVE (LeftInv /\ NoContainerLeft)'
  BY <1>16 DEF WaitData
<1>17. ASSUME WaitSource PROVE (LeftInv /\ NoContainerLeft)'
  <2> HIDE DEF TypeOK, LeftInv, NoContainerLeft, StepInv
  <2>1. /\ UNCHANGED <<named, box, refused>>
        /\ pc' \notin {"validate", "start", "ended"}
        /\ pc' \in TakingDown => stage' = Len(plan.stages)
    BY <1>17 DEF WaitSource, CopyReset
  <2> QED
    BY <2>1, <1>c
<1>18. ASSUME StopLast PROVE (LeftInv /\ NoContainerLeft)'
  BY <1>18 DEF StopLast
<1>19. ASSUME Publish PROVE (LeftInv /\ NoContainerLeft)'
  BY <1>19 DEF Publish
<1>20. ASSUME StopStage PROVE (LeftInv /\ NoContainerLeft)'
  BY <1>20 DEF StopStage
<1>21. ASSUME DeleteStage PROVE (LeftInv /\ NoContainerLeft)'
  <2>1. /\ pc' \in {"ended", "stopStage"}
        /\ pc' = "ended" => stage = 1
        /\ pc' = "stopStage" => stage' = stage - 1
        /\ named' = named /\ refused \subseteq refused' /\ pc = "deleteStage"
    BY <1>21 DEF DeleteStage
  <2>2. \A s \in StagesOf : box'[s] # "none" => box[s] # "none"
  /\ (s = stage => s \in refused')
    BY <1>21 DEF DeleteStage
  <2>3. \A s \in StagesOf : s >= stage /\ box'[s] # "none" => s \in refused'
    BY <2>1, <2>2
  <2>4. LeftInv'
    <3>1. StagesOf' = StagesOf /\ stage \in StagesOf
      OBVIOUS
    <3>2. \A s \in StagesOf : box'[s] # "none" => s \in named'
      BY <2>1, <2>2
    <3> HIDE DEF TypeOK, NoContainerLeft, StepInv
    <3>a. \A s \in StagesOf : s > stage - 1 => s >= stage
      BY <3>1
    <3>3. pc' \in TakingDown =>
            \A s \in StagesOf : s > stage' /\ box'[s] # "none" => s \in refused'
      <4> HIDE DEF LeftInv
      <4> QED
        BY <2>1, <2>3, <3>a
    <3>4. pc' \notin {"validate", "start"}
      BY <2>1
    <3> QED
      BY <3>1, <3>2, <3>3, <3>4
  <2>5. NoContainerLeft'
    BY <2>1, <2>3
  <2> QED
    BY <2>4, <2>5
<1>22. ASSUME GoStart PROVE (LeftInv /\ NoContainerLeft)'
  BY <1>22 DEF GoStart
<1>23. ASSUME GoWait PROVE (LeftInv /\ NoContainerLeft)'
  BY <1>23 DEF GoWait
<1>24. ASSUME GoClose PROVE (LeftInv /\ NoContainerLeft)'
  BY <1>24 DEF GoClose
<1>25. ASSUME Transfer PROVE (LeftInv /\ NoContainerLeft)'
  BY <1>25 DEF Transfer
<1>26. ASSUME SourceTar PROVE (LeftInv /\ NoContainerLeft)'
  BY <1>26 DEF SourceTar
<1>27. ASSUME TargetScript PROVE (LeftInv /\ NoContainerLeft)'
  BY <1>27 DEF TargetScript
<1>28. ASSUME Killed PROVE (LeftInv /\ NoContainerLeft)'
  BY <1>28 DEF Killed
<1>29. ASSUME NEW s \in StagesOf, StageDies(s) PROVE (LeftInv /\ NoContainerLeft)'
  BY <1>29 DEF StageDies
<1>30. CASE UNCHANGED vars
  BY <1>30 DEF vars
<1> QED
  BY <1>1, <1>2, <1>3, <1>4, <1>5, <1>6, <1>7, <1>8, <1>9, <1>10, <1>11, <1>12, <1>13,
         <1>14, <1>15, <1>16, <1>17, <1>18, <1>19, <1>20, <1>21, <1>22, <1>23, <1>24,
         <1>25, <1>26, <1>27, <1>28, <1>29, <1>30
     DEF Next, Build, StageStep, StepStep, CopyStep, EndStep, Goroutine, Copying,
         InSource, InTarget

\* Every step of every party of a copy keeps the count of its chunks.
LEMMA StreamKept == TypeOK /\ StreamInv /\ CallInv /\ [Next]_vars => (StreamInv /\ CallInv)'
<1> SUFFICES ASSUME TypeOK, StreamInv, CallInv, [Next]_vars
             PROVE (StreamInv /\ CallInv)'
  OBVIOUS
<1>a. plan' = plan
  BY PlanFixed
<1>b. Len(plan.stages) \in Nat \ {0}
  BY PlanShape DEF TypeOK
<1> USE <1>a, <1>b, BuildAssumption DEF TypeOK, StreamInv, CallInv, NotStarted, Joined,
      Goto, Return, Fail, StepFails, StepDone, Done, AtStep, Alive, copyVars, buildVars,
      copied
<1>1. ASSUME Validate PROVE (StreamInv /\ CallInv)'
  BY <1>1 DEF Validate
<1>2. ASSUME Create PROVE (StreamInv /\ CallInv)'
  BY <1>2 DEF Create
<1>3. ASSUME Start PROVE (StreamInv /\ CallInv)'
  BY <1>3 DEF Start
<1>4. ASSUME Prepare PROVE (StreamInv /\ CallInv)'
  BY <1>4 DEF Prepare
<1>5. ASSUME RunCommand PROVE (StreamInv /\ CallInv)'
  BY <1>5 DEF RunCommand
<1>6. ASSUME NoteEnvironment PROVE (StreamInv /\ CallInv)'
  BY <1>6 DEF NoteEnvironment
<1>7. ASSUME Capture PROVE (StreamInv /\ CallInv)'
  BY <1>7 DEF Capture
<1>8. ASSUME PushEntry PROVE (StreamInv /\ CallInv)'
  BY <1>8 DEF PushEntry
<1>9. ASSUME PersistEnvironment PROVE (StreamInv /\ CallInv)'
  BY <1>9 DEF PersistEnvironment
<1>10. ASSUME InstallService PROVE (StreamInv /\ CallInv)'
  BY <1>10 DEF InstallService, StepsOver
<1>11. ASSUME NextStage PROVE (StreamInv /\ CallInv)'
  BY <1>11 DEF NextStage, StepsOver
<1>12. ASSUME Probe PROVE (StreamInv /\ CallInv)'
  BY <1>12 DEF Probe
<1>13. ASSUME Spawn PROVE (StreamInv /\ CallInv)'
  BY <1>13 DEF Spawn
<1>14. ASSUME StartTarget PROVE (StreamInv /\ CallInv)'
  BY <1>14 DEF StartTarget
<1>15. ASSUME WaitTarget PROVE (StreamInv /\ CallInv)'
  BY <1>15 DEF WaitTarget
<1>16. ASSUME WaitData PROVE (StreamInv /\ CallInv)'
  BY <1>16 DEF WaitData
<1>17. ASSUME WaitSource PROVE (StreamInv /\ CallInv)'
  <2>1. /\ CopyReset /\ pc' \notin Joined
    BY <1>17 DEF WaitSource
  <2>2. NotStarted' /\ goroutine' = "off" /\ 0 + 0 + 0 = 0
    BY <2>1 DEF CopyReset
  <2> QED
    BY <2>1, <2>2
<1>18. ASSUME StopLast PROVE (StreamInv /\ CallInv)'
  BY <1>18 DEF StopLast
<1>19. ASSUME Publish PROVE (StreamInv /\ CallInv)'
  BY <1>19 DEF Publish
<1>20. ASSUME StopStage PROVE (StreamInv /\ CallInv)'
  BY <1>20 DEF StopStage
<1>21. ASSUME DeleteStage PROVE (StreamInv /\ CallInv)'
  BY <1>21 DEF DeleteStage
<1>22. ASSUME GoStart PROVE (StreamInv /\ CallInv)'
  BY <1>22 DEF GoStart
<1>23. ASSUME GoWait PROVE (StreamInv /\ CallInv)'
  BY <1>23 DEF GoWait
<1>24. ASSUME GoClose PROVE (StreamInv /\ CallInv)'
  <2>1. CASE inflight = 0
    BY <1>24, <2>1 DEF GoClose, OutputDrained
  <2>2. CASE "reader" \in pipe
    BY <1>24, <2>2 DEF GoClose, OutputDrained
  <2> QED
    BY <1>24, <2>1, <2>2 DEF GoClose, OutputDrained
<1>25. ASSUME Transfer PROVE (StreamInv /\ CallInv)'
  BY <1>25 DEF Transfer
<1>26. ASSUME SourceTar PROVE (StreamInv /\ CallInv)'
  BY <1>26 DEF SourceTar
<1>27. ASSUME TargetScript PROVE (StreamInv /\ CallInv)'
  <2>1. target \in {"preparing", "reading"} /\ UNCHANGED buildVars
        /\ UNCHANGED <<goroutine, sourceErr, tar, written, inflight, pipe, targetErr>>
    BY <1>27 DEF TargetScript
  <2>2. CASE target' \in {"reading", "failed"} /\ UNCHANGED <<arrived, eaten>>
    BY <2>1, <2>2
  <2>3. CASE arrived' = arrived - 1 /\ eaten' = eaten + 1 /\ target' = target
    BY <2>1, <2>3
  <2>4. CASE target' = "ok" /\ arrived = 0 /\ pipe # {} /\ UNCHANGED <<arrived, eaten>>
    <3>1. ~targetErr => "writer" \in pipe
      BY <2>1, <2>4
    <3>2. ~targetErr => goroutine = "done" /\ (inflight = 0 \/ sourceErr)
      BY <2>1, <2>4, <3>1
    <3>3. ~targetErr => goroutine = "done" /\ (~sourceErr => eaten = Chunks)
      BY <2>1, <2>4, <3>1, <3>2
    <3> QED
      BY <2>1, <2>4, <3>3
  <2> QED
    BY <1>27, <2>2, <2>3, <2>4 DEF TargetScript
<1>28. ASSUME Killed PROVE (StreamInv /\ CallInv)'
  BY <1>28 DEF Killed
<1>29. ASSUME NEW s \in StagesOf, StageDies(s) PROVE (StreamInv /\ CallInv)'
  BY <1>29 DEF StageDies
<1>30. CASE UNCHANGED vars
  BY <1>30 DEF vars
<1> QED
  BY <1>1, <1>2, <1>3, <1>4, <1>5, <1>6, <1>7, <1>8, <1>9, <1>10, <1>11, <1>12, <1>13,
         <1>14, <1>15, <1>16, <1>17, <1>18, <1>19, <1>20, <1>21, <1>22, <1>23, <1>24,
         <1>25, <1>26, <1>27, <1>28, <1>29, <1>30
     DEF Next, Build, StageStep, StepStep, CopyStep, EndStep, Goroutine, Copying,
         InSource, InTarget

\* Validation establishes the order of the copies, and nothing changes it.
LEMMA PriorKept == TypeOK /\ PriorInv /\ [Next]_vars => PriorInv'
<1> SUFFICES ASSUME TypeOK /\ PriorInv, [Next]_vars PROVE PriorInv'
  OBVIOUS
<1>a. plan' = plan
  BY PlanFixed
<1>b. Len(plan.stages) \in Nat \ {0}
  BY PlanShape DEF TypeOK
<1> USE <1>a DEF PriorInv, StagesOf, Steps, PriorStage, StepsOver, Goto, Return, Fail,
      StepFails, StepDone, Done, AtStep, copyVars, buildVars
<1>1. ASSUME Validate PROVE PriorInv'
  BY <1>1 DEF Validate
<1>2. ASSUME Create PROVE PriorInv'
  BY <1>2 DEF Create
<1>3. ASSUME Start PROVE PriorInv'
  BY <1>3 DEF Start
<1>4. ASSUME Prepare PROVE PriorInv'
  BY <1>4 DEF Prepare
<1>5. ASSUME RunCommand PROVE PriorInv'
  BY <1>5 DEF RunCommand
<1>6. ASSUME NoteEnvironment PROVE PriorInv'
  BY <1>6 DEF NoteEnvironment
<1>7. ASSUME Capture PROVE PriorInv'
  BY <1>7 DEF Capture
<1>8. ASSUME PushEntry PROVE PriorInv'
  BY <1>8 DEF PushEntry
<1>9. ASSUME PersistEnvironment PROVE PriorInv'
  BY <1>9 DEF PersistEnvironment
<1>10. ASSUME InstallService PROVE PriorInv'
  BY <1>10 DEF InstallService
<1>11. ASSUME NextStage PROVE PriorInv'
  BY <1>11 DEF NextStage
<1>12. ASSUME Probe PROVE PriorInv'
  BY <1>12 DEF Probe
<1>13. ASSUME Spawn PROVE PriorInv'
  BY <1>13 DEF Spawn
<1>14. ASSUME StartTarget PROVE PriorInv'
  BY <1>14 DEF StartTarget
<1>15. ASSUME WaitTarget PROVE PriorInv'
  BY <1>15 DEF WaitTarget
<1>16. ASSUME WaitData PROVE PriorInv'
  BY <1>16 DEF WaitData
<1>17. ASSUME WaitSource PROVE PriorInv'
  BY <1>17 DEF WaitSource
<1>18. ASSUME StopLast PROVE PriorInv'
  BY <1>18 DEF StopLast
<1>19. ASSUME Publish PROVE PriorInv'
  BY <1>19 DEF Publish
<1>20. ASSUME StopStage PROVE PriorInv'
  BY <1>20 DEF StopStage
<1>21. ASSUME DeleteStage PROVE PriorInv'
  BY <1>21 DEF DeleteStage
<1>22. ASSUME GoStart PROVE PriorInv'
  BY <1>22 DEF GoStart
<1>23. ASSUME GoWait PROVE PriorInv'
  BY <1>23 DEF GoWait
<1>24. ASSUME GoClose PROVE PriorInv'
  BY <1>24 DEF GoClose
<1>25. ASSUME Transfer PROVE PriorInv'
  BY <1>25 DEF Transfer
<1>26. ASSUME SourceTar PROVE PriorInv'
  BY <1>26 DEF SourceTar
<1>27. ASSUME TargetScript PROVE PriorInv'
  BY <1>27 DEF TargetScript
<1>28. ASSUME Killed PROVE PriorInv'
  BY <1>28 DEF Killed
<1>29. ASSUME NEW s \in StagesOf, StageDies(s) PROVE PriorInv'
  BY <1>29 DEF StageDies
<1>30. CASE UNCHANGED vars
  BY <1>30 DEF vars
<1> QED
  BY <1>1, <1>2, <1>3, <1>4, <1>5, <1>6, <1>7, <1>8, <1>9, <1>10, <1>11, <1>12, <1>13,
         <1>14, <1>15, <1>16, <1>17, <1>18, <1>19, <1>20, <1>21, <1>22, <1>23, <1>24,
         <1>25, <1>26, <1>27, <1>28, <1>29, <1>30
     DEF Next, Build, StageStep, StepStep, CopyStep, EndStep, Goroutine, Copying,
         InSource, InTarget

\* A container that was down at the probe does not come up again.
LEMMA ProbeKept == TypeOK /\ CallInv /\ ProbeInv /\ [Next]_vars => ProbeInv'
<1> SUFFICES ASSUME TypeOK /\ CallInv /\ ProbeInv, [Next]_vars PROVE ProbeInv'
  OBVIOUS
<1>a. plan' = plan
  BY PlanFixed
<1>b. Len(plan.stages) \in Nat \ {0}
  BY PlanShape DEF TypeOK
<1> USE <1>a DEF TypeOK, ProbeInv, CallInv, NotStarted, Joined, InCopy, Up, Now, Steps,
      Goto, Return, Fail, StepFails, StepDone, Done, AtStep, StepsOver, copyVars,
      buildVars, copied
<1>1. ASSUME Validate PROVE ProbeInv'
  BY <1>1 DEF Validate
<1>2. ASSUME Create PROVE ProbeInv'
  BY <1>2 DEF Create
<1>3. ASSUME Start PROVE ProbeInv'
  BY <1>3 DEF Start
<1>4. ASSUME Prepare PROVE ProbeInv'
  BY <1>4 DEF Prepare
<1>5. ASSUME RunCommand PROVE ProbeInv'
  BY <1>5 DEF RunCommand
<1>6. ASSUME NoteEnvironment PROVE ProbeInv'
  BY <1>6 DEF NoteEnvironment
<1>7. ASSUME Capture PROVE ProbeInv'
  BY <1>7 DEF Capture
<1>8. ASSUME PushEntry PROVE ProbeInv'
  BY <1>8 DEF PushEntry
<1>9. ASSUME PersistEnvironment PROVE ProbeInv'
  BY <1>9 DEF PersistEnvironment
<1>10. ASSUME InstallService PROVE ProbeInv'
  BY <1>10 DEF InstallService
<1>11. ASSUME NextStage PROVE ProbeInv'
  BY <1>11 DEF NextStage
<1>12. ASSUME Probe PROVE ProbeInv'
  BY <1>12 DEF Probe
<1>13. ASSUME Spawn PROVE ProbeInv'
  BY <1>13 DEF Spawn
<1>14. ASSUME StartTarget PROVE ProbeInv'
  BY <1>14 DEF StartTarget
<1>15. ASSUME WaitTarget PROVE ProbeInv'
  BY <1>15 DEF WaitTarget
<1>16. ASSUME WaitData PROVE ProbeInv'
  BY <1>16 DEF WaitData
<1>17. ASSUME WaitSource PROVE ProbeInv'
  BY <1>17 DEF WaitSource
<1>18. ASSUME StopLast PROVE ProbeInv'
  BY <1>18 DEF StopLast
<1>19. ASSUME Publish PROVE ProbeInv'
  BY <1>19 DEF Publish
<1>20. ASSUME StopStage PROVE ProbeInv'
  BY <1>20 DEF StopStage
<1>21. ASSUME DeleteStage PROVE ProbeInv'
  BY <1>21 DEF DeleteStage
<1>22. ASSUME GoStart PROVE ProbeInv'
  BY <1>22 DEF GoStart
<1>23. ASSUME GoWait PROVE ProbeInv'
  BY <1>23 DEF GoWait
<1>24. ASSUME GoClose PROVE ProbeInv'
  BY <1>24 DEF GoClose
<1>25. ASSUME Transfer PROVE ProbeInv'
  BY <1>25 DEF Transfer
<1>26. ASSUME SourceTar PROVE ProbeInv'
  BY <1>26 DEF SourceTar
<1>27. ASSUME TargetScript PROVE ProbeInv'
  BY <1>27 DEF TargetScript
<1>28. ASSUME Killed PROVE ProbeInv'
  BY <1>28 DEF Killed
<1>29. ASSUME NEW s \in StagesOf, StageDies(s) PROVE ProbeInv'
  BY <1>29 DEF StageDies
<1>30. CASE UNCHANGED vars
  BY <1>30 DEF vars
<1> QED
  BY <1>1, <1>2, <1>3, <1>4, <1>5, <1>6, <1>7, <1>8, <1>9, <1>10, <1>11, <1>12, <1>13,
         <1>14, <1>15, <1>16, <1>17, <1>18, <1>19, <1>20, <1>21, <1>22, <1>23, <1>24,
         <1>25, <1>26, <1>27, <1>28, <1>29, <1>30
     DEF Next, Build, StageStep, StepStep, CopyStep, EndStep, Goroutine, Copying,
         InSource, InTarget

\* Every step keeps the effects; the end of a copy is where the stream, the
\* source stage and the probe come together.
LEMMA EffectKept ==
  TypeOK /\ StepInv /\ StreamInv /\ CallInv /\ PriorInv /\ EffectInv /\ ProbeInv
    /\ [Next]_vars => EffectInv'
<1> SUFFICES ASSUME TypeOK, StepInv, StreamInv, CallInv, PriorInv, EffectInv, ProbeInv,
                    [Next]_vars
             PROVE EffectInv'
  OBVIOUS
<1>a. plan' = plan
  BY PlanFixed
<1>b. /\ StagesOf' = StagesOf /\ \A s \in StagesOf : Whole(s)' = Whole(s)
      /\ StagesOf = 1 .. Len(plan.stages) /\ Len(plan.stages) \in Nat \ {0}
      /\ stage \in StagesOf /\ DOMAIN content = StagesOf
      /\ \A s \in StagesOf : content[s] \subseteq Whole(s)
      /\ step \in 1 .. Len(Steps(stage)) + 1 /\ Len(Steps(stage)) \in Nat
  BY <1>a, SameShape, PlanShape DEF TypeOK, StagesOf
<1>c. ASSUME StepsOver, misread = {}
      PROVE  {Base} \cup DOMAIN Steps(stage)
               \cup (IF HasEnv(stage) THEN {EnvFiles(stage)} ELSE {}) \subseteq content[stage]
  <2>1. {Base} \cup 1 .. step - 1 \subseteq content[stage]
    BY <1>c DEF StepsOver, EffectInv, InStage
  <2>2. DOMAIN Steps(stage) = 1 .. step - 1
    BY <1>c, <1>b, PlanShape DEF TypeOK, StepsOver
  <2> QED
    BY <1>c, <2>1, <2>2 DEF StepsOver
<1>d. ASSUME StepsOver, misread = {}, IsLast(stage) => ~plan.runtime
      PROVE  content[stage] = Whole(stage)
  <2>1. Whole(stage) = {Base} \cup DOMAIN Steps(stage)
               \cup (IF HasEnv(stage) THEN {EnvFiles(stage)} ELSE {})
    BY <1>d DEF Whole
  <2> QED
    BY <1>b, <1>c, <1>d, <2>1
<1>e. ASSUME StepsOver, misread = {}, IsLast(stage), plan.runtime
      PROVE  content[stage] \cup {Service(stage)} = Whole(stage)
  <2>1. Whole(stage) = {Base} \cup DOMAIN Steps(stage)
               \cup (IF HasEnv(stage) THEN {EnvFiles(stage)} ELSE {}) \cup {Service(stage)}
    BY <1>e DEF Whole
  <2> QED
    BY <1>b, <1>c, <1>e, <2>1
<1> USE <1>a, <1>b DEF EffectInv, StepInv, InStage, InCopy, Joined, IsLast, Goto, Return,
      Fail, StepFails, StepDone, Done, AtStep, StepsOver, copyVars, buildVars, copied
<1>1. ASSUME Validate PROVE EffectInv'
  BY <1>1 DEF Validate
<1>2. ASSUME Create PROVE EffectInv'
  BY <1>2 DEF Create
<1>3. ASSUME Start PROVE EffectInv'
  BY <1>3 DEF Start
<1>4. ASSUME Prepare PROVE EffectInv'
  BY <1>4 DEF Prepare
<1>5. ASSUME RunCommand PROVE EffectInv'
  BY <1>5 DEF RunCommand
<1>6. ASSUME NoteEnvironment PROVE EffectInv'
  BY <1>6 DEF NoteEnvironment
<1>7. ASSUME Capture PROVE EffectInv'
  BY <1>7 DEF Capture
<1>8. ASSUME PushEntry PROVE EffectInv'
  BY <1>8 DEF PushEntry
<1>9. ASSUME PersistEnvironment PROVE EffectInv'
  BY <1>9 DEF PersistEnvironment
<1>10. ASSUME InstallService PROVE EffectInv'
  <2>1. misread' = misread /\ StepsOver /\ IsLast(stage) /\ plan.runtime
    BY <1>10 DEF InstallService
  <2>2. \/ StepFails
        \/ /\ content' = [content EXCEPT ![stage] = content[stage] \cup {Service(stage)}]
           /\ pc' = "stop" /\ stage' = stage
    BY <1>10 DEF InstallService
  <2>3. CASE StepFails
    BY <2>1, <2>3
  <2>4. CASE /\ content' = [content EXCEPT ![stage] = content[stage] \cup {Service(stage)}]
             /\ pc' = "stop" /\ stage' = stage
    <3>1. misread = {} => content[stage] \cup {Service(stage)} = Whole(stage)
      BY <2>1, <1>e
    <3>2. misread = {} => content'[stage] = Whole(stage)
      BY <2>4, <3>1, <1>b
    <3> QED
      BY <2>1, <2>4, <3>2
  <2> QED
    BY <2>2, <2>3, <2>4
<1>11. ASSUME NextStage PROVE EffectInv'
  <2>1. misread' = misread /\ StepsOver /\ content' = content
    BY <1>11 DEF NextStage
  <2>2. misread = {} => content[stage] = Whole(stage)
    BY <1>11, <2>1, <1>d DEF NextStage
  <2>3. misread = {} => \A s \in StagesOf : s < stage => content[s] = Whole(s)
    BY <2>1
  <2>4. \/ pc' = "stop" /\ stage' = stage
        \/ pc' = "create" /\ stage' = stage + 1
    BY <1>11 DEF NextStage
  <2>5. \A s \in StagesOf : s < stage + 1 => s < stage \/ s = stage
    BY <1>b
  <2> QED
    BY <2>1, <2>2, <2>3, <2>4, <2>5
<1>12. ASSUME Probe PROVE EffectInv'
  BY <1>12 DEF Probe
<1>13. ASSUME Spawn PROVE EffectInv'
  BY <1>13 DEF Spawn
<1>14. ASSUME StartTarget PROVE EffectInv'
  BY <1>14 DEF StartTarget
<1>15. ASSUME WaitTarget PROVE EffectInv'
  BY <1>15 DEF WaitTarget
<1>16. ASSUME WaitData PROVE EffectInv'
  BY <1>16 DEF WaitData
<1>17. ASSUME WaitSource PROVE EffectInv'
  <2>1. /\ misread' = misread /\ pc = "waitSource" /\ goroutine = "done"
        /\ step <= Len(Steps(stage)) /\ Now.kind = "copy"
    BY <1>17 DEF WaitSource
  <2>2. CASE StepFails
    BY <2>1, <2>2
  <2>3. CASE ~StepFails /\ misread = {}
    <3>1. ~sourceErr /\ ~targetErr /\ target # "failed"
      BY <1>17, <2>3 DEF WaitSource
    <3>2. target = "ok" /\ eaten = Chunks
      BY <2>1, <3>1 DEF CallInv, StreamInv
    <3>3. Source \in StagesOf /\ Source < stage
      <4>1. Source \in Nat \ {0}
        BY <2>1, PlanShape DEF TypeOK, Source, Now
      <4>2. step \in DOMAIN Steps(stage)
        BY <2>1, <1>b, PlanShape DEF TypeOK
      <4>3. Source < stage
        BY <2>1, <4>2, <1>b DEF PriorInv, Source, Now
      <4> QED
        BY <4>1, <4>3, <1>b
    <3>4. content[Source] = Whole(Source)
      BY <2>1, <2>3, <3>3
    <3>5. ~(Now.directory /\ ~asDirectory)
      BY <2>1, <2>3, <3>1 DEF ProbeInv
    <3>6. StepDone(content[stage] \cup {step})
      <4>1. \E lost \in {{}} :
              StepDone((content[stage] \ lost)
                       \cup (IF eaten = Chunks /\ content[Source] = Whole(Source)
                             THEN {step} ELSE {}))
        BY <1>17, <3>1, <3>5 DEF WaitSource
      <4> QED
        BY <4>1, <3>2, <3>4
    <3>7. content'[stage] = content[stage] \cup {step} /\ step' - 1 = step
          /\ pc' = "step" /\ stage' = stage
          /\ \A s \in StagesOf : s # stage => content'[s] = content[s]
      BY <3>6, <1>b
    <3>8. {Base} \cup 1 .. step - 1 \subseteq content[stage]
      BY <2>1, <2>3
    <3>9. \A i \in 1 .. step : i \in 1 .. step - 1 \/ i = step
      BY <1>b
    <3> QED
      BY <2>1, <2>3, <3>7, <3>8, <3>9
  <2> QED
    BY <2>1, <2>2, <2>3
<1>18. ASSUME StopLast PROVE EffectInv'
  BY <1>18 DEF StopLast
<1>19. ASSUME Publish PROVE EffectInv'
  BY <1>19 DEF Publish
<1>20. ASSUME StopStage PROVE EffectInv'
  BY <1>20 DEF StopStage
<1>21. ASSUME DeleteStage PROVE EffectInv'
  BY <1>21 DEF DeleteStage
<1>22. ASSUME GoStart PROVE EffectInv'
  BY <1>22 DEF GoStart
<1>23. ASSUME GoWait PROVE EffectInv'
  BY <1>23 DEF GoWait
<1>24. ASSUME GoClose PROVE EffectInv'
  BY <1>24 DEF GoClose
<1>25. ASSUME Transfer PROVE EffectInv'
  BY <1>25 DEF Transfer
<1>26. ASSUME SourceTar PROVE EffectInv'
  BY <1>26 DEF SourceTar
<1>27. ASSUME TargetScript PROVE EffectInv'
  BY <1>27 DEF TargetScript
<1>28. ASSUME Killed PROVE EffectInv'
  BY <1>28 DEF Killed
<1>29. ASSUME NEW s \in StagesOf, StageDies(s) PROVE EffectInv'
  BY <1>29 DEF StageDies
<1>30. CASE UNCHANGED vars
  BY <1>30 DEF vars
<1> QED
  BY <1>1, <1>2, <1>3, <1>4, <1>5, <1>6, <1>7, <1>8, <1>9, <1>10, <1>11, <1>12, <1>13,
         <1>14, <1>15, <1>16, <1>17, <1>18, <1>19, <1>20, <1>21, <1>22, <1>23, <1>24,
         <1>25, <1>26, <1>27, <1>28, <1>29, <1>30
     DEF Next, Build, StageStep, StepStep, CopyStep, EndStep, Goroutine, Copying,
         InSource, InTarget

\* Publishing takes what the stop left, which is whole.
LEMMA PublishedKept ==
  TypeOK /\ StepInv /\ EffectInv /\ PublishedComplete /\ [Next]_vars => PublishedComplete'
<1> SUFFICES ASSUME TypeOK, StepInv, EffectInv, PublishedComplete, [Next]_vars
             PROVE  PublishedComplete'
  OBVIOUS
<1>a. plan' = plan
  BY PlanFixed
<1>b. /\ Len(plan.stages) \in StagesOf
      /\ Whole(Len(plan.stages))' = Whole(Len(plan.stages))
  <2>1. Len(plan.stages) \in StagesOf
    BY PlanShape DEF TypeOK, StagesOf
  <2>2. Len(plan.stages)' = Len(plan.stages)
    BY <1>a
  <2>3. HasEnv(Len(plan.stages))' = HasEnv(Len(plan.stages))
    BY <1>a DEF HasEnv, Steps
  <2>4. Whole(Len(plan.stages))' = Whole(Len(plan.stages))
    BY <1>a, <2>3 DEF Whole, EnvFiles, Service, IsLast, Steps
  <2> QED
    BY <2>1, <2>4
<1>c. misread' = {} => misread = {}
  BY DEF Next, Build, StageStep, StepStep, CopyStep, EndStep, Goroutine, Copying,
         InSource, InTarget, Validate, Create, Start, Prepare, RunCommand, NoteEnvironment,
         Capture, PushEntry, PersistEnvironment, InstallService, NextStage, Probe, Spawn,
         StartTarget, WaitTarget, WaitData, WaitSource, StopLast, Publish, StopStage,
         DeleteStage, GoStart, GoWait, GoClose, Transfer, SourceTar, TargetScript, Killed,
         StageDies, vars, buildVars
<1>1. CASE Publish
  <2>1. pc = "publish" /\ (published' = content[stage] \/ published' = published)
    BY <1>1 DEF Publish
  <2>2. misread = {} => content[stage] = Whole(Len(plan.stages))
    <3>1. stage \in StagesOf /\ stage = Len(plan.stages)
      BY <2>1 DEF TypeOK, StepInv, IsLast
    <3> QED
      BY <2>1, <3>1 DEF EffectInv
  <2> QED
    BY <1>b, <1>c, <2>1, <2>2 DEF PublishedComplete
<1>2. CASE published' = published
  BY <1>2, <1>b, <1>c DEF PublishedComplete
<1>3. Publish \/ published' = published
  BY DEF Next, Build, StageStep, StepStep, CopyStep, EndStep, Goroutine, Copying,
         InSource, InTarget, Validate, Create, Start, Prepare, RunCommand, NoteEnvironment,
         Capture, PushEntry, PersistEnvironment, InstallService, NextStage, Probe, Spawn,
         StartTarget, WaitTarget, WaitData, WaitSource, StopLast, StopStage, DeleteStage,
         GoStart, GoWait, GoClose, Transfer, SourceTar, TargetScript, Killed, StageDies,
         vars, buildVars
<1> QED
  BY <1>1, <1>2, <1>3

\* They hold when the build starts.
LEMMA InitInv ==
  Init => /\ TypeOK /\ StepInv /\ LeftInv /\ NoContainerLeft
          /\ StreamInv /\ CallInv /\ PriorInv /\ ProbeInv /\ EffectInv
          /\ PublishedComplete
<1> SUFFICES ASSUME Init
             PROVE  /\ TypeOK /\ StepInv /\ LeftInv /\ NoContainerLeft
                    /\ StreamInv /\ CallInv /\ PriorInv /\ ProbeInv /\ EffectInv
                    /\ PublishedComplete
  OBVIOUS
<1>1. /\ plan \in Plans /\ 1 \in StagesOf /\ Len(Steps(1)) \in Nat
      /\ StagesOf = 1 .. Len(plan.stages)
  BY PlanShape DEF Init, StagesOf
<1>2. TypeOK
  <2>1. stage \in StagesOf /\ step \in 1 .. Len(Steps(stage)) + 1
  /\ entry \in 0 .. Entries - 1
    BY <1>1, BuildAssumption DEF Init
  <2>2. /\ box \in [StagesOf -> {"none", "stopped", "running"}]
        /\ DOMAIN content = StagesOf /\ \A s \in StagesOf : content[s] \subseteq Whole(s)
    BY DEF Init
  <2>3. StreamType
    <3>1. /\ written = 0 /\ inflight = 0 /\ arrived = 0 /\ eaten = 0 /\ pipe = {}
          /\ asDirectory = FALSE /\ sourceErr = FALSE /\ targetErr = FALSE
          /\ goroutine = "off" /\ tar = "off" /\ target = "off"
      BY DEF Init
    <3>2. 0 \in 0 .. WireCapacity /\ 0 \in 0 .. Chunks /\ 0 + 0 + 0 <= 0
      BY BuildAssumption
    <3> QED
      BY <3>1, <3>2 DEF StreamType
  <2>4. BoxType /\ ContentType
    BY <2>2, BuildAssumption DEF Init, BoxType, ContentType, Nothing
  <2>5. PlaceType
    BY <2>1 DEF Init, PlaceType, Labels
  <2> QED
    BY <1>1, <2>3, <2>4, <2>5 DEF TypeOK, StreamType, BoxType, ContentType, PlaceType
<1>3. StepInv /\ LeftInv /\ NoContainerLeft
  BY <1>1 DEF Init, StepInv, LeftInv, NoContainerLeft, InCopy, Joined, TakingDown
<1>4. StreamInv /\ CallInv
  BY <1>1, BuildAssumption DEF Init, StreamInv, CallInv, NotStarted, Joined
<1>5. PriorInv /\ ProbeInv /\ EffectInv /\ PublishedComplete
  BY DEF Init, PriorInv, ProbeInv, EffectInv, PublishedComplete, Nothing, InStage, InCopy,
         Joined
<1> QED
  BY <1>2, <1>3, <1>4, <1>5

\* All of them together are inductive.
LEMMA Invariants ==
  Spec => [](/\ TypeOK /\ StepInv /\ LeftInv /\ NoContainerLeft
             /\ StreamInv /\ CallInv /\ PriorInv /\ ProbeInv /\ EffectInv
             /\ PublishedComplete)
<1> DEFINE I == /\ TypeOK /\ StepInv /\ LeftInv /\ NoContainerLeft
                /\ StreamInv /\ CallInv /\ PriorInv /\ ProbeInv /\ EffectInv
                /\ PublishedComplete
<1>1. Init => I
  BY InitInv
<1>2. I /\ [Next]_vars => I'
  BY TypeStep, StepKept, LeftKept, StreamKept, PriorKept, ProbeKept, EffectKept,
         PublishedKept
<1> QED
  BY <1>1, <1>2, PTL DEF Spec

\* Every variable keeps its type, for any build files and any length of the stream.
THEOREM TypeCorrect == Spec => []TypeOK
  BY Invariants, PTL

\* cmd_build.go 353: whatever fails, a build that ends by itself leaves no container
\* behind but those Incus refused to delete.
THEOREM ContainersGo == Spec => []NoContainerLeft
  BY Invariants, PTL

\* cmd_build.go 349: whichever command, connection or container fails, and in which
\* order the parties of a copy end, only a complete image is published.
THEOREM OnlyWhole == Spec => []PublishedComplete
  BY Invariants, PTL
=============================================================================
