----------------------------- MODULE ImageBuild -----------------------------
(***************************************************************************)
(* One `bocker image build`: the stages of an Incusfile run one after the  *)
(* other, each in a container of its own that stays up so that later       *)
(* stages can copy from it; the container of the last stage is stopped and *)
(* published, and a deferred function takes all of them down, whatever     *)
(* happened.                                                               *)
(*                                                                         *)
(* COPY --from is the concurrent part.  CopyBetweenContainers starts `tar  *)
(* c` in the source container from a goroutine and a script around `tar x` *)
(* in the target container, joined by an io.Pipe, and has to bring four    *)
(* parties to an end in every order in which they may fail: the two        *)
(* commands, the goroutine and the call itself.                            *)
(*                                                                         *)
(* What Incus keeps of the image is in ImageStore; here publishing either  *)
(* succeeds or fails.                                                      *)
(***************************************************************************)
EXTENDS Naturals, Sequences, FiniteSets

CONSTANTS
  Plans,         \* build files: [stages: sequences of steps, runtime: BOOLEAN]
  Entries,       \* files of a directory copied from the build context
  Chunks,        \* chunks in the tar stream of an artifact
  WireCapacity,  \* chunks a connection to a container holds
  MaxFaults      \* bound: requests that fail, containers that die

\* The kinds of steps but the copy from a stage.
Kinds == {"run", "env", "capture", "context"}

\* A step of a stage; a copy names the stage it is from by its place.
Instruction ==
  [kind : Kinds] \cup [kind : {"copy"}, from : Nat \ {0}, directory : BOOLEAN]

ASSUME PlansAssumption ==
  \A p \in Plans : /\ p.stages \in Seq(Seq(Instruction)) /\ p.stages # <<>>
                    /\ p.runtime \in BOOLEAN

ASSUME BuildAssumption ==
  /\ Entries \in Nat \ {0}
  /\ Chunks \in Nat \ {0}
  /\ WireCapacity \in Nat \ {0}
  /\ MaxFaults \in Nat

VARIABLES
  plan,       \* the parsed build file
  pc,         \* where buildImage stands
  stage,      \* si + 1, and the loop variable of the deferred function
  step,       \* i + 1
  entry,      \* entries of a context directory pushed so far
  named,      \* stages with a name in stageContainers
  box,        \* the container of each stage
  content,    \* what is right in the file system of each stage's container
  outcome,    \* how the build ended
  published,  \* what the published image holds, or Nothing
  misread,    \* answers the build took for something they were not
  refused,    \* stages whose container could not be deleted
  asDirectory,  \* dstIsDir of the copy
  goroutine,  \* the goroutine that runs tar in the source container
  sourceErr,  \* the error it will report
  tar,        \* tar in the source container
  written,    \* chunks it has written
  inflight,   \* of those, the ones the goroutine's copier has not passed on
  pipe,       \* which ends of the io.Pipe are closed
  target,     \* the script in the target container
  arrived,    \* chunks on their way to it
  eaten,      \* chunks it has unpacked
  targetErr,  \* starting it or waiting for it failed
  faults      \* faults so far

buildVars == <<plan, pc, stage, step, entry, named, box, content, outcome,
               published, misread, refused>>
copyVars == <<asDirectory, goroutine, sourceErr, tar, written, inflight, pipe,
              target, arrived, eaten, targetErr>>
vars == <<buildVars, copyVars, faults>>

Nothing == {}

StagesOf == 1 .. Len(plan.stages)
Steps(s) == plan.stages[s]
Now == Steps(stage)[step]
IsLast(s) == s = Len(plan.stages)
HasEnv(s) == \E i \in DOMAIN Steps(s) : Steps(s)[i].kind = "env"

\* What a stage's file system consists of: the base image, the effect of each
\* step, the files of applyEnvs and the service of installRuntimeService.
Base == 0
EnvFiles(s) == Len(Steps(s)) + 1
Service(s) == Len(Steps(s)) + 2

Whole(s) ==
  {Base} \cup DOMAIN Steps(s)
         \cup (IF HasEnv(s) THEN {EnvFiles(s)} ELSE {})
         \cup (IF IsLast(s) /\ plan.runtime THEN {Service(s)} ELSE {})

Fault == faults < MaxFaults /\ faults' = faults + 1
NoFault == UNCHANGED faults

Up(s) == box[s] = "running"
-----------------------------------------------------------------------------
Init ==
  /\ plan \in Plans
  /\ pc = "validate" /\ stage = 1 /\ step = 1 /\ entry = 0
  /\ named = {} /\ refused = {} /\ misread = {}
  /\ box = [s \in StagesOf |-> "none"]
  /\ content = [s \in StagesOf |-> {}]
  /\ outcome = "none" /\ published = Nothing
  /\ asDirectory = FALSE
  /\ goroutine = "off" /\ sourceErr = FALSE
  /\ tar = "off" /\ written = 0 /\ inflight = 0
  /\ pipe = {} /\ target = "off" /\ arrived = 0 /\ eaten = 0
  /\ targetErr = FALSE
  /\ faults = 0

Goto(label) == pc' = label /\ UNCHANGED <<stage, step, entry>>

\* A return from buildImage: the deferred function goes through the stages
\* from the last to the first.
Return(result) ==
  /\ pc' = "stopStage"
  /\ stage' = Len(plan.stages)
  /\ outcome' = result
  /\ step' = 1 /\ entry' = 0

Fail == Return("failed")

\* resolvePriorStage: an earlier stage, or an error.
PriorStage(current, reference) == reference < current

\* validateYAMLStageReferences, before anything is created.
Validate ==
  /\ pc = "validate"
  /\ IF \A s \in StagesOf : \A i \in DOMAIN Steps(s) :
          Steps(s)[i].kind = "copy" => PriorStage(s, Steps(s)[i].from)
       THEN Goto("create") /\ UNCHANGED outcome
       ELSE pc' = "ended" /\ outcome' = "failed" /\ UNCHANGED <<stage, step, entry>>
  /\ NoFault
  /\ UNCHANGED <<plan, named, box, content, published, misread, refused, copyVars>>
-----------------------------------------------------------------------------
(* A stage's container.                                                    *)

\* Mutant: the name is noted once the container exists.
MutCreate ==
  /\ pc = "create"
  /\ \/ /\ box' = [box EXCEPT ![stage] = "stopped"]
        /\ content' = [content EXCEPT ![stage] = {Base}]
        /\ Goto("start") /\ NoFault /\ UNCHANGED <<outcome, named>>
     \/ Fault /\ Fail /\ UNCHANGED <<box, content, named>>
  /\ UNCHANGED <<plan, published, misread, refused, copyVars>>

\* LaunchWithNetworkAndFingerprint, first half.  The name is noted before the
\* container exists.
Create ==
  /\ pc = "create"
  /\ named' = named \cup {stage}
  /\ \/ /\ box' = [box EXCEPT ![stage] = "stopped"]
        /\ content' = [content EXCEPT ![stage] = {Base}]
        /\ Goto("start") /\ NoFault /\ UNCHANGED outcome
     \/ Fault /\ Fail /\ UNCHANGED <<box, content>>
  /\ UNCHANGED <<plan, published, misread, refused, copyVars>>

\* Its second half; a container that does not start stays behind, stopped.
Start ==
  /\ pc = "start"
  /\ \/ /\ box' = [box EXCEPT ![stage] = "running"]
        /\ Goto("prepare") /\ NoFault /\ UNCHANGED outcome
     \/ Fault /\ Fail /\ UNCHANGED box
  /\ UNCHANGED <<plan, named, content, published, misread, refused, copyVars>>

\* The base image's fingerprint, an address, the package mirror.
Prepare ==
  /\ pc = "prepare"
  /\ \/ Up(stage) /\ Goto("step") /\ NoFault /\ UNCHANGED outcome
     \/ ~Up(stage) /\ Fail /\ NoFault
     \/ Fault /\ Fail
  /\ UNCHANGED <<plan, named, box, content, published, misread, refused, copyVars>>
-----------------------------------------------------------------------------
(* Its steps.                                                              *)

AtStep(kind) ==
  /\ pc = "step"
  /\ step <= Len(Steps(stage))
  /\ Now.kind = kind

\* The effects that are right once this step has succeeded.
StepDone(effects) ==
  /\ content' = [content EXCEPT ![stage] = effects]
  /\ step' = step + 1
  /\ entry' = 0
  /\ pc' = "step"
  /\ UNCHANGED <<stage, outcome>>

Done == StepDone(content[stage] \cup {step})

StepFails == Fail /\ UNCHANGED content

\* WORKDIR, MISE, EXEC, PKG, DOWNLOAD, WRITE, SERVICE and SHELL: a request to
\* the container, whose error ends the build.
RunCommand ==
  /\ AtStep("run")
  /\ \/ Up(stage) /\ Done /\ NoFault
     \/ ~Up(stage) /\ StepFails /\ NoFault
     \/ Fault /\ StepFails
  /\ UNCHANGED <<plan, named, box, published, misread, refused, copyVars>>

\* ENV is only noted here; PersistEnvironment writes it.
NoteEnvironment ==
  /\ AtStep("env")
  /\ Done
  /\ NoFault
  /\ UNCHANGED <<plan, named, box, published, misread, refused, copyVars>>

\* EXEC with capture.  The command's end does not wait for the rest of its
\* output: the value may be short.  An empty one is an error.
Capture ==
  /\ AtStep("capture")
  /\ \/ Up(stage) /\ Done /\ NoFault /\ UNCHANGED misread
     \/ /\ Up(stage)
        /\ StepDone(content[stage])
        /\ misread' = misread \cup {"capture"}
        /\ NoFault
     \/ StepFails /\ NoFault /\ UNCHANGED misread
  /\ UNCHANGED <<plan, named, box, published, refused, copyVars>>

\* COPY from the build context: one entry of the directory after the other.
PushEntry ==
  /\ AtStep("context")
  /\ \/ /\ Up(stage) /\ entry + 1 = Entries
        /\ Done /\ NoFault
     \/ /\ Up(stage) /\ entry + 1 < Entries
        /\ entry' = entry + 1
        /\ NoFault
        /\ UNCHANGED <<pc, stage, step, content, outcome>>
     \/ ~Up(stage) /\ StepFails /\ NoFault
     \/ Fault /\ StepFails
  /\ UNCHANGED <<plan, named, box, published, misread, refused, copyVars>>

\* applyEnvs; an /etc/environment that cannot be read counts as empty, and is
\* overwritten.
PersistEnvironment ==
  /\ pc = "step" /\ step = Len(Steps(stage)) + 1
  /\ HasEnv(stage)
  /\ EnvFiles(stage) \notin content[stage]
  /\ \/ /\ Up(stage) /\ NoFault
        /\ content' = [content EXCEPT ![stage] = @ \cup {EnvFiles(stage)}]
        /\ UNCHANGED <<pc, stage, step, entry, outcome, misread>>
     \/ /\ Up(stage) /\ Fault
        /\ content' = [content EXCEPT ![stage] = (@ \ {Base}) \cup {EnvFiles(stage)}]
        /\ misread' = misread \cup {"environment"}
        /\ UNCHANGED <<pc, stage, step, entry, outcome>>
     \/ ~Up(stage) /\ StepFails /\ NoFault /\ UNCHANGED misread
     \/ Fault /\ StepFails /\ UNCHANGED misread
  /\ UNCHANGED <<plan, named, box, published, refused, copyVars>>

\* The step loop is over and the variables are written.
StepsOver ==
  /\ pc = "step" /\ step = Len(Steps(stage)) + 1
  /\ HasEnv(stage) => EnvFiles(stage) \in content[stage]

\* installRuntimeService, in the last stage.
InstallService ==
  /\ StepsOver /\ IsLast(stage) /\ plan.runtime
  /\ \/ /\ Up(stage) /\ NoFault
        /\ content' = [content EXCEPT ![stage] = @ \cup {Service(stage)}]
        /\ Goto("stop") /\ UNCHANGED outcome
     \/ ~Up(stage) /\ StepFails /\ NoFault
     \/ Fault /\ StepFails
  /\ UNCHANGED <<plan, named, box, published, misread, refused, copyVars>>

NextStage ==
  /\ StepsOver
  /\ \/ IsLast(stage) /\ ~plan.runtime /\ Goto("stop")
     \/ /\ ~IsLast(stage)
        /\ pc' = "create" /\ stage' = stage + 1 /\ step' = 1 /\ entry' = 0
  /\ NoFault
  /\ UNCHANGED <<plan, named, box, content, outcome, published, misread, refused,
                 copyVars>>
-----------------------------------------------------------------------------
(* Publishing, and the deferred function.                                  *)

\* Stop, and StopForce when that fails; both are refused if it is not running.
StopOrForce(s) ==
  \/ box' = [box EXCEPT ![s] = IF Up(s) THEN "stopped" ELSE @] /\ NoFault
  \/ Up(s) /\ faults + 2 <= MaxFaults /\ faults' = faults + 2 /\ UNCHANGED box

StopLast ==
  /\ pc = "stop"
  /\ StopOrForce(stage)
  /\ Goto("publish")
  /\ UNCHANGED <<plan, named, content, outcome, published, misread, refused, copyVars>>

\* PublishImage: Incus does not export a running container.
Publish ==
  /\ pc = "publish"
  /\ \/ /\ box[stage] = "stopped" /\ NoFault
        /\ published' = content[stage]
        /\ Return("ok")
     \/ Up(stage) /\ Fail /\ NoFault /\ UNCHANGED published
     \/ Fault /\ Fail /\ UNCHANGED published
  /\ UNCHANGED <<plan, named, box, content, misread, refused, copyVars>>

StopStage ==
  /\ pc = "stopStage"
  /\ IF stage \in named THEN StopOrForce(stage) ELSE NoFault /\ UNCHANGED box
  /\ Goto("deleteStage")
  /\ UNCHANGED <<plan, named, content, outcome, published, misread, refused, copyVars>>

\* A refusal is printed, and the next stage is taken down all the same.
DeleteStage ==
  /\ pc = "deleteStage"
  /\ IF stage \in named
       THEN \/ /\ box[stage] = "stopped" /\ NoFault
               /\ box' = [box EXCEPT ![stage] = "none"]
               /\ UNCHANGED refused
            \/ /\ Up(stage) /\ NoFault
               /\ refused' = refused \cup {stage} /\ UNCHANGED box
            \/ /\ box[stage] = "none" /\ NoFault /\ UNCHANGED <<box, refused>>
            \/ Fault /\ refused' = refused \cup {stage} /\ UNCHANGED box
       ELSE NoFault /\ UNCHANGED <<box, refused>>
  /\ IF stage = 1 THEN pc' = "ended" /\ UNCHANGED stage
                  ELSE pc' = "stopStage" /\ stage' = stage - 1
  /\ UNCHANGED <<plan, step, entry, named, content, outcome, published, misread,
                 copyVars>>

\* SIGKILL, which runs no deferred function: the daemon sends it to a build
\* whose client is gone.
Killed ==
  /\ pc # "ended"
  /\ Fault
  /\ pc' = "ended" /\ outcome' = "killed"
  /\ UNCHANGED <<plan, stage, step, entry, named, box, content, published, misread,
                 refused, copyVars>>
-----------------------------------------------------------------------------
(* CopyBetweenContainers: the call.                                        *)

Source == Now.from

EndsOpen == pipe = {}

copied == <<tar, written, inflight, target, arrived, eaten>>

\* `test -d` on a destination that does not end in a slash; any error means
\* that it is no directory.
Probe ==
  /\ AtStep("copy")
  /\ pc' = "spawn"
  /\ \/ asDirectory' = (Now.directory /\ Up(stage)) /\ NoFault /\ UNCHANGED misread
     \/ /\ Fault
        /\ asDirectory' = FALSE
        /\ misread' = IF Now.directory THEN misread \cup {"probe"} ELSE misread
  /\ UNCHANGED <<plan, stage, step, entry, named, box, content, outcome, published,
                 refused, goroutine, sourceErr, pipe, targetErr, copied>>

\* The pipe is made and the goroutine started.
Spawn ==
  /\ pc = "spawn"
  /\ goroutine' = "starting"
  /\ Goto("startTarget")
  /\ NoFault
  /\ UNCHANGED <<plan, named, box, content, outcome, published, misread, refused,
                 asDirectory, sourceErr, pipe, targetErr, copied>>

\* ExecInstance in the target container; if that fails the reading end is
\* closed and the goroutine waited for.
StartTarget ==
  /\ pc = "startTarget"
  /\ \/ /\ Up(stage) /\ NoFault
        /\ target' = "preparing"
        /\ Goto("waitTarget") /\ UNCHANGED <<pipe, targetErr>>
     \/ /\ ~Up(stage) /\ NoFault
        /\ pipe' = pipe \cup {"reader"} /\ targetErr' = TRUE
        /\ Goto("waitSource") /\ UNCHANGED target
     \/ /\ Fault
        /\ pipe' = pipe \cup {"reader"} /\ targetErr' = TRUE
        /\ Goto("waitSource") /\ UNCHANGED target
  /\ UNCHANGED <<plan, named, box, content, outcome, published, misread, refused,
                 asDirectory, goroutine, sourceErr, tar, written, inflight,
                 arrived, eaten>>

\* Mutant: the reading end stays open.
MutWaitTarget ==
  /\ pc = "waitTarget"
  /\ \/ target \in {"ok", "failed"} /\ NoFault /\ UNCHANGED targetErr
     \/ target \notin {"ok", "failed"} /\ Fault /\ targetErr' = TRUE
  /\ Goto("waitData")
  /\ UNCHANGED <<plan, named, box, content, outcome, published, misread, refused,
                 asDirectory, goroutine, sourceErr, pipe, copied>>

\* The target's script has ended, or waiting for it failed.  Either way the
\* reading end is closed: a source that still writes must not wait for ever.
WaitTarget ==
  /\ pc = "waitTarget"
  /\ \/ target \in {"ok", "failed"} /\ NoFault /\ UNCHANGED targetErr
     \/ target \notin {"ok", "failed"} /\ Fault /\ targetErr' = TRUE
  /\ pipe' = pipe \cup {"reader"}
  /\ Goto("waitData")
  /\ UNCHANGED <<plan, named, box, content, outcome, published, misread, refused,
                 asDirectory, goroutine, sourceErr, copied>>

\* <-dstDataDone
WaitData ==
  /\ pc = "waitData"
  /\ target \in {"ok", "failed"}
  /\ Goto("waitSource")
  /\ NoFault
  /\ UNCHANGED <<plan, named, box, content, outcome, published, misread, refused,
                 copyVars>>

CopyReset ==
  /\ asDirectory' = FALSE
  /\ goroutine' = "off" /\ sourceErr' = FALSE
  /\ tar' = "off" /\ written' = 0 /\ inflight' = 0
  /\ pipe' = {} /\ target' = "off" /\ arrived' = 0 /\ eaten' = 0
  /\ targetErr' = FALSE

\* <-sourceDone and the verdict: the source's error, the target's, or success.
\* The artifact is right if all of it came and the stage it is from was whole; a
\* directory taken for a file has been replaced by it.
WaitSource ==
  /\ pc = "waitSource"
  /\ goroutine = "done"
  /\ NoFault
  /\ CopyReset
  /\ IF sourceErr \/ targetErr \/ target = "failed" THEN StepFails
     ELSE \E lost \in IF Now.directory /\ ~asDirectory
                        THEN SUBSET content[stage] ELSE {{}} :
            StepDone((content[stage] \ lost)
                       \cup (IF eaten = Chunks /\ content[Source] = Whole(Source)
                             THEN {step} ELSE {}))
  /\ UNCHANGED <<plan, named, box, published, misread, refused>>
-----------------------------------------------------------------------------
(* CopyBetweenContainers: the other parties.                               *)

\* The goroutine starts tar in the source container ...
GoStart ==
  /\ goroutine = "starting"
  /\ \/ /\ Up(Source) /\ NoFault
        /\ tar' = "running" /\ goroutine' = "waiting" /\ UNCHANGED <<sourceErr, pipe>>
     \/ /\ ~Up(Source) /\ NoFault
        /\ sourceErr' = TRUE /\ pipe' = pipe \cup {"writer"}
        /\ goroutine' = "done" /\ UNCHANGED tar
     \/ /\ Fault
        /\ sourceErr' = TRUE /\ pipe' = pipe \cup {"writer"}
        /\ goroutine' = "done" /\ UNCHANGED tar
  /\ UNCHANGED <<buildVars, asDirectory, written, inflight, target, arrived, eaten,
                 targetErr>>

\* ... waits for its exit code ...
GoWait ==
  /\ goroutine = "waiting"
  /\ \/ tar \in {"ok", "failed"} /\ sourceErr' = (tar = "failed") /\ NoFault
     \/ tar = "running" /\ Fault /\ sourceErr' = TRUE
  /\ goroutine' = "draining"
  /\ UNCHANGED <<buildVars, asDirectory, pipe, targetErr, copied>>

\* ... for the rest of its output to go through the pipe ...
OutputDrained == tar \in {"ok", "failed"} /\ (inflight = 0 \/ "reader" \in pipe)

\* Mutant: the rest of the output is not waited for.
MutGoClose ==
  /\ goroutine = "draining"
  /\ pipe' = pipe \cup {"writer"}
  /\ goroutine' = "done"
  /\ NoFault
  /\ UNCHANGED <<buildVars, asDirectory, sourceErr, targetErr, copied>>

\* ... and closes the writing end, with the error if there was one.
GoClose ==
  /\ goroutine = "draining"
  /\ OutputDrained
  /\ pipe' = pipe \cup {"writer"}
  /\ goroutine' = "done"
  /\ NoFault
  /\ UNCHANGED <<buildVars, asDirectory, sourceErr, targetErr, copied>>

\* tar in the source container: it writes into the connection, which takes no
\* more than it holds; a connection nobody reads any more breaks.
SourceTar ==
  /\ tar = "running"
  /\ \/ /\ written < Chunks /\ inflight < WireCapacity
        /\ written' = written + 1 /\ inflight' = inflight + 1
        /\ NoFault /\ UNCHANGED tar
     \/ /\ written = Chunks
        /\ tar' = "ok" /\ NoFault /\ UNCHANGED <<written, inflight>>
     \/ /\ "reader" \in pipe /\ written < Chunks /\ NoFault
        /\ tar' = "failed" /\ UNCHANGED <<written, inflight>>
     \/ /\ Fault
        /\ tar' = "failed" /\ UNCHANGED <<written, inflight>>
  /\ UNCHANGED <<buildVars, asDirectory, goroutine, sourceErr, pipe, target, arrived,
                 eaten, targetErr>>

\* The pipe holds nothing: a chunk passes when the goroutine's copier has one
\* and the copier of the target's stdin, which ends with the target, takes it.
Transfer ==
  /\ EndsOpen
  /\ inflight > 0
  /\ target \in {"preparing", "reading"}
  /\ arrived < WireCapacity
  /\ inflight' = inflight - 1 /\ arrived' = arrived + 1
  /\ NoFault
  /\ UNCHANGED <<buildVars, asDirectory, goroutine, sourceErr, tar, written, pipe,
                 target, eaten, targetErr>>

\* The script in the target container: the directories, then tar, which may
\* accept a stream that ends where a member could begin; then the move.
TargetScript ==
  /\ \/ target = "preparing" /\ target' = "reading" /\ NoFault
        /\ UNCHANGED <<arrived, eaten>>
     \/ target = "reading" /\ arrived > 0 /\ NoFault
        /\ arrived' = arrived - 1 /\ eaten' = eaten + 1 /\ UNCHANGED target
     \/ target = "reading" /\ arrived = 0 /\ pipe # {} /\ eaten > 0 /\ NoFault
        /\ target' = "ok" /\ UNCHANGED <<arrived, eaten>>
     \/ target = "reading" /\ arrived = 0 /\ pipe # {} /\ eaten < Chunks /\ NoFault
        /\ target' = "failed" /\ UNCHANGED <<arrived, eaten>>
     \/ target \in {"preparing", "reading"} /\ Fault
        /\ target' = "failed" /\ UNCHANGED <<arrived, eaten>>
  /\ UNCHANGED <<buildVars, asDirectory, goroutine, sourceErr, tar, written, inflight,
                 pipe, targetErr>>

\* A stage's container goes down by itself, with what runs in it.
StageDies(s) ==
  /\ Up(s) /\ pc # "ended"
  /\ Fault
  /\ box' = [box EXCEPT ![s] = "stopped"]
  /\ tar' = IF goroutine # "off" /\ s = Source /\ tar = "running" THEN "failed" ELSE tar
  /\ target' = IF s = stage /\ target \in {"preparing", "reading"}
                 THEN "failed" ELSE target
  /\ UNCHANGED <<plan, pc, stage, step, entry, named, content, outcome, published,
                 misread, refused, asDirectory, goroutine, sourceErr, written, inflight,
                 pipe, arrived, eaten, targetErr>>
-----------------------------------------------------------------------------
StageStep == Create \/ Start \/ Prepare
StepStep == \/ RunCommand \/ NoteEnvironment \/ Capture \/ PushEntry
            \/ PersistEnvironment \/ InstallService \/ NextStage
CopyStep == Probe \/ Spawn \/ StartTarget \/ WaitTarget \/ WaitData \/ WaitSource
EndStep == StopLast \/ Publish \/ StopStage \/ DeleteStage

\* buildImage's own goroutine
Build == Validate \/ StageStep \/ StepStep \/ CopyStep \/ EndStep

\* A killed build's copier and goroutine are gone with it.
Alive == pc # "ended"
Goroutine == Alive /\ (GoStart \/ GoWait \/ GoClose)
Copying == Alive /\ Transfer
InSource == Alive /\ SourceTar
InTarget == Alive /\ TargetScript

Next ==
  \/ Build \/ Goroutine \/ Copying \/ InSource \/ InTarget
  \/ Killed
  \/ \E s \in StagesOf : StageDies(s)

Spec == Init /\ [][Next]_vars

\* Commands in the containers end and connections move on: buildImage bounds
\* neither in time.
Fairness ==
  /\ WF_vars(Build) /\ WF_vars(Goroutine) /\ WF_vars(Copying)
  /\ WF_vars(InSource) /\ WF_vars(InTarget)

FairSpec == Spec /\ Fairness
-----------------------------------------------------------------------------
Labels == {"validate", "create", "start", "prepare", "step", "spawn", "startTarget",
           "waitTarget", "waitData", "waitSource", "stop", "publish", "stopStage",
           "deleteStage", "ended"}

\* The pieces of state have the shapes the code gives them.
TypeOK ==
  /\ plan \in Plans
  /\ pc \in Labels /\ outcome \in {"none", "ok", "failed", "killed"}
  /\ stage \in StagesOf /\ step \in 1 .. Len(Steps(stage)) + 1
  /\ entry \in 0 .. Entries - 1
  /\ named \subseteq StagesOf /\ refused \subseteq named
  /\ box \in [StagesOf -> {"none", "stopped", "running"}]
  /\ DOMAIN content = StagesOf
  /\ \A s \in StagesOf : content[s] \subseteq Whole(s)
  /\ misread \subseteq {"capture", "environment", "probe"}
  /\ asDirectory \in BOOLEAN /\ sourceErr \in BOOLEAN /\ targetErr \in BOOLEAN
  /\ goroutine \in {"off", "starting", "waiting", "draining", "done"}
  /\ tar \in {"off", "running", "ok", "failed"}
  /\ target \in {"off", "preparing", "reading", "ok", "failed"}
  /\ pipe \subseteq {"reader", "writer"}
  /\ inflight \in 0 .. WireCapacity /\ arrived \in 0 .. WireCapacity
  /\ written \in 0 .. Chunks /\ eaten \in 0 .. Chunks
  /\ inflight + arrived + eaten <= written
  /\ faults \in 0 .. MaxFaults

\* cmd_build.go 349: an image is published only when every step of the last
\* stage took effect in full, with the artifacts it copied from other stages
\* and all that these consist of - whichever command, connection or container
\* failed, and in which order the parties of a copy came to their end.  (Except
\* where the build takes the failure of a read for an answer; see misread.)
PublishedComplete ==
  published # Nothing /\ misread = {} => published = Whole(Len(plan.stages))

\* cmd_build.go 353: a build that ends by itself, well or not, leaves no
\* container of any stage behind but those Incus refused to delete.
NoContainerLeft ==
  outcome \in {"ok", "failed"} /\ pc = "ended"
    => \A s \in StagesOf : box[s] # "none" => s \in refused

\* incus.go 1202: whatever fails, and whoever fails first, the call waits for
\* nobody who waits for it: the build ends.
BuildEnds == <>(pc = "ended")

=============================================================================
