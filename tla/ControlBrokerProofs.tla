------------------------- MODULE ControlBrokerProofs -------------------------
(***************************************************************************)
(* Proofs about the control socket, for every set of sessions, every       *)
(* capacity and any number of streams.                                     *)
(***************************************************************************)
EXTENDS ControlBroker, FiniteSetTheorems, TLAPS

\* The client's state and its wire after it left.
LEMMA LeaveType ==
  ASSUME TypeOK, NEW c \in Sessions, NEW how \in ClientEnd, Leave(c, how)
  PROVE  /\ client' \in [Sessions -> {"idle"} \cup ClientOpen \cup ClientEnd]
         /\ wire' \in [Sessions -> Seq(Replies)]
BY DEF TypeOK, Leave

\* The wire after a reply was written.
LEMMA SendType ==
  ASSUME TypeOK, NEW c \in Sessions, NEW reply \in Replies, Send(c, reply)
  PROVE  wire' \in [Sessions -> Seq(Replies)]
<1>1. wire[c] \in Seq(Replies)
  BY DEF TypeOK
<1>2. Append(wire[c], reply) \in Seq(Replies)
  BY <1>1
<1>3. QED BY <1>1, <1>2 DEF TypeOK, Send

\* The wire after a write met its deadline.
LEMMA TimeoutType ==
  ASSUME TypeOK, NEW c \in Sessions, SendTimesOut(c)
  PROVE  wire' \in [Sessions -> Seq(Replies)]
<1>1. wire[c] \in Seq(Replies)
  BY DEF TypeOK
<1>2. Append(wire[c], "partial") \in Seq(Replies)
  BY <1>1 DEF Replies, OtherReplies
<1>3. QED BY <1>1, <1>2 DEF TypeOK, SendTimesOut

\* The wire after the final reply, however it went.
LEMMA WriteReplyType ==
  ASSUME TypeOK, NEW c \in Sessions, NEW reply \in Replies, WriteReply(c, reply)
  PROVE  wire' \in [Sessions -> Seq(Replies)]
BY SendType, TimeoutType DEF WriteReply

\* The bounds of a regime.
LEMMA RegimeType ==
  ASSUME TypeOK
  PROVE  regime.output \in [Streams -> 0..MaxOutput] /\ regime.input \in 0..MaxInput
BY RegimeAssumption DEF TypeOK

\* Every reachable state is well typed.
THEOREM TypeCorrect == Spec => []TypeOK
<1>1. Init => TypeOK
  BY BrokerAssumption
  DEF Init, TypeOK, ClientOpen, ClientEnd, Serving, ChildExited, Replies, OtherReplies
<1>2. TypeOK /\ [Next]_vars => TypeOK'
  <2> SUFFICES ASSUME TypeOK, [Next]_vars PROVE TypeOK'
    OBVIOUS
  <2> USE BrokerAssumption DEF TypeOK, ClientOpen, ClientEnd, Serving, ChildExited, Replies,
        OtherReplies, clientVars, inputVars, outputVars, procVars, slotVars, Attached
  <2>1. ASSUME NEW c \in Sessions, ClientStep(c)
        PROVE  TypeOK'
    <3>1. CASE Dial(c) BY <3>1 DEF Dial
    <3>2. CASE DialFails(c) BY <3>2 DEF DialFails
    <3>3. CASE SendRequest(c)
      <4>1. CASE Leave(c, "failure") BY <3>3, <4>1, LeaveType DEF SendRequest
      <4>2. CASE ~Leave(c, "failure") BY <3>3, <4>2 DEF SendRequest
      <4>3. QED BY <4>1, <4>2
    <3>4. CASE TypeInput(c)
      <4>1. /\ regime.input \in 0..MaxInput /\ typed[c] \in 0..MaxInput
            /\ typed[c] < regime.input
        BY <3>4, RegimeType DEF TypeInput
      <4>2. typed[c] + 1 \in 0..MaxInput /\ sent[c] + 1 \in Nat
        BY <4>1
      <4>3. /\ typed' \in [Sessions -> 0..MaxInput]
            /\ sent' \in [Sessions -> Nat]
        BY <3>4, <4>2 DEF TypeInput
      <4>4. QED BY <3>4, <4>3 DEF TypeInput
    <3>5. CASE ReceiveOutput(c)
      <4>1. wire[c] \in Seq(Replies) /\ wire[c] # <<>>
        BY <3>5 DEF ReceiveOutput
      <4>2. Tail(wire[c]) \in Seq(Replies)
        BY <4>1
      <4>3. wire' \in [Sessions -> Seq(Replies)]
        BY <3>5, <4>2 DEF ReceiveOutput
      <4>4. printed' \in [Sessions -> [Streams -> Nat]]
        BY <3>5 DEF ReceiveOutput
      <4>5. QED BY <3>5, <4>3, <4>4 DEF ReceiveOutput
    <3>6. CASE ReceiveEnd(c)
      <4>1. PICK how \in {"success", "failure"} : Leave(c, how)
        BY <3>6 DEF ReceiveEnd
      <4>2. QED BY <3>6, <4>1, LeaveType DEF ReceiveEnd
    <3>7. CASE Disconnect(c) BY <3>7 DEF Disconnect, Leave
    <3>8. QED BY <2>1, <3>1, <3>2, <3>3, <3>4, <3>5, <3>6, <3>7 DEF ClientStep
  <2>2. ASSUME NEW c \in Sessions, AcceptStep(c)
        PROVE  TypeOK'
    <3>1. CASE Admit(c) BY <3>1 DEF Admit, HandlerStep
    <3>2. CASE Busy(c)
      <4>1. wire' \in [Sessions -> Seq(Replies)]
        BY <3>2, SendType DEF Busy
      <4>2. QED BY <3>2, <4>1 DEF Busy, HandlerStep
    <3>3. QED BY <2>2, <3>1, <3>2 DEF AcceptStep
  <2>3. ASSUME NEW c \in Sessions, HandlerGo(c)
        PROVE  TypeOK'
    <3>1. CASE Refuse(c) BY <3>1 DEF Refuse, HandlerStep
    <3>2. CASE StartCommand(c) BY <3>2 DEF StartCommand, HandlerStep
    <3>3. CASE Reap(c) BY <3>3 DEF Reap, HandlerStep
    <3>4. CASE CloseInput(c) BY <3>4 DEF CloseInput, HandlerStep
    <3>5. CASE Reply(c)
      <4>1. wire' \in [Sessions -> Seq(Replies)]
        <5>1. ExitReply(c) \in Replies
          BY DEF ExitReply, Replies, OtherReplies
        <5>2. QED BY <3>5, <5>1, WriteReplyType DEF Reply
      <4>2. QED BY <3>5, <4>1 DEF Reply, HandlerStep
    <3>6. CASE Release(c) BY <3>6 DEF Release, HandlerStep
    <3>7. QED BY <2>3, <3>1, <3>2, <3>3, <3>4, <3>5, <3>6 DEF HandlerGo
  <2>4. ASSUME NEW c \in Sessions, NEW s \in Streams, CopierGo(c, s)
        PROVE  TypeOK'
    <3>1. CASE Copy(c, s)
      <4>1. wire' \in [Sessions -> Seq(Replies)]
        BY <3>1, SendType DEF Copy
      <4>2. pipe[c] \in [Streams -> Nat] /\ pipe[c][s] - 1 \in Nat
        BY <3>1 DEF Copy
      <4>3. pipe' \in [Sessions -> [Streams -> Nat]]
        BY <3>1, <4>2 DEF Copy
      <4>4. QED BY <3>1, <4>1, <4>3 DEF Copy
    <3>2. CASE CopyFails(c, s)
      <4>1. wire' \in [Sessions -> Seq(Replies)]
        BY <3>2, TimeoutType DEF CopyFails
      <4>2. /\ pipe' \in [Sessions -> [Streams -> Nat]]
            /\ copier' \in [Sessions -> [Streams -> {"off", "copying", "ended"}]]
        <5>1. pipe' = [pipe EXCEPT ![c][s] = 0] /\ copier' = [copier EXCEPT ![c][s] = "ended"]
          BY <3>2 DEF CopyFails
        <5>2. QED BY <5>1
      <4>3. /\ child' \in [Sessions -> {"none", "running"} \cup ChildExited]
            /\ helper' \in [Sessions -> BOOLEAN]
        <5>1. UNCHANGED procVars \/ KillGroup(c)
          BY <3>2 DEF CopyFails
        <5>2. CASE UNCHANGED procVars BY <5>2
        <5>3. CASE KillGroup(c) BY <5>3 DEF KillGroup
        <5>4. QED BY <5>1, <5>2, <5>3
      <4>4. writeFailed' \in [Sessions -> BOOLEAN]
        BY <3>2 DEF CopyFails
      <4>5. QED BY <3>2, <4>1, <4>2, <4>3, <4>4 DEF CopyFails
    <3>3. CASE CopyEnds(c, s) BY <3>3 DEF CopyEnds
    <3>4. QED BY <2>4, <3>1, <3>2, <3>3 DEF CopierGo
  <2>5. ASSUME NEW c \in Sessions, ForwarderGo(c)
        PROVE  TypeOK'
    <3>1. CASE ForwardRead(c)
      <4>1. sent[c] - 1 \in Nat
        BY <3>1 DEF ForwardRead
      <4>2. /\ sent' \in [Sessions -> Nat]
            /\ forwarder' \in [Sessions -> {"off", "reading", "writing", "done"}]
        BY <3>1, <4>1 DEF ForwardRead
      <4>3. QED BY <3>1, <4>2 DEF ForwardRead
    <3>2. CASE ForwardWrite(c) BY <3>2 DEF ForwardWrite
    <3>3. CASE ForwardWriteFails(c) BY <3>3 DEF ForwardWriteFails
    <3>4. CASE ForwardEnd(c) BY <3>4 DEF ForwardEnd, KillGroup
    <3>5. QED BY <2>5, <3>1, <3>2, <3>3, <3>4 DEF ForwarderGo
  <2>6. ASSUME NEW c \in Sessions, ChildStep(c)
        PROVE  TypeOK'
    <3>1. ASSUME NEW s \in Streams, ChildWrites(c, s) PROVE TypeOK'
      <4>1. pipe[c] \in [Streams -> Nat] /\ pipe[c][s] + 1 \in Nat
        BY <3>1
      <4>2. pipe' \in [Sessions -> [Streams -> Nat]]
        BY <3>1, <4>1 DEF ChildWrites
      <4>3. produced' \in [Sessions -> [Streams -> 0..MaxOutput]]
        <5>1. /\ regime.output[s] \in 0..MaxOutput /\ produced[c][s] \in 0..MaxOutput
              /\ produced[c][s] < regime.output[s]
          BY <3>1, RegimeType DEF ChildWrites
        <5>2. produced[c][s] + 1 \in 0..MaxOutput
          BY <5>1
        <5>3. QED BY <3>1, <5>2 DEF ChildWrites
      <4>4. QED BY <3>1, <4>2, <4>3 DEF ChildWrites
    <3>2. CASE ChildReads(c)
      <4>1. stdin[c] - 1 \in 0..StdinCapacity
        BY <3>2 DEF ChildReads
      <4>2. stdin' \in [Sessions -> 0..StdinCapacity]
        BY <3>2, <4>1 DEF ChildReads
      <4>3. QED BY <3>2, <4>2 DEF ChildReads
    <3>3. CASE ChildClosesStdin(c) BY <3>3 DEF ChildClosesStdin
    <3>4. CASE ChildForks(c) BY <3>4 DEF ChildForks
    <3>5. CASE ChildExits(c) BY <3>5 DEF ChildExits
    <3>6. CASE HelperExits(c) BY <3>6 DEF HelperExits
    <3>7. QED BY <2>6, <3>1, <3>2, <3>3, <3>4, <3>5, <3>6 DEF ChildStep
  <2>7. CASE DaemonExits BY <2>7 DEF DaemonExits
  <2>8. CASE UNCHANGED vars BY <2>8 DEF vars
  <2>9. QED BY <2>1, <2>2, <2>3, <2>4, <2>5, <2>6, <2>7, <2>8 DEF Next
<1>3. QED BY <1>1, <1>2, PTL DEF Spec

-----------------------------------------------------------------------------
(* SuccessIsTruthful is not inductive: it needs to know that a final reply  *)
(* in flight already speaks the truth, and that a command which has ended   *)
(* is never started a second time.                                          *)

Unstarted ==
  \A c \in Sessions :
    /\ client[c] = "idle" => handler[c] = "none"
    /\ handler[c] \in {"none", "backlog", "reading"} => child[c] = "none"

WireTruthful ==
  \A c \in Sessions : \A i \in 1..Len(wire[c]) :
    wire[c][i] = "done-zero" => child[c] = "ok"

TruthInv == Unstarted /\ WireTruthful /\ SuccessIsTruthful

\* What one step does to the command of a session.
LEMMA ChildStable ==
  ASSUME TypeOK, Unstarted, [Next]_vars
  PROVE  Unstarted' /\ \A c \in Sessions : child[c] = "ok" => child'[c] = "ok"
<1> USE DEF TypeOK, Unstarted, clientVars, inputVars, outputVars, procVars, slotVars,
            HandlerStep, KillGroup
<1> DEFINE Goal == Unstarted' /\ \A d \in Sessions : child[d] = "ok" => child'[d] = "ok"
<1>1. ASSUME NEW c \in Sessions, ClientStep(c) PROVE Goal
  <2>1. UNCHANGED procVars
    BY <1>1 DEF ClientStep, Dial, DialFails, SendRequest, TypeInput, ReceiveOutput,
                ReceiveEnd, Disconnect
  <2>2. CASE Dial(c) BY <2>1, <2>2 DEF Dial
  <2>3. CASE ~Dial(c)
    <3>1. UNCHANGED handler
      BY <1>1, <2>3 DEF ClientStep, DialFails, SendRequest, TypeInput, ReceiveOutput,
                        ReceiveEnd, Disconnect
    <3>2. \/ UNCHANGED client
          \/ \E how \in ClientOpen \cup ClientEnd : client' = [client EXCEPT ![c] = how]
      BY <1>1, <2>3 DEF ClientStep, DialFails, SendRequest, TypeInput, ReceiveOutput,
                        ReceiveEnd, Disconnect, Leave, ClientOpen, ClientEnd
    <3>3. QED BY <2>1, <3>1, <3>2 DEF ClientOpen, ClientEnd
  <2>4. QED BY <2>2, <2>3
<1>2. ASSUME NEW c \in Sessions, AcceptStep(c) PROVE Goal
  BY <1>2 DEF AcceptStep, Admit, Busy
<1>3. ASSUME NEW c \in Sessions, HandlerGo(c) PROVE Goal
  <2>1. CASE StartCommand(c) BY <2>1 DEF StartCommand
  <2>2. CASE ~StartCommand(c)
    <3>1. UNCHANGED <<client, child>>
      BY <1>3, <2>2 DEF HandlerGo, Refuse, Reap, CloseInput, Reply, Release
    <3>2. \E to \in Serving \cup {"closed"} :
            /\ to # "reading" /\ handler' = [handler EXCEPT ![c] = to]
            /\ handler[c] # "none"
      BY <1>3, <2>2 DEF HandlerGo, Refuse, Reap, CloseInput, Reply, Release, Serving
    <3>3. QED BY <3>1, <3>2 DEF Serving
  <2>3. QED BY <2>1, <2>2
<1>4. ASSUME NEW c \in Sessions, NEW s \in Streams, CopierGo(c, s) PROVE Goal
  <2>1. UNCHANGED procVars \/ KillGroup(c)
    BY <1>4 DEF CopierGo, Copy, CopyFails, CopyEnds
  <2>2. UNCHANGED <<handler, client>>
    BY <1>4 DEF CopierGo, Copy, CopyFails, CopyEnds
  <2>3. QED BY <2>1, <2>2
<1>5. ASSUME NEW c \in Sessions, ForwarderGo(c) PROVE Goal
  BY <1>5 DEF ForwarderGo, ForwardRead, ForwardWrite, ForwardWriteFails, ForwardEnd
<1>6. ASSUME NEW c \in Sessions, ChildStep(c) PROVE Goal
  <2>1. UNCHANGED <<handler, client>>
    BY <1>6 DEF ChildStep, ChildWrites, ChildReads, ChildClosesStdin, ChildForks,
                ChildExits, HelperExits
  <2>2. \/ UNCHANGED child
        \/ child[c] = "running" /\ \E code \in {"ok", "error"} : child' = [child EXCEPT ![c] = code]
    BY <1>6 DEF ChildStep, ChildWrites, ChildReads, ChildClosesStdin, ChildForks,
                ChildExits, HelperExits
  <2>3. QED BY <2>1, <2>2
<1>7. CASE DaemonExits BY <1>7 DEF DaemonExits
<1>8. CASE UNCHANGED vars BY <1>8 DEF vars
<1>9. QED BY <1>1, <1>2, <1>3, <1>4, <1>5, <1>6, <1>7, <1>8 DEF Next

\* What one step does to the replies in flight of a session.
WireStep(c) ==
  \/ wire'[c] = wire[c]
  \/ wire'[c] = <<>>
  \/ wire[c] # <<>> /\ wire'[c] = Tail(wire[c])
  \/ \E reply \in Replies :
       /\ wire'[c] = Append(wire[c], reply)
       /\ reply = "done-zero" => child[c] = "ok"

\* Writing a reply is such a step.
LEMMA SendStep ==
  ASSUME TypeOK, NEW c \in Sessions, NEW reply \in Replies,
         reply = "done-zero" => child[c] = "ok", Send(c, reply)
  PROVE  \A d \in Sessions : WireStep(d)
BY DEF TypeOK, Send, WireStep

\* So is a write that meets its deadline.
LEMMA TimeoutStep ==
  ASSUME TypeOK, NEW c \in Sessions, SendTimesOut(c)
  PROVE  \A d \in Sessions : WireStep(d)
<1>1. "partial" \in Replies
  BY DEF Replies, OtherReplies
<1> QED
  BY <1>1 DEF TypeOK, SendTimesOut, WireStep

\* So is every step of the system, for every session.
LEMMA WireSteps ==
  ASSUME TypeOK, [Next]_vars
  PROVE  \A c \in Sessions : WireStep(c)
<1> USE DEF TypeOK, clientVars, inputVars, outputVars, procVars, slotVars, WireStep
<1> DEFINE Goal == \A d \in Sessions : WireStep(d)
<1>1. ASSUME NEW c \in Sessions, ClientStep(c) PROVE Goal
  <2>1. CASE Dial(c) \/ DialFails(c) \/ TypeInput(c)
    BY <2>1 DEF Dial, DialFails, TypeInput
  <2>2. CASE SendRequest(c) \/ Disconnect(c)
    BY <2>2 DEF SendRequest, Disconnect, Leave
  <2>3. CASE ReceiveOutput(c) BY <2>3 DEF ReceiveOutput
  <2>4. CASE ReceiveEnd(c) BY <2>4 DEF ReceiveEnd, Leave
  <2>5. QED BY <1>1, <2>1, <2>2, <2>3, <2>4 DEF ClientStep
<1>2. ASSUME NEW c \in Sessions, AcceptStep(c) PROVE Goal
  <2>1. CASE Admit(c) BY <2>1 DEF Admit
  <2>2. CASE Busy(c)
    <3>1. "done-nonzero" \in Replies
      BY DEF Replies, OtherReplies
    <3>2. QED BY <2>2, <3>1, SendStep DEF Busy
  <2>3. QED BY <1>2, <2>1, <2>2 DEF AcceptStep
<1>3. ASSUME NEW c \in Sessions, HandlerGo(c) PROVE Goal
  <2>1. CASE Reply(c)
    <3>1. ASSUME NEW reply \in Replies, WriteReply(c, reply),
                 reply = "done-zero" => child[c] = "ok"
          PROVE  Goal
      BY <3>1, SendStep, TimeoutStep DEF WriteReply
    <3>2. ExitReply(c) \in Replies /\ (ExitReply(c) = "done-zero" => child[c] = "ok")
      BY DEF ExitReply, Replies, OtherReplies
    <3>3. "done-nonzero" \in Replies
      BY DEF Replies, OtherReplies
    <3>4. QED BY <2>1, <3>1, <3>2, <3>3 DEF Reply
  <2>2. CASE ~Reply(c)
    BY <1>3, <2>2 DEF HandlerGo, Refuse, StartCommand, Reap, CloseInput, Release
  <2>3. QED BY <2>1, <2>2
<1>4. ASSUME NEW c \in Sessions, NEW s \in Streams, CopierGo(c, s) PROVE Goal
  <2>1. CASE Copy(c, s)
    <3>1. s \in Replies /\ s # "done-zero"
      BY StreamAssumption DEF Replies, OtherReplies
    <3>2. QED BY <2>1, <3>1, SendStep DEF Copy
  <2>2. CASE CopyFails(c, s) BY <2>2, TimeoutStep DEF CopyFails
  <2>3. CASE CopyEnds(c, s) BY <2>3 DEF CopyEnds
  <2>4. QED BY <1>4, <2>1, <2>2, <2>3 DEF CopierGo
<1>5. ASSUME NEW c \in Sessions, ForwarderGo(c) PROVE Goal
  BY <1>5 DEF ForwarderGo, ForwardRead, ForwardWrite, ForwardWriteFails, ForwardEnd
<1>6. ASSUME NEW c \in Sessions, ChildStep(c) PROVE Goal
  BY <1>6 DEF ChildStep, ChildWrites, ChildReads, ChildClosesStdin, ChildForks,
              ChildExits, HelperExits
<1>7. CASE DaemonExits BY <1>7 DEF DaemonExits
<1>8. CASE UNCHANGED vars BY <1>8 DEF vars
<1>9. QED BY <1>1, <1>2, <1>3, <1>4, <1>5, <1>6, <1>7, <1>8 DEF Next

\* A client comes to report success only from a final reply with code zero.
LEMMA ClientSteps ==
  ASSUME TypeOK, [Next]_vars
  PROVE  \A c \in Sessions : client'[c] = "success" =>
           \/ client[c] = "success"
           \/ wire[c] # <<>> /\ Head(wire[c]) = "done-zero"
<1> USE DEF TypeOK, clientVars, inputVars, outputVars, procVars, slotVars
<1> DEFINE Goal == \A d \in Sessions : client'[d] = "success" =>
                     \/ client[d] = "success"
                     \/ wire[d] # <<>> /\ Head(wire[d]) = "done-zero"
<1>1. ASSUME NEW c \in Sessions, ClientStep(c) PROVE Goal
  BY <1>1 DEF ClientStep, Dial, DialFails, SendRequest, TypeInput, ReceiveOutput,
              ReceiveEnd, Disconnect, Leave
<1>2. CASE UNCHANGED client BY <1>2
<1>3. ASSUME NEW c \in Sessions, AcceptStep(c) PROVE UNCHANGED client
  BY <1>3 DEF AcceptStep, Admit, Busy
<1>4. ASSUME NEW c \in Sessions, HandlerGo(c) PROVE UNCHANGED client
  BY <1>4 DEF HandlerGo, Refuse, StartCommand, Reap, CloseInput, Reply, Release
<1>5. ASSUME NEW c \in Sessions, NEW s \in Streams, CopierGo(c, s) PROVE UNCHANGED client
  BY <1>5 DEF CopierGo, Copy, CopyFails, CopyEnds
<1>6. ASSUME NEW c \in Sessions, ForwarderGo(c) PROVE UNCHANGED client
  BY <1>6 DEF ForwarderGo, ForwardRead, ForwardWrite, ForwardWriteFails, ForwardEnd
<1>7. ASSUME NEW c \in Sessions, ChildStep(c) PROVE UNCHANGED client
  BY <1>7 DEF ChildStep, ChildWrites, ChildReads, ChildClosesStdin, ChildForks,
              ChildExits, HelperExits
<1>8. CASE DaemonExits \/ UNCHANGED vars BY <1>8 DEF DaemonExits, vars
<1>9. QED BY <1>1, <1>2, <1>3, <1>4, <1>5, <1>6, <1>7, <1>8 DEF Next

\* No step puts a false success on the wire or before the client.
LEMMA TruthStep ==
  ASSUME TypeOK, TruthInv, [Next]_vars
  PROVE  TruthInv'
<1>1. Unstarted' /\ \A c \in Sessions : child[c] = "ok" => child'[c] = "ok"
  BY ChildStable DEF TruthInv
<1>2. WireTruthful'
  <2> SUFFICES ASSUME NEW c \in Sessions, NEW i \in 1..Len(wire'[c]),
                      wire'[c][i] = "done-zero"
               PROVE  child[c] = "ok"
    BY <1>1 DEF WireTruthful
  <2>1. wire[c] \in Seq(Replies) /\ WireStep(c)
    BY WireSteps DEF TypeOK
  <2>2. \A j \in 1..Len(wire[c]) : wire[c][j] = "done-zero" => child[c] = "ok"
    BY DEF TruthInv, WireTruthful
  <2>3. CASE wire'[c] = wire[c] BY <2>2, <2>3
  <2>4. CASE wire'[c] = <<>> BY <2>4
  <2>5. CASE wire[c] # <<>> /\ wire'[c] = Tail(wire[c])
    <3>1. Len(wire'[c]) = Len(wire[c]) - 1 /\ wire'[c][i] = wire[c][i + 1]
      BY <2>1, <2>5
    <3>2. i + 1 \in 1..Len(wire[c])
      BY <2>1, <3>1
    <3>3. QED BY <2>2, <3>1, <3>2
  <2>6. ASSUME NEW reply \in Replies, wire'[c] = Append(wire[c], reply),
               reply = "done-zero" => child[c] = "ok"
        PROVE  child[c] = "ok"
    <3>1. CASE i = Len(wire[c]) + 1
      BY <2>1, <2>6, <3>1
    <3>2. CASE i \in 1..Len(wire[c])
      BY <2>1, <2>2, <2>6, <3>2
    <3>3. QED BY <2>1, <2>6, <3>1, <3>2
  <2>7. QED BY <2>1, <2>3, <2>4, <2>5, <2>6 DEF WireStep
<1>3. SuccessIsTruthful'
  <2> SUFFICES ASSUME NEW c \in Sessions, client'[c] = "success"
               PROVE  child[c] = "ok"
    BY <1>1 DEF SuccessIsTruthful
  <2>1. CASE client[c] = "success" BY <2>1 DEF TruthInv, SuccessIsTruthful
  <2>2. CASE wire[c] # <<>> /\ Head(wire[c]) = "done-zero"
    <3>1. wire[c] \in Seq(Replies)
      BY DEF TypeOK
    <3>2. 1 \in 1..Len(wire[c]) /\ wire[c][1] = "done-zero"
      BY <2>2, <3>1
    <3>3. QED BY <3>2 DEF TruthInv, WireTruthful
  <2>3. QED BY <2>1, <2>2, ClientSteps
<1>4. QED BY <1>1, <1>2, <1>3 DEF TruthInv

\* A client reports success only for a command that exited with zero, however
\* sessions, disconnects, write deadlines and the end of the daemon interleave.
THEOREM SuccessTruthful == Spec => []SuccessIsTruthful
<1>1. Init => TruthInv
  BY DEF Init, TruthInv, Unstarted, WireTruthful, SuccessIsTruthful
<1>2. TypeOK /\ TruthInv /\ [Next]_vars => TruthInv'
  BY TruthStep
<1>3. TruthInv => SuccessIsTruthful
  BY DEF TruthInv
<1>4. QED BY <1>1, <1>2, <1>3, TypeCorrect, PTL DEF Spec

-----------------------------------------------------------------------------
(* The semaphore.                                                          *)

\* A step takes a token, gives one back, or leaves alone which sessions are
\* being served.
LEMMA TokenSteps ==
  ASSUME TypeOK, Unstarted, [Next]_vars
  PROVE  \/ \E c \in Sessions : Admit(c) \/ Release(c)
         \/ /\ slots' = slots
            /\ \A c \in Sessions : handler'[c] \in Serving <=> handler[c] \in Serving
<1> USE DEF TypeOK, clientVars, inputVars, outputVars, procVars, slotVars, HandlerStep
<1> DEFINE Same == /\ slots' = slots
                   /\ \A d \in Sessions : handler'[d] \in Serving <=> handler[d] \in Serving
<1>1. ASSUME NEW c \in Sessions, ClientStep(c) PROVE Same
  <2>1. CASE Dial(c) BY <2>1 DEF Dial, Unstarted, Serving
  <2>2. CASE ~Dial(c)
    BY <1>1, <2>2 DEF ClientStep, DialFails, SendRequest, TypeInput, ReceiveOutput,
                      ReceiveEnd, Disconnect
  <2>3. QED BY <2>1, <2>2
<1>2. ASSUME NEW c \in Sessions, Busy(c) PROVE Same
  BY <1>2 DEF Busy, Serving
<1>3. ASSUME NEW c \in Sessions, HandlerGo(c) PROVE Release(c) \/ Same
  BY <1>3 DEF HandlerGo, Refuse, StartCommand, Reap, CloseInput, Reply, Serving
<1>4. ASSUME NEW c \in Sessions, NEW s \in Streams, CopierGo(c, s) PROVE Same
  BY <1>4 DEF CopierGo, Copy, CopyFails, CopyEnds
<1>5. ASSUME NEW c \in Sessions, ForwarderGo(c) PROVE Same
  BY <1>5 DEF ForwarderGo, ForwardRead, ForwardWrite, ForwardWriteFails, ForwardEnd
<1>6. ASSUME NEW c \in Sessions, ChildStep(c) PROVE Same
  BY <1>6 DEF ChildStep, ChildWrites, ChildReads, ChildClosesStdin, ChildForks,
              ChildExits, HelperExits
<1>7. CASE DaemonExits \/ UNCHANGED vars BY <1>7 DEF DaemonExits, vars
<1>8. QED BY <1>1, <1>2, <1>3, <1>4, <1>5, <1>6, <1>7 DEF Next, AcceptStep

AdmissionInv == IsFiniteSet(slots) /\ Admission

\* No step parts the tokens from the sessions being served.
LEMMA AdmissionStep ==
  ASSUME TypeOK, Unstarted, AdmissionInv, [Next]_vars
  PROVE  AdmissionInv'
<1> USE DEF AdmissionInv, Admission
<1>1. ASSUME NEW c \in Sessions, Admit(c) PROVE AdmissionInv'
  <2>1. slots' = slots \cup {c} /\ Cardinality(slots) < MaxConnections
    BY <1>1 DEF Admit
  <2>2. c \notin slots
    BY <1>1 DEF Admit, HandlerStep, Serving
  <2>3. IsFiniteSet(slots') /\ Cardinality(slots') = Cardinality(slots) + 1
    BY <2>1, <2>2, FS_AddElement
  <2>4. Cardinality(slots) \in Nat
    BY FS_CardinalityType
  <2>5. slots' = {d \in Sessions : handler'[d] \in Serving}
    BY <1>1, <2>1 DEF Admit, HandlerStep, Serving, TypeOK
  <2>6. QED BY <2>1, <2>3, <2>4, <2>5, BrokerAssumption
<1>2. ASSUME NEW c \in Sessions, Release(c) PROVE AdmissionInv'
  <2>1. slots' = slots \ {c}
    BY <1>2 DEF Release
  <2>2. IsFiniteSet(slots') /\ Cardinality(slots') <= Cardinality(slots)
    BY <2>1, FS_Subset
  <2>3. Cardinality(slots) \in Nat /\ Cardinality(slots') \in Nat
    BY <2>2, FS_CardinalityType
  <2>4. slots' = {d \in Sessions : handler'[d] \in Serving}
    BY <1>2, <2>1 DEF Release, HandlerStep, Serving, TypeOK
  <2>5. QED BY <2>2, <2>3, <2>4, BrokerAssumption
<1>3. CASE /\ slots' = slots
           /\ \A c \in Sessions : handler'[c] \in Serving <=> handler[c] \in Serving
  BY <1>3
<1>4. QED BY <1>1, <1>2, <1>3, TokenSteps

\* No more than controlMaxConnections sessions are served at any time, and the
\* sessions served are exactly those that hold a token.
THEOREM AdmissionHolds == Spec => []Admission
<1>1. Init => AdmissionInv /\ Unstarted
  BY FS_EmptySet, BrokerAssumption DEF Init, AdmissionInv, Admission, Unstarted, Serving
<1>2. TypeOK /\ Unstarted /\ AdmissionInv /\ [Next]_vars => AdmissionInv' /\ Unstarted'
  BY AdmissionStep, ChildStable
<1>3. AdmissionInv => Admission
  BY DEF AdmissionInv
<1>4. QED BY <1>1, <1>2, <1>3, TypeCorrect, PTL DEF Spec

-----------------------------------------------------------------------------
(* Who kills: the two places that do are reached only for a client that    *)
(* left, or with a failed write of this very step.                          *)

\* A single step kills only a command that is abandoned.
LEMMA KillStep ==
  ASSUME TypeOK, Next, NEW d \in Sessions, child[d] = "running", child'[d] = "killed"
  PROVE  ~Attached(d) \/ writeFailed'[d]
<1> DEFINE Same == UNCHANGED child
           Kills(c) == KillGroup(c) /\ (~Attached(c) \/ writeFailed'[c])
<1> USE DEF TypeOK, clientVars, inputVars, outputVars, procVars, slotVars
<1>1. ASSUME NEW c \in Sessions, Kills(c) PROVE c = d
  BY <1>1 DEF KillGroup
<1>2. ~Same
  OBVIOUS
<1>3. ASSUME NEW c \in Sessions, ClientStep(c) PROVE Same
  BY <1>3 DEF ClientStep, Dial, DialFails, SendRequest, TypeInput, ReceiveOutput,
              ReceiveEnd, Disconnect
<1>4. ASSUME NEW c \in Sessions, AcceptStep(c) PROVE Same
  BY <1>4 DEF AcceptStep, Admit, Busy
<1>5. ASSUME NEW c \in Sessions, HandlerGo(c)
      PROVE  Same \/ child' = [child EXCEPT ![c] = "running"]
  BY <1>5 DEF HandlerGo, Refuse, StartCommand, Reap, CloseInput, Reply, Release
<1>6. ASSUME NEW c \in Sessions, NEW s \in Streams, CopierGo(c, s) PROVE Same \/ Kills(c)
  <2>1. CASE CopyFails(c, s)
    <3>1. writeFailed'[c]
      BY <2>1 DEF CopyFails
    <3>2. QED BY <2>1, <3>1 DEF CopyFails
  <2>2. QED BY <1>6, <2>1 DEF CopierGo, Copy, CopyEnds
<1>7. ASSUME NEW c \in Sessions, ForwarderGo(c) PROVE Same \/ Kills(c)
  BY <1>7 DEF ForwarderGo, ForwardRead, ForwardWrite, ForwardWriteFails, ForwardEnd
<1>8. ASSUME NEW c \in Sessions, ChildStep(c)
      PROVE  Same \/ \E code \in {"ok", "error"} : child' = [child EXCEPT ![c] = code]
  BY <1>8 DEF ChildStep, ChildWrites, ChildReads, ChildClosesStdin, ChildForks,
              ChildExits, HelperExits
<1>9. CASE DaemonExits BY <1>2, <1>9 DEF DaemonExits
<1>10. QED BY <1>1, <1>2, <1>3, <1>4, <1>5, <1>6, <1>7, <1>8, <1>9 DEF Next

\* Only a command whose client left, or let a write reach its deadline, is
\* killed: never one that closes its stdin, ends its output or ended in time.
THEOREM KillsAbandoned == Spec => KillsOnlyAbandoned
<1>1. TypeOK /\ [Next]_vars =>
        [\A c \in Sessions : child[c] = "running" /\ child'[c] = "killed"
           => ~Attached(c) \/ writeFailed'[c]]_vars
  BY KillStep
<1>2. QED BY <1>1, TypeCorrect, PTL DEF Spec, KillsOnlyAbandoned

-----------------------------------------------------------------------------
(* SuccessIsComplete is not inductive: it needs an account, stream by       *)
(* stream, of the chunks on their way, and to know that a final reply of    *)
(* success is the last one and comes when nothing is left to copy.          *)

\* Chunks of a stream among the replies in flight.
InFlight(w, s) == Cardinality({i \in 1..Len(w) : w[i] = s})

\* The handler is past outputWG.Wait, and so are its goroutines.
Over(c) ==
  /\ handler[c] \in {"closing", "closed"}
  /\ \A s \in Streams : copier[c][s] = "ended"

\* A stream that is not copied holds nothing.
Drained ==
  \A c \in Sessions, s \in Streams : copier[c][s] # "copying" => pipe[c][s] = 0

\* None is copied before the command starts.
NotBegun ==
  \A c \in Sessions : handler[c] \in {"none", "backlog", "reading"} =>
    \A s \in Streams : copier[c][s] # "copying"

\* What was written is printed, in flight or in the pipe.
Accounted ==
  \A c \in Sessions : client[c] \notin ClientEnd /\ ~writeFailed[c] =>
    \A s \in Streams :
      produced[c][s] = printed[c][s] + InFlight(wire[c], s) + pipe[c][s]

FinalLast ==
  \A c \in Sessions : \A i \in 1..Len(wire[c]) :
    wire[c][i] = "done-zero" => i = Len(wire[c]) /\ Over(c)

SuccessOver == \A c \in Sessions : client[c] = "success" => Over(c)

CompleteInv ==
  Drained /\ NotBegun /\ Accounted /\ FinalLast /\ SuccessOver /\ SuccessIsComplete

\* An empty wire carries nothing.
LEMMA InFlightEmpty == ASSUME NEW s PROVE InFlight(<<>>, s) = 0
<1>1. {i \in 1..Len(<<>>) : <<>>[i] = s} = {}
  OBVIOUS
<1> QED
  BY <1>1, FS_EmptySet DEF InFlight

\* A reply written to it counts for its own stream alone.
LEMMA InFlightAppend ==
  ASSUME NEW w \in Seq(Replies), NEW r \in Replies, NEW s \in Streams
  PROVE  /\ InFlight(w, s) \in Nat
         /\ InFlight(Append(w, r), s) = InFlight(w, s) + (IF r = s THEN 1 ELSE 0)
<1> DEFINE On(v) == {i \in 1..Len(v) : v[i] = s}
           n == Len(w) + 1
<1>1. Len(w) \in Nat /\ IsFiniteSet(1..Len(w))
  BY FS_Interval
<1>2. IsFiniteSet(On(w)) /\ Cardinality(On(w)) \in Nat
  BY <1>1, FS_Subset, FS_CardinalityType
<1>3. Len(Append(w, r)) = n /\ Append(w, r)[n] = r
      /\ \A i \in 1..Len(w) : Append(w, r)[i] = w[i]
  OBVIOUS
<1>4. n \notin On(w)
  BY <1>1
<1>5. On(Append(w, r)) = IF r = s THEN On(w) \cup {n} ELSE On(w)
  BY <1>1, <1>3
<1>6. Cardinality(On(w) \cup {n}) = Cardinality(On(w)) + 1
  BY <1>2, <1>4, FS_AddElement
<1>7. /\ InFlight(w, s) = Cardinality(On(w))
      /\ InFlight(Append(w, r), s) = Cardinality(On(Append(w, r)))
  BY DEF InFlight
<1> HIDE DEF On
<1> QED
  BY <1>2, <1>5, <1>6, <1>7

\* What it carries of a stream is counted.
LEMMA InFlightType ==
  ASSUME NEW w \in Seq(Replies), NEW s \in Streams
  PROVE  InFlight(w, s) \in Nat
<1>1. "partial" \in Replies
  BY DEF Replies, OtherReplies
<1> QED
  BY <1>1, InFlightAppend

\* A reply that is read counted for its own stream alone.
LEMMA InFlightTail ==
  ASSUME NEW w \in Seq(Replies), w # <<>>, NEW s \in Streams
  PROVE  InFlight(w, s) = InFlight(Tail(w), s) + (IF Head(w) = s THEN 1 ELSE 0)
<1> DEFINE On(v) == {i \in 1..Len(v) : v[i] = s}
           Later == {i \in 2..Len(w) : w[i] = s}
           f == [i \in On(Tail(w)) |-> i + 1]
<1>1. /\ Len(w) \in Nat \ {0} /\ Len(Tail(w)) = Len(w) - 1
      /\ \A i \in 1..Len(Tail(w)) : Tail(w)[i] = w[i + 1]
      /\ Head(w) = w[1]
  OBVIOUS
<1>2. IsFiniteSet(On(Tail(w))) /\ IsFiniteSet(Later)
  <2>1. IsFiniteSet(1..Len(Tail(w))) /\ IsFiniteSet(2..Len(w))
    BY <1>1, FS_Interval
  <2> QED
    BY <2>1, FS_Subset
<1>3. Cardinality(Later) = Cardinality(On(Tail(w)))
  <2>1. f \in Bijection(On(Tail(w)), Later)
    <3>1. f \in [On(Tail(w)) -> Later]
      BY <1>1
    <3>2. \A i, j \in On(Tail(w)) : f[i] = f[j] => i = j
      OBVIOUS
    <3>3. \A j \in Later : \E i \in On(Tail(w)) : f[i] = j
      <4> SUFFICES ASSUME NEW j \in Later PROVE \E i \in On(Tail(w)) : f[i] = j
        OBVIOUS
      <4>1. j - 1 \in On(Tail(w))
        BY <1>1
      <4>2. f[j - 1] = j
        BY <4>1
      <4> QED
        BY <4>1, <4>2
    <3> QED
      BY <3>1, <3>2, <3>3 DEF Bijection, Injection, Surjection, IsInjective
  <2> QED
    BY <1>2, <2>1, FS_Bijection DEF ExistsBijection
<1>4. 1 \notin Later
  OBVIOUS
<1>5. On(w) = IF Head(w) = s THEN Later \cup {1} ELSE Later
  BY <1>1
<1>6. Cardinality(Later \cup {1}) = Cardinality(Later) + 1
  BY <1>2, <1>4, FS_AddElement
<1>7. Cardinality(Later) \in Nat
  BY <1>2, FS_CardinalityType
<1>8. InFlight(w, s) = Cardinality(On(w)) /\ InFlight(Tail(w), s) = Cardinality(On(Tail(w)))
  BY DEF InFlight
<1> HIDE DEF On, Later
<1> QED
  BY <1>3, <1>5, <1>6, <1>7, <1>8

\* What one step does to a session's output: the state of its streams,
OutputSame(d) ==
  /\ printed'[d] = printed[d] /\ produced'[d] = produced[d] /\ pipe'[d] = pipe[d]
  /\ copier'[d] = copier[d] /\ writeFailed'[d] = writeFailed[d]

\* nothing, but that the client may open the session and the handler go on;
Quiet(d) ==
  /\ OutputSame(d) /\ wire'[d] = wire[d]
  /\ client'[d] \notin ClientEnd => client[d] \notin ClientEnd
  /\ client'[d] = "success" => client[d] = "success"
  /\ handler[d] \in {"closing", "closed"} => handler'[d] \in {"closing", "closed"}
  /\ handler'[d] \in {"none", "backlog", "reading"} =>
       handler[d] \in {"none", "backlog", "reading"}

\* the client leaves, with success when the reply at hand says so;
Leaves(d) ==
  /\ OutputSame(d) /\ wire'[d] = <<>> /\ handler'[d] = handler[d]
  /\ client[d] \in ClientOpen /\ client'[d] \in ClientEnd
  /\ client'[d] = "success" => wire[d] # <<>> /\ Head(wire[d]) = "done-zero"

\* it prints a chunk;
Prints(d, s) ==
  /\ wire[d] # <<>> /\ Head(wire[d]) = s /\ wire'[d] = Tail(wire[d])
  /\ printed'[d] = [printed[d] EXCEPT ![s] = @ + 1]
  /\ produced'[d] = produced[d] /\ pipe'[d] = pipe[d] /\ copier'[d] = copier[d]
  /\ writeFailed'[d] = writeFailed[d]
  /\ client[d] = "waiting" /\ client'[d] = client[d] /\ handler'[d] = handler[d]

\* the command starts;
Starts(d) ==
  /\ handler[d] = "reading" /\ handler'[d] = "running"
  /\ copier'[d] = [s \in Streams |-> IF s \in regime.streams THEN "copying" ELSE "ended"]
  /\ printed'[d] = printed[d] /\ produced'[d] = produced[d] /\ pipe'[d] = pipe[d]
  /\ writeFailed'[d] = writeFailed[d]
  /\ wire'[d] = wire[d] /\ client'[d] = client[d]

\* a chunk is copied, or written by the command;
Moves(d, s) ==
  /\ copier[d][s] = "copying" /\ copier'[d] = copier[d]
  /\ writeFailed'[d] = writeFailed[d] /\ printed'[d] = printed[d]
  /\ client'[d] = client[d] /\ handler'[d] = handler[d]
  /\ \/ /\ wire'[d] = Append(wire[d], s) /\ produced'[d] = produced[d]
        /\ pipe[d][s] > 0 /\ pipe'[d] = [pipe[d] EXCEPT ![s] = @ - 1]
     \/ /\ wire'[d] = wire[d] /\ produced'[d] = [produced[d] EXCEPT ![s] = @ + 1]
        /\ pipe'[d] = [pipe[d] EXCEPT ![s] = @ + 1]

\* a stream ends, with a failed write or empty;
StreamEnds(d, s) ==
  /\ copier[d][s] = "copying" /\ copier'[d] = [copier[d] EXCEPT ![s] = "ended"]
  /\ printed'[d] = printed[d] /\ produced'[d] = produced[d]
  /\ client'[d] = client[d] /\ handler'[d] = handler[d]
  /\ \/ /\ writeFailed'[d] /\ pipe'[d] = [pipe[d] EXCEPT ![s] = 0]
        /\ wire'[d] \in {wire[d], Append(wire[d], "partial")}
     \/ /\ writeFailed'[d] = writeFailed[d] /\ pipe[d][s] = 0 /\ pipe'[d] = pipe[d]
        /\ wire'[d] = wire[d]

\* the handler, which has not ended, replies.
Replied(d) ==
  /\ OutputSame(d) /\ client'[d] = client[d]
  /\ handler[d] \notin {"closing", "closed"} /\ handler'[d] \in {"closing", "closed"}
  /\ \/ wire'[d] = wire[d]
     \/ \E r \in OtherReplies :
          /\ wire'[d] = Append(wire[d], r)
          /\ r = "done-zero" => \A s \in Streams : copier[d][s] = "ended"

OutputStep(d) ==
  \/ Quiet(d) \/ Leaves(d) \/ Starts(d) \/ Replied(d)
  \/ \E s \in Streams : Prints(d, s) \/ Moves(d, s) \/ StreamEnds(d, s)

\* Every step of the system is one of these for every session.
LEMMA OutputSteps ==
  ASSUME TypeOK, Unstarted, [Next]_vars
  PROVE  \A d \in Sessions : OutputStep(d)
<1> SUFFICES ASSUME NEW d \in Sessions PROVE OutputStep(d)
  OBVIOUS
<1> USE DEF TypeOK, clientVars, inputVars, outputVars, procVars, slotVars, HandlerStep,
            OutputSame, ClientOpen, ClientEnd
<1>1. ASSUME NEW c \in Sessions, ClientStep(c) PROVE OutputStep(d)
  <2>1. CASE Dial(c) \/ DialFails(c) \/ TypeInput(c)
    BY <2>1 DEF Dial, DialFails, TypeInput, Quiet, OutputStep, Unstarted
  <2>2. CASE SendRequest(c) \/ Disconnect(c)
    BY <2>2 DEF SendRequest, Disconnect, Leave, Attached, Quiet, Leaves, OutputStep
  <2>3. CASE ReceiveOutput(c)
    BY <2>3 DEF ReceiveOutput, Quiet, Prints, OutputStep
  <2>4. CASE ReceiveEnd(c)
    BY <2>4 DEF ReceiveEnd, Leave, Quiet, Leaves, OutputStep
  <2> QED
    BY <1>1, <2>1, <2>2, <2>3, <2>4 DEF ClientStep
<1>2. ASSUME NEW c \in Sessions, AcceptStep(c) PROVE OutputStep(d)
  BY <1>2 DEF AcceptStep, Admit, Busy, Send, Quiet, Replied, OtherReplies, OutputStep
<1>3. ASSUME NEW c \in Sessions, HandlerGo(c) PROVE OutputStep(d)
  <2>1. CASE StartCommand(c)
    BY <2>1 DEF StartCommand, Quiet, Starts, OutputStep
  <2>2. CASE Reply(c)
    <3>1. CASE c # d
      BY <2>2, <3>1 DEF Reply, WriteReply, Send, SendTimesOut, Quiet, OutputStep
    <3>2. CASE c = d
      <4>1. OutputSame(d) /\ client'[d] = client[d]
            /\ handler[d] \notin {"closing", "closed"} /\ handler'[d] = "closing"
        BY <2>2, <3>2 DEF Reply
      <4>2. PICK reply \in OtherReplies :
              /\ WriteReply(d, reply)
              /\ reply = "done-zero" => \A s \in Streams : copier[d][s] = "ended"
        BY <2>2, <3>2 DEF Reply, GoroutinesDone, ExitReply, OtherReplies
      <4>3. \/ wire'[d] = wire[d] \/ wire'[d] = Append(wire[d], reply)
            \/ wire'[d] = Append(wire[d], "partial")
        BY <4>2 DEF WriteReply, Send, SendTimesOut
      <4> QED
        BY <4>1, <4>2, <4>3 DEF Replied, OutputStep, OtherReplies
    <3> QED
      BY <3>1, <3>2
  <2>3. CASE ~StartCommand(c) /\ ~Reply(c)
    BY <1>3, <2>3 DEF HandlerGo, Refuse, Reap, CloseInput, Release, Quiet, OutputStep
  <2> QED
    BY <2>1, <2>2, <2>3
<1>4. ASSUME NEW c \in Sessions, NEW s \in Streams, CopierGo(c, s) PROVE OutputStep(d)
  <2>1. CASE c # d
    BY <1>4, <2>1 DEF CopierGo, Copy, CopyFails, CopyEnds, Send, SendTimesOut, Quiet, OutputStep
  <2>2. CASE c = d /\ Copy(c, s)
    BY <2>2 DEF Copy, Send, Moves, OutputStep
  <2>3. CASE c = d /\ (CopyFails(c, s) \/ CopyEnds(c, s))
    BY <2>3 DEF CopyFails, CopyEnds, SendTimesOut, StreamEnds, OutputStep
  <2> QED
    BY <1>4, <2>1, <2>2, <2>3 DEF CopierGo
<1>5. ASSUME NEW c \in Sessions, ForwarderGo(c) PROVE OutputStep(d)
  BY <1>5 DEF ForwarderGo, ForwardRead, ForwardWrite, ForwardWriteFails, ForwardEnd,
              Quiet, OutputStep
<1>6. ASSUME NEW c \in Sessions, ChildStep(c) PROVE OutputStep(d)
  <2>1. ASSUME NEW s \in Streams, ChildWrites(c, s) PROVE OutputStep(d)
    BY <2>1 DEF ChildWrites, Moves, Quiet, OutputStep
  <2> QED
    BY <1>6, <2>1 DEF ChildStep, ChildReads, ChildClosesStdin, ChildForks, ChildExits,
                      HelperExits, Quiet, OutputStep
<1>7. CASE DaemonExits \/ UNCHANGED vars
  BY <1>7 DEF DaemonExits, vars, Quiet, OutputStep
<1> QED
  BY <1>1, <1>2, <1>3, <1>4, <1>5, <1>6, <1>7 DEF Next

\* A step that is one of these for every session keeps the invariant.
LEMMA CompleteStep ==
  ASSUME TypeOK, TypeOK', CompleteInv, \A d \in Sessions : OutputStep(d)
  PROVE  CompleteInv'
<1> DEFINE Keeps(d) ==
      /\ \A s \in Streams : copier'[d][s] # "copying" => pipe'[d][s] = 0
      /\ handler'[d] \in {"none", "backlog", "reading"} =>
           \A s \in Streams : copier'[d][s] # "copying"
      /\ client'[d] \notin ClientEnd /\ ~writeFailed'[d] =>
           \A s \in Streams :
             produced'[d][s] = printed'[d][s] + InFlight(wire'[d], s) + pipe'[d][s]
      /\ \A i \in 1..Len(wire'[d]) :
           wire'[d][i] = "done-zero" => i = Len(wire'[d]) /\ Over(d)'
      /\ client'[d] = "success" => Over(d)'
      /\ client'[d] = "success" /\ ~writeFailed'[d] => printed'[d] = produced'[d]
<1> SUFFICES ASSUME NEW d \in Sessions PROVE Keeps(d)
  BY DEF CompleteInv, Drained, NotBegun, Accounted, FinalLast, SuccessOver, SuccessIsComplete
<1>1. /\ \A s \in Streams : copier[d][s] # "copying" => pipe[d][s] = 0
      /\ handler[d] \in {"none", "backlog", "reading"} =>
           \A s \in Streams : copier[d][s] # "copying"
      /\ client[d] \notin ClientEnd /\ ~writeFailed[d] =>
           \A s \in Streams :
             produced[d][s] = printed[d][s] + InFlight(wire[d], s) + pipe[d][s]
      /\ \A i \in 1..Len(wire[d]) :
           wire[d][i] = "done-zero" => i = Len(wire[d]) /\ Over(d)
      /\ client[d] = "success" => Over(d)
      /\ client[d] = "success" /\ ~writeFailed[d] => printed[d] = produced[d]
  BY DEF CompleteInv, Drained, NotBegun, Accounted, FinalLast, SuccessOver, SuccessIsComplete
<1>2. /\ wire[d] \in Seq(Replies)
      /\ printed[d] \in [Streams -> Nat] /\ pipe[d] \in [Streams -> Nat]
      /\ produced[d] \in [Streams -> Nat]
      /\ copier[d] \in [Streams -> {"off", "copying", "ended"}]
      /\ writeFailed[d] \in BOOLEAN /\ writeFailed'[d] \in BOOLEAN
  BY BrokerAssumption DEF TypeOK
<1>3. \A s \in Streams : InFlight(wire[d], s) \in Nat
  BY <1>2, InFlightType
<1>4. "success" \in ClientEnd /\ "waiting" \notin ClientEnd
  BY DEF ClientEnd
<1>5. CASE Quiet(d)
  <2>1. Over(d) => Over(d)'
    BY <1>5 DEF Quiet, OutputSame, Over
  <2> QED
    BY <1>1, <1>4, <1>5, <2>1 DEF Quiet, OutputSame
<1>6. CASE Leaves(d)
  <2>1. Over(d) => Over(d)'
    BY <1>6 DEF Leaves, OutputSame, Over
  <2>2. ASSUME client'[d] = "success" PROVE Over(d)
    BY <1>1, <1>2, <1>6, <2>2 DEF Leaves
  <2>3. ASSUME client'[d] = "success", ~writeFailed'[d] PROVE printed'[d] = produced'[d]
    <3>1. \A s \in Streams : InFlight(wire[d], s) = 0
      <4> SUFFICES ASSUME NEW s \in Streams PROVE InFlight(wire[d], s) = 0
        OBVIOUS
      <4>1. Len(wire[d]) = 1 /\ wire[d][1] = "done-zero"
        <5>1. wire[d] # <<>> /\ Head(wire[d]) = "done-zero"
          BY <1>6, <2>3 DEF Leaves
        <5>2. 1 \in 1..Len(wire[d]) /\ wire[d][1] = "done-zero"
          BY <1>2, <5>1
        <5> QED
          BY <1>1, <5>2
      <4>2. s # "done-zero"
        BY StreamAssumption DEF OtherReplies
      <4>3. {i \in 1..Len(wire[d]) : wire[d][i] = s} = {}
        BY <4>1, <4>2
      <4> QED
        BY <4>3, FS_EmptySet DEF InFlight
    <3>2. client[d] \notin ClientEnd /\ ~writeFailed[d]
      BY <1>6, <2>3 DEF Leaves, OutputSame, ClientOpen, ClientEnd
    <3>3. \A s \in Streams : pipe[d][s] = 0
      BY <1>1, <2>2, <2>3 DEF Over
    <3>4. \A s \in Streams : printed[d][s] = produced[d][s]
      BY <1>1, <1>2, <3>1, <3>2, <3>3
    <3> QED
      BY <1>2, <1>6, <3>4 DEF Leaves, OutputSame
  <2> QED
    BY <1>1, <1>6, <2>1, <2>2, <2>3 DEF Leaves, OutputSame
<1>7. CASE Starts(d)
  <2>1. ~Over(d) /\ client[d] # "success"
    BY <1>1, <1>7 DEF Starts, Over
  <2> QED
    BY <1>1, <1>7, <2>1 DEF Starts
<1>8. CASE Replied(d)
  <2>1. ~Over(d) /\ client[d] # "success"
    BY <1>1, <1>8 DEF Replied, Over
  <2>2. CASE wire'[d] = wire[d]
    BY <1>1, <1>8, <2>1, <2>2 DEF Replied, OutputSame
  <2>3. ASSUME NEW r \in OtherReplies, wire'[d] = Append(wire[d], r),
               r = "done-zero" => \A s \in Streams : copier[d][s] = "ended"
        PROVE  Keeps(d)
    <3>1. \A s \in Streams : InFlight(wire'[d], s) = InFlight(wire[d], s)
      <4> SUFFICES ASSUME NEW s \in Streams
                   PROVE  InFlight(wire'[d], s) = InFlight(wire[d], s)
        OBVIOUS
      <4>1. r # s /\ r \in Replies
        BY StreamAssumption DEF Replies
      <4>2. InFlight(Append(wire[d], r), s) = InFlight(wire[d], s) + 0
        BY <1>2, <4>1, InFlightAppend
      <4> QED
        BY <1>3, <2>3, <4>2
    <3>2. \A i \in 1..Len(wire'[d]) :
            wire'[d][i] = "done-zero" => i = Len(wire'[d]) /\ Over(d)'
      BY <1>1, <1>2, <1>8, <2>1, <2>3 DEF Replied, OutputSame, Over
    <3> QED
      BY <1>1, <1>8, <2>1, <3>1, <3>2 DEF Replied, OutputSame
  <2> QED
    BY <1>8, <2>2, <2>3 DEF Replied
<1>9. ASSUME NEW s \in Streams, Prints(d, s) PROVE Keeps(d)
  <2>1. Over(d) => Over(d)'
    BY <1>9 DEF Prints, Over
  <2>2. \A t \in Streams : InFlight(wire[d], t)
            = InFlight(wire'[d], t) + (IF s = t THEN 1 ELSE 0)
    BY <1>2, <1>9, InFlightTail DEF Prints
  <2>3. \A t \in Streams : InFlight(wire'[d], t) \in Nat
    BY InFlightType DEF TypeOK
  <2>4. \A t \in Streams : printed'[d][t] = printed[d][t] + (IF s = t THEN 1 ELSE 0)
    BY <1>2, <1>9 DEF Prints
  <2>5. ~writeFailed[d] => \A t \in Streams :
          produced'[d][t] = printed'[d][t] + InFlight(wire'[d], t) + pipe'[d][t]
    <3>1. ASSUME NEW t \in Streams, ~writeFailed[d]
          PROVE  produced[d][t] = printed[d][t] + InFlight(wire[d], t) + pipe[d][t]
      BY <1>1, <1>4, <1>9, <3>1 DEF Prints
    <3>2. \A t \in Streams : printed[d][t] \in Nat /\ pipe[d][t] \in Nat
      BY <1>2
    <3>3. produced'[d] = produced[d] /\ pipe'[d] = pipe[d]
      BY <1>9 DEF Prints
    <3> QED
      BY <2>2, <2>3, <2>4, <3>1, <3>2, <3>3
  <2>6. \A i \in 1..Len(wire'[d]) :
          wire'[d][i] = "done-zero" => i = Len(wire'[d]) /\ Over(d)'
    BY <1>1, <1>2, <1>9, <2>1 DEF Prints
  <2> QED
    BY <1>1, <1>9, <2>1, <2>5, <2>6 DEF Prints
<1>10. ASSUME NEW s \in Streams, Moves(d, s) PROVE Keeps(d)
  <2>1. ~Over(d) /\ client[d] # "success"
    BY <1>1, <1>10 DEF Moves, Over
  <2>2. \A t \in Streams :
          /\ t # s => pipe'[d][t] = pipe[d][t]
          /\ copier'[d][t] # "copying" => t # s
    BY <1>2, <1>10 DEF Moves
  <2>3. \A t \in Streams :
          produced[d][t] = printed[d][t] + InFlight(wire[d], t) + pipe[d][t]
          => produced'[d][t] = printed'[d][t] + InFlight(wire'[d], t) + pipe'[d][t]
    <3> SUFFICES ASSUME NEW t \in Streams,
                        produced[d][t] = printed[d][t] + InFlight(wire[d], t) + pipe[d][t]
                 PROVE  produced'[d][t] = printed'[d][t] + InFlight(wire'[d], t) + pipe'[d][t]
      OBVIOUS
    <3>1. /\ printed[d][t] \in Nat /\ pipe[d][t] \in Nat /\ InFlight(wire[d], t) \in Nat
          /\ printed'[d] = printed[d]
      BY <1>2, <1>3, <1>10 DEF Moves
    <3>2. CASE wire'[d] = Append(wire[d], s) /\ produced'[d] = produced[d]
               /\ pipe[d][s] > 0 /\ pipe'[d] = [pipe[d] EXCEPT ![s] = @ - 1]
      <4>1. InFlight(wire'[d], t) = InFlight(wire[d], t) + (IF s = t THEN 1 ELSE 0)
        <5>1. s \in Replies
          BY DEF Replies
        <5>2. InFlight(Append(wire[d], s), t)
                = InFlight(wire[d], t) + (IF s = t THEN 1 ELSE 0)
          BY <1>2, <5>1, InFlightAppend
        <5> QED
          BY <3>2, <5>2
      <4>2. pipe'[d][t] = pipe[d][t] - (IF s = t THEN 1 ELSE 0)
        BY <1>2, <3>2
      <4>3. pipe[d][s] \in Nat /\ produced'[d][t] = produced[d][t]
        BY <1>2, <3>2
      <4>4. CASE s = t
        BY <3>1, <4>1, <4>2, <4>3, <4>4
      <4>5. CASE s # t
        BY <3>1, <4>1, <4>2, <4>3, <4>5
      <4> QED
        BY <4>4, <4>5
    <3>3. CASE wire'[d] = wire[d] /\ produced'[d] = [produced[d] EXCEPT ![s] = @ + 1]
               /\ pipe'[d] = [pipe[d] EXCEPT ![s] = @ + 1]
      <4>1. /\ produced[d][t] \in Nat
            /\ produced'[d][t] = produced[d][t] + (IF s = t THEN 1 ELSE 0)
            /\ pipe'[d][t] = pipe[d][t] + (IF s = t THEN 1 ELSE 0)
        BY <1>2, <3>3
      <4>2. CASE s = t
        BY <3>1, <3>3, <4>1, <4>2
      <4>3. CASE s # t
        BY <3>1, <3>3, <4>1, <4>3
      <4> QED
        BY <4>2, <4>3
    <3> QED
      BY <1>10, <3>2, <3>3 DEF Moves
  <2>4. \A i \in 1..Len(wire'[d]) : wire'[d][i] # "done-zero"
    <3>1. \A i \in 1..Len(wire[d]) : wire[d][i] # "done-zero"
      BY <1>1, <2>1
    <3>2. s # "done-zero"
      BY StreamAssumption DEF OtherReplies
    <3>3. wire'[d] = wire[d] \/ wire'[d] = Append(wire[d], s)
      BY <1>10 DEF Moves
    <3>4. ASSUME wire'[d] = Append(wire[d], s), NEW i \in 1..Len(wire'[d])
          PROVE  wire'[d][i] # "done-zero"
      <4>1. wire[d] \in Seq(Replies) /\ s \in Replies
        BY <1>2 DEF Replies
      <4>2. i \in 1..Len(wire[d]) \/ i = Len(wire[d]) + 1
        BY <3>4, <4>1
      <4>3. wire'[d][i] = IF i \in 1..Len(wire[d]) THEN wire[d][i] ELSE s
        BY <3>4, <4>1, <4>2
      <4> QED
        BY <3>1, <3>2, <4>3
    <3> QED
      BY <3>1, <3>3, <3>4
  <2> QED
    BY <1>1, <1>10, <2>1, <2>2, <2>3, <2>4 DEF Moves
<1>11. ASSUME NEW s \in Streams, StreamEnds(d, s) PROVE Keeps(d)
  <2>1. ~Over(d) /\ client[d] # "success"
    BY <1>1, <1>11 DEF StreamEnds, Over
  <2>2. \A t \in Streams :
          /\ t # s => pipe'[d][t] = pipe[d][t] /\ copier'[d][t] = copier[d][t]
          /\ pipe'[d][s] = 0 /\ copier'[d][s] = "ended"
    BY <1>2, <1>11 DEF StreamEnds
  <2>3. ~writeFailed'[d] => ~writeFailed[d] /\ pipe'[d] = pipe[d] /\ wire'[d] = wire[d]
    BY <1>11 DEF StreamEnds
  <2>4. \A i \in 1..Len(wire'[d]) : wire'[d][i] # "done-zero"
    <3>1. \A i \in 1..Len(wire[d]) : wire[d][i] # "done-zero"
      BY <1>1, <2>1
    <3>2. wire'[d] \in {wire[d], Append(wire[d], "partial")}
      BY <1>11 DEF StreamEnds
    <3> QED
      BY <1>2, <3>1, <3>2
  <2> QED
    BY <1>1, <1>11, <2>1, <2>2, <2>3, <2>4 DEF StreamEnds
<1> HIDE DEF Keeps
<1> QED
  BY <1>5, <1>6, <1>7, <1>8, <1>9, <1>10, <1>11 DEF OutputStep

\* A client that reports success has printed all the output, unless a write of
\* it failed: bockerControlOutputStream, outputWG.Wait and the final reply
\* after it.
THEOREM SuccessComplete == Spec => []SuccessIsComplete
<1>1. Init => Unstarted /\ CompleteInv
  <2> SUFFICES ASSUME Init PROVE Unstarted /\ CompleteInv
    OBVIOUS
  <2>1. Unstarted
    BY DEF Init, Unstarted
  <2>2. Drained /\ NotBegun /\ FinalLast /\ SuccessOver /\ SuccessIsComplete
    BY DEF Init, Drained, NotBegun, FinalLast, SuccessOver, SuccessIsComplete
  <2>3. Accounted
    BY InFlightEmpty DEF Init, Accounted
  <2> QED
    BY <2>1, <2>2, <2>3 DEF CompleteInv
<1>2. TypeOK /\ TypeOK' /\ Unstarted /\ CompleteInv /\ [Next]_vars => (Unstarted /\ CompleteInv)'
  BY ChildStable, OutputSteps, CompleteStep
<1>3. CompleteInv => SuccessIsComplete
  BY DEF CompleteInv
<1> QED
  BY <1>1, <1>2, <1>3, TypeCorrect, PTL DEF Spec

-----------------------------------------------------------------------------
(* The broker implements RemoteCommand.  Beside the invariants above this   *)
(* needs that only a request starts a command, and that what was printed    *)
(* had been written.                                                        *)

\* Who has not asked has no command, who waits to be served was not answered.
Asked ==
  \A c \in Sessions :
    /\ client[c] \in {"connected", "withdrew"} => child[c] = "none"
    /\ up /\ handler[c] \in {"backlog", "reading"} => client[c] \in ClientOpen \cup {"withdrew", "gone"}
    /\ handler[c] \in {"none", "backlog", "reading"} => wire[c] = <<>>
    /\ helper[c] => child[c] # "none"
    /\ \A s \in Streams : copier[c][s] = "copying" => child[c] # "none"

\* What was written to a stream covers what is printed, in flight and in the pipe.
Covered ==
  \A c \in Sessions, s \in Streams :
    printed[c][s] + InFlight(wire[c], s) + pipe[c][s] <= produced[c][s]

\* No step answers a client before it is served or starts an unasked command.
LEMMA AskedStep ==
  ASSUME TypeOK, Unstarted, Asked, [Next]_vars
  PROVE  Asked'
<1> USE DEF TypeOK, Unstarted, Asked, clientVars, inputVars, outputVars, procVars, slotVars,
            HandlerStep, ClientOpen, ClientEnd, ChildExited
<1>1. ASSUME NEW c \in Sessions, ClientStep(c) PROVE Asked'
  <2>1. CASE Dial(c) BY <2>1 DEF Dial
  <2>2. CASE DialFails(c) BY <2>2 DEF DialFails
  <2>3. CASE SendRequest(c) BY <2>3 DEF SendRequest, Leave, ServerClosed
  <2>4. CASE TypeInput(c) BY <2>4 DEF TypeInput
  <2>5. CASE ReceiveOutput(c) BY <2>5 DEF ReceiveOutput
  <2>6. CASE ReceiveEnd(c) BY <2>6 DEF ReceiveEnd, Leave, ServerClosed
  <2>7. CASE Disconnect(c) BY <2>7 DEF Disconnect, Leave, Attached
  <2> QED
    BY <1>1, <2>1, <2>2, <2>3, <2>4, <2>5, <2>6, <2>7 DEF ClientStep
<1>2. ASSUME NEW c \in Sessions, AcceptStep(c) PROVE Asked'
  BY <1>2 DEF AcceptStep, Admit, Busy, Send
<1>3. ASSUME NEW c \in Sessions, HandlerGo(c) PROVE Asked'
  <2>1. CASE StartCommand(c) BY <2>1 DEF StartCommand
  <2>2. CASE Reply(c) BY <2>2 DEF Reply, WriteReply, Send, SendTimesOut
  <2>3. CASE ~StartCommand(c) /\ ~Reply(c)
    BY <1>3, <2>3 DEF HandlerGo, Refuse, Reap, CloseInput, Release
  <2> QED
    BY <2>1, <2>2, <2>3
<1>4. ASSUME NEW c \in Sessions, NEW s \in Streams, CopierGo(c, s) PROVE Asked'
  <2>1. CASE Copy(c, s) BY <2>1 DEF Copy, Send
  <2>2. CASE CopyFails(c, s) BY <2>2 DEF CopyFails, SendTimesOut, KillGroup
  <2>3. CASE CopyEnds(c, s) BY <2>3 DEF CopyEnds
  <2> QED
    BY <1>4, <2>1, <2>2, <2>3 DEF CopierGo
<1>5. ASSUME NEW c \in Sessions, ForwarderGo(c) PROVE Asked'
  <2>1. \/ UNCHANGED procVars
        \/ KillGroup(c)
    BY <1>5 DEF ForwarderGo, ForwardRead, ForwardWrite, ForwardWriteFails, ForwardEnd
  <2>2. UNCHANGED <<client, up, handler, wire, copier>>
    BY <1>5 DEF ForwarderGo, ForwardRead, ForwardWrite, ForwardWriteFails, ForwardEnd
  <2>3. /\ \A d \in Sessions : child[d] = "none" <=> child'[d] = "none"
        /\ \A d \in Sessions : helper'[d] => helper[d]
    <3>1. CASE UNCHANGED procVars BY <3>1
    <3>2. CASE KillGroup(c)
      <4>1. /\ child' = [child EXCEPT ![c] = IF @ = "running" THEN "killed" ELSE @]
            /\ helper' = [helper EXCEPT ![c] = FALSE]
        BY <3>2 DEF KillGroup
      <4> QED
        BY <4>1
    <3> QED
      BY <2>1, <3>1, <3>2
  <2> QED
    BY <2>2, <2>3
<1>6. ASSUME NEW c \in Sessions, ChildStep(c) PROVE Asked'
  BY <1>6 DEF ChildStep, ChildWrites, ChildReads, ChildClosesStdin, ChildForks,
              ChildExits, HelperExits
<1>7. CASE DaemonExits BY <1>7 DEF DaemonExits
<1>8. CASE UNCHANGED vars BY <1>8 DEF vars
<1> QED
  BY <1>1, <1>2, <1>3, <1>4, <1>5, <1>6, <1>7, <1>8 DEF Next

\* No step prints, sends or buffers a chunk that was not written.
LEMMA CoveredStep ==
  ASSUME TypeOK, TypeOK', Covered, \A d \in Sessions : OutputStep(d)
  PROVE  Covered'
<1> SUFFICES ASSUME NEW d \in Sessions, NEW t \in Streams
             PROVE  printed'[d][t] + InFlight(wire'[d], t) + pipe'[d][t] <= produced'[d][t]
  BY DEF Covered
<1>1. /\ wire[d] \in Seq(Replies)
      /\ printed[d] \in [Streams -> Nat] /\ pipe[d] \in [Streams -> Nat]
      /\ produced[d] \in [Streams -> Nat]
      /\ InFlight(wire[d], t) \in Nat
      /\ printed[d][t] + InFlight(wire[d], t) + pipe[d][t] <= produced[d][t]
  <2>1. wire[d] \in Seq(Replies)
    BY DEF TypeOK
  <2>2. printed[d] \in [Streams -> Nat] /\ pipe[d] \in [Streams -> Nat]
    BY DEF TypeOK
  <2>3. produced[d] \in [Streams -> Nat]
    <3>1. 0..MaxOutput \subseteq Nat
      BY BrokerAssumption
    <3> QED
      BY <3>1 DEF TypeOK
  <2>4. printed[d][t] + InFlight(wire[d], t) + pipe[d][t] <= produced[d][t]
    BY DEF Covered
  <2> QED
    BY <2>1, <2>2, <2>3, <2>4, InFlightType
<1>2. printed[d][t] \in Nat /\ pipe[d][t] \in Nat /\ produced[d][t] \in Nat
  BY <1>1
<1>3. ASSUME NEW r \in OtherReplies
      PROVE  InFlight(Append(wire[d], r), t) = InFlight(wire[d], t)
  <2>1. r # t /\ r \in Replies
    BY StreamAssumption DEF Replies
  <2>2. InFlight(Append(wire[d], r), t) = InFlight(wire[d], t) + 0
    BY <1>1, <2>1, InFlightAppend
  <2> QED
    BY <1>1, <2>2
<1>4. CASE Quiet(d) \/ Starts(d)
  BY <1>1, <1>4 DEF Quiet, Starts, OutputSame
<1>5. CASE Leaves(d)
  <2>1. InFlight(wire'[d], t) = 0
    BY <1>5, InFlightEmpty DEF Leaves
  <2> QED
    BY <1>1, <1>2, <1>5, <2>1 DEF Leaves, OutputSame
<1>6. CASE Replied(d)
  BY <1>1, <1>3, <1>6 DEF Replied, OutputSame
<1>7. ASSUME NEW s \in Streams, Prints(d, s)
      PROVE  printed'[d][t] + InFlight(wire'[d], t) + pipe'[d][t] <= produced'[d][t]
  <2>1. InFlight(wire[d], t) = InFlight(wire'[d], t) + (IF s = t THEN 1 ELSE 0)
    BY <1>1, <1>7, InFlightTail DEF Prints
  <2>2. InFlight(wire'[d], t) \in Nat
    BY InFlightType DEF TypeOK
  <2>3. printed'[d][t] = printed[d][t] + (IF s = t THEN 1 ELSE 0)
    BY <1>1, <1>7 DEF Prints
  <2>4. pipe'[d][t] = pipe[d][t] /\ produced'[d][t] = produced[d][t]
    BY <1>7 DEF Prints
  <2>5. CASE s = t
    <3>1. InFlight(wire[d], t) = InFlight(wire'[d], t) + 1 /\ printed'[d][t] = printed[d][t] + 1
      BY <2>1, <2>3, <2>5
    <3>2. printed[d][t] + (InFlight(wire'[d], t) + 1) + pipe[d][t] <= produced[d][t]
      BY <1>1, <3>1
    <3> QED
      BY <1>2, <2>2, <2>4, <3>1, <3>2
  <2>6. CASE s # t BY <1>1, <1>2, <2>1, <2>2, <2>3, <2>4, <2>6
  <2> QED
    BY <2>5, <2>6
<1>8. ASSUME NEW s \in Streams, Moves(d, s)
      PROVE  printed'[d][t] + InFlight(wire'[d], t) + pipe'[d][t] <= produced'[d][t]
  <2>1. printed'[d] = printed[d]
    BY <1>8 DEF Moves
  <2>2. CASE wire'[d] = Append(wire[d], s) /\ produced'[d] = produced[d]
             /\ pipe[d][s] > 0 /\ pipe'[d] = [pipe[d] EXCEPT ![s] = @ - 1]
    <3>1. InFlight(Append(wire[d], s), t) = InFlight(wire[d], t) + (IF s = t THEN 1 ELSE 0)
      <4>1. s \in Replies
        BY DEF Replies
      <4> QED
        BY <1>1, <4>1, InFlightAppend
    <3>2. pipe'[d][t] = pipe[d][t] - (IF s = t THEN 1 ELSE 0)
      BY <1>1, <2>2
    <3>3. CASE s = t BY <1>1, <1>2, <2>1, <2>2, <3>1, <3>2, <3>3
    <3>4. CASE s # t BY <1>1, <1>2, <2>1, <2>2, <3>1, <3>2, <3>4
    <3> QED
      BY <3>3, <3>4
  <2>3. CASE wire'[d] = wire[d] /\ produced'[d] = [produced[d] EXCEPT ![s] = @ + 1]
             /\ pipe'[d] = [pipe[d] EXCEPT ![s] = @ + 1]
    <3>1. /\ produced'[d][t] = produced[d][t] + (IF s = t THEN 1 ELSE 0)
          /\ pipe'[d][t] = pipe[d][t] + (IF s = t THEN 1 ELSE 0)
      BY <1>1, <2>3
    <3>2. CASE s = t BY <1>1, <1>2, <2>1, <2>3, <3>1, <3>2
    <3>3. CASE s # t BY <1>1, <1>2, <2>1, <2>3, <3>1, <3>3
    <3> QED
      BY <3>2, <3>3
  <2> QED
    BY <1>8, <2>2, <2>3 DEF Moves
<1>9. ASSUME NEW s \in Streams, StreamEnds(d, s)
      PROVE  printed'[d][t] + InFlight(wire'[d], t) + pipe'[d][t] <= produced'[d][t]
  <2>1. printed'[d] = printed[d] /\ produced'[d] = produced[d]
    BY <1>9 DEF StreamEnds
  <2>2. InFlight(wire'[d], t) = InFlight(wire[d], t)
    BY <1>3, <1>9 DEF StreamEnds, OtherReplies
  <2>3. pipe'[d][t] \in {0, pipe[d][t]}
    BY <1>1, <1>9 DEF StreamEnds
  <2>4. pipe'[d][t] <= pipe[d][t] /\ pipe'[d][t] \in Nat
    BY <1>2, <2>3
  <2>5. printed[d][t] + InFlight(wire[d], t) + pipe'[d][t] <= produced[d][t]
    <3>1. \A a, b, p, q, r \in Nat : a + b + p <= r /\ q <= p => a + b + q <= r
      OBVIOUS
    <3> QED
      BY <1>1, <1>2, <2>4, <3>1
  <2> QED
    BY <2>1, <2>2, <2>5
<1> QED
  BY <1>4, <1>5, <1>6, <1>7, <1>8, <1>9 DEF OutputStep

\* The invariant of the refinement.
PromiseInv == Unstarted /\ TruthInv /\ CompleteInv /\ Asked /\ Covered

\* It holds in every reachable state.
LEMMA PromiseInvariant == Spec => []PromiseInv
<1>1. Init => PromiseInv
  <2> SUFFICES ASSUME Init PROVE PromiseInv
    OBVIOUS
  <2>1. Unstarted /\ TruthInv
    BY DEF Init, Unstarted, TruthInv, WireTruthful, SuccessIsTruthful
  <2>2. Drained /\ NotBegun /\ FinalLast /\ SuccessOver /\ SuccessIsComplete
    BY DEF Init, Drained, NotBegun, FinalLast, SuccessOver, SuccessIsComplete
  <2>3. Accounted /\ Covered
    BY InFlightEmpty DEF Init, Accounted, Covered
  <2>4. Asked
    BY DEF Init, Asked
  <2> QED
    BY <2>1, <2>2, <2>3, <2>4 DEF CompleteInv, PromiseInv
<1>2. TypeOK /\ TypeOK' /\ PromiseInv /\ [Next]_vars => PromiseInv'
  BY ChildStable, TruthStep, OutputSteps, CompleteStep, AskedStep, CoveredStep DEF PromiseInv
<1> QED
  BY <1>1, <1>2, TypeCorrect, PTL DEF Spec

\* A session whose client only changes places that mean the same to its caller.
LEMMA CallerOf ==
  ASSUME TypeOK, NEW c \in Sessions, NEW how \in {"idle"} \cup ClientOpen \cup ClientEnd,
         client' = [client EXCEPT ![c] = how]
  PROVE  Caller' = [Caller EXCEPT ![c] =
           CASE how \in {"idle", "connected", "withdrew"} -> "idle"
             [] how = "waiting" -> "calling"
             [] how = "gone" -> "left"
             [] how \in {"success", "failure"} -> how]
<1> DEFINE As(x) == CASE x \in {"idle", "connected", "withdrew"} -> "idle"
                         [] x = "waiting" -> "calling"
                         [] x = "gone" -> "left"
                         [] x \in {"success", "failure"} -> x
<1>1. Caller = [d \in Sessions |-> As(client[d])] /\ Caller' = [d \in Sessions |-> As(client'[d])]
  BY DEF Caller
<1>2. \A d \in Sessions : client'[d] = IF d = c THEN how ELSE client[d]
  BY DEF TypeOK
<1> HIDE DEF As
<1>3. Caller' = [Caller EXCEPT ![c] = As(how)]
  BY <1>1, <1>2
<1> QED
  BY <1>3 DEF As

\* What the client does is a step of the caller, or none.
LEMMA ClientPromise ==
  ASSUME TypeOK, TypeOK', PromiseInv, PromiseInv', NEW c \in Sessions, ClientStep(c)
  PROVE  [Promise!Next]_(Promise!vars)
<1> USE DEF clientVars, inputVars, outputVars, procVars, slotVars, ClientOpen, ClientEnd
<1> DEFINE Same == UNCHANGED <<child, writeFailed, produced, printed>>
<1>1. /\ Caller \in [Sessions -> {"idle", "calling", "left", "success", "failure"}]
      /\ Caller[c] = CASE client[c] \in {"idle", "connected", "withdrew"} -> "idle"
                       [] client[c] = "waiting" -> "calling"
                       [] client[c] = "gone" -> "left"
                       [] client[c] \in {"success", "failure"} -> client[c]
  BY DEF TypeOK, Caller
<1>2. ASSUME Same, Caller' = Caller PROVE [Promise!Next]_(Promise!vars)
  BY <1>2 DEF Promise!vars
<1>3. ASSUME Same, Caller' = [Caller EXCEPT ![c] = "failure"], Caller[c] \in {"idle", "calling"}
      PROVE  [Promise!Next]_(Promise!vars)
  BY <1>3 DEF Promise!Next, Promise!Fail
<1>4. CASE Dial(c)
  <2>1. Caller' = [Caller EXCEPT ![c] = "idle"] /\ Caller[c] = "idle"
    BY <1>1, <1>4, CallerOf DEF Dial
  <2> QED
    BY <1>1, <1>2, <1>4, <2>1 DEF Dial
<1>5. CASE DialFails(c)
  <2>1. Caller' = [Caller EXCEPT ![c] = "failure"] /\ Caller[c] = "idle"
    BY <1>1, <1>5, CallerOf DEF DialFails
  <2> QED
    BY <1>3, <1>5, <2>1 DEF DialFails
<1>6. CASE SendRequest(c)
  <2>1. Same /\ Caller[c] = "idle"
    BY <1>1, <1>6 DEF SendRequest
  <2>2. CASE client' = [client EXCEPT ![c] = "waiting"]
    <3>1. Caller' = [Caller EXCEPT ![c] = "calling"]
      BY <2>2, CallerOf
    <3> QED
      BY <2>1, <3>1 DEF Promise!Next, Promise!Call
  <2>3. CASE client' = [client EXCEPT ![c] = "failure"]
    <3>1. Caller' = [Caller EXCEPT ![c] = "failure"]
      BY <2>3, CallerOf
    <3> QED
      BY <1>3, <2>1, <3>1
  <2> QED
    BY <1>6, <2>2, <2>3 DEF SendRequest, Leave
<1>7. CASE TypeInput(c)
  <2>1. Same /\ Caller' = Caller
    BY <1>7 DEF TypeInput, Caller
  <2> QED
    BY <1>2, <2>1
<1>8. CASE ReceiveOutput(c)
  <2> DEFINE s == Head(wire[c])
  <2>1. /\ s \in Streams /\ Caller[c] = "calling" /\ Caller' = Caller
        /\ printed' = [printed EXCEPT ![c][s] = @ + 1]
        /\ UNCHANGED <<child, writeFailed, produced>>
    BY <1>1, <1>8 DEF ReceiveOutput, Caller
  <2>2. printed'[c][s] <= produced'[c][s]
    <3>1. printed'[c][s] \in Nat /\ pipe'[c][s] \in Nat
      BY <2>1 DEF TypeOK
    <3>2. produced'[c][s] \in 0..MaxOutput /\ wire'[c] \in Seq(Replies)
      BY <2>1 DEF TypeOK
    <3>3. InFlight(wire'[c], s) \in Nat /\ produced'[c][s] \in Nat
      BY <2>1, <3>2, BrokerAssumption, InFlightType
    <3>4. printed'[c][s] + InFlight(wire'[c], s) + pipe'[c][s] <= produced'[c][s]
      BY <2>1 DEF PromiseInv, Covered
    <3> QED
      BY <3>1, <3>3, <3>4
  <2>3. printed'[c][s] = printed[c][s] + 1
    BY <2>1 DEF TypeOK
  <2>4. printed[c][s] < produced[c][s]
    <3>1. printed[c][s] \in Nat /\ produced[c][s] \in 0..MaxOutput
      BY <2>1 DEF TypeOK
    <3>2. produced[c][s] \in Nat
      BY <3>1, BrokerAssumption
    <3> QED
      BY <2>1, <2>2, <2>3, <3>1, <3>2
  <2> QED
    BY <2>1, <2>4 DEF Promise!Next, Promise!Show
<1>9. CASE ReceiveEnd(c)
  <2>1. Same /\ Caller[c] = "calling"
    BY <1>1, <1>9 DEF ReceiveEnd
  <2>2. CASE client' = [client EXCEPT ![c] = "success"]
    <3>1. Caller' = [Caller EXCEPT ![c] = "success"]
      BY <2>2, CallerOf
    <3>2. client'[c] = "success"
      BY <2>2 DEF TypeOK
    <3>3. child[c] = "ok" /\ (writeFailed[c] \/ printed[c] = produced[c])
      BY <2>1, <3>2 DEF PromiseInv, TruthInv, CompleteInv, SuccessIsTruthful, SuccessIsComplete
    <3> QED
      BY <2>1, <3>1, <3>3 DEF Promise!Next, Promise!Succeed
  <2>3. CASE client' = [client EXCEPT ![c] = "failure"]
    <3>1. Caller' = [Caller EXCEPT ![c] = "failure"]
      BY <2>3, CallerOf
    <3> QED
      BY <1>3, <2>1, <3>1
  <2> QED
    BY <1>9, <2>2, <2>3 DEF ReceiveEnd, Leave
<1>10. CASE Disconnect(c)
  <2>1. CASE client[c] = "waiting"
    <3>1. Caller' = [Caller EXCEPT ![c] = "left"] /\ Caller[c] = "calling"
      BY <1>1, <1>10, <2>1, CallerOf DEF Disconnect, Leave
    <3> QED
      BY <1>10, <3>1 DEF Disconnect, Promise!Next, Promise!Leave
  <2>2. CASE client[c] # "waiting"
    <3>1. Caller' = [Caller EXCEPT ![c] = "idle"] /\ Caller[c] = "idle"
      BY <1>1, <1>10, <2>2, CallerOf DEF Disconnect, Leave, Attached
    <3> QED
      BY <1>1, <1>2, <1>10, <3>1 DEF Disconnect
  <2> QED
    BY <2>1, <2>2
<1> QED
  BY <1>4, <1>5, <1>6, <1>7, <1>8, <1>9, <1>10 DEF ClientStep

\* What the server does is a step of the command, or none.
LEMMA ServerPromise ==
  ASSUME TypeOK, PromiseInv, UNCHANGED <<client, printed>>, NEW c \in Sessions,
         \/ AcceptStep(c) \/ HandlerGo(c) \/ ForwarderGo(c) \/ ChildStep(c)
         \/ \E s \in Streams : CopierGo(c, s)
  PROVE  [Promise!Next]_(Promise!vars)
<1> USE DEF inputVars, outputVars, procVars, slotVars
<1> DEFINE Stutter == UNCHANGED <<child, writeFailed, produced>>
<1>1. /\ Caller' = Caller
      /\ Caller[c] = CASE client[c] \in {"idle", "connected", "withdrew"} -> "idle"
                       [] client[c] = "waiting" -> "calling"
                       [] client[c] = "gone" -> "left"
                       [] client[c] \in {"success", "failure"} -> client[c]
      /\ client[c] \in {"idle"} \cup ClientOpen \cup ClientEnd
  <2>1. Caller' = Caller
    BY DEF Caller
  <2>2. client[c] \in {"idle"} \cup ClientOpen \cup ClientEnd
    BY DEF TypeOK
  <2> QED
    BY <2>1, <2>2 DEF Caller
<1>2. CASE Stutter
  BY <1>1, <1>2 DEF Promise!vars
<1>3. AcceptStep(c) => Stutter
  BY DEF AcceptStep, Admit, Busy
<1>4. CASE HandlerGo(c)
  <2>1. CASE StartCommand(c)
    <3>1. child[c] = "none" /\ client[c] \in {"waiting", "gone"}
      BY <2>1 DEF StartCommand, HandlerStep, PromiseInv, Unstarted, Asked, ClientOpen
    <3>2. Caller[c] \in {"calling", "left"}
      BY <1>1, <3>1
    <3> QED
      BY <1>1, <2>1, <3>1, <3>2 DEF StartCommand, Promise!Next, Promise!Start
  <2>2. ~StartCommand(c) => Stutter
    BY <1>4 DEF HandlerGo, Refuse, Reap, CloseInput, Reply, Release
  <2> QED
    BY <1>2, <2>1, <2>2
<1>5. ASSUME NEW s \in Streams, CopierGo(c, s) PROVE [Promise!Next]_(Promise!vars)
  <2>1. CASE CopyFails(c, s)
    <3>1. /\ writeFailed' = [writeFailed EXCEPT ![c] = TRUE] /\ child[c] # "none"
          /\ produced' = produced
      BY <2>1 DEF CopyFails, PromiseInv, Asked
    <3>2. CASE writeFailed[c]
      <4>1. writeFailed' = writeFailed /\ child' = child
        BY <2>1, <3>1, <3>2 DEF CopyFails, TypeOK
      <4> QED
        BY <1>2, <3>1, <4>1
    <3>3. CASE ~writeFailed[c]
      <4>1. child' = [child EXCEPT ![c] = IF @ = "running" THEN "killed" ELSE @]
        BY <2>1, <3>3 DEF CopyFails, KillGroup
      <4> QED
        BY <1>1, <3>1, <3>3, <4>1 DEF Promise!Next, Promise!Cut
    <3> QED
      BY <3>2, <3>3
  <2>2. ~CopyFails(c, s) => Stutter
    BY <1>5 DEF CopierGo, Copy, CopyEnds
  <2> QED
    BY <1>2, <2>1, <2>2
<1>6. CASE ForwarderGo(c)
  <2>1. CASE Stutter BY <1>2, <2>1
  <2>2. CASE ~Stutter
    <3>1. /\ ForwardEnd(c) /\ ~InputClosed(c) /\ KillGroup(c) /\ ~Attached(c)
          /\ UNCHANGED <<writeFailed, produced>>
      BY <1>6, <2>2 DEF ForwarderGo, ForwardRead, ForwardWrite, ForwardWriteFails, ForwardEnd
    <3>2. child[c] = "running" /\ child' = [child EXCEPT ![c] = "killed"]
      BY <2>2, <3>1 DEF KillGroup, TypeOK
    <3>3. client[c] \in {"gone", "failure"}
      BY <1>1, <3>1, <3>2 DEF Attached, ClientOpen, ClientEnd, PromiseInv, Unstarted, Asked,
                              TruthInv, SuccessIsTruthful
    <3>4. Caller[c] \in {"left", "failure"}
      BY <1>1, <3>3
    <3> QED
      BY <1>1, <3>1, <3>2, <3>4 DEF Promise!Next, Promise!Kill
  <2> QED
    BY <2>1, <2>2
<1>7. CASE ChildStep(c)
  <2>1. ASSUME NEW s \in Streams, ChildWrites(c, s) PROVE [Promise!Next]_(Promise!vars)
    <3>1. /\ produced' = [produced EXCEPT ![c][s] = @ + 1] /\ child[c] # "none"
          /\ UNCHANGED <<child, writeFailed>> /\ copier[c][s] = "copying"
      BY <2>1 DEF ChildWrites, PromiseInv, Asked
    <3>2. client[c] # "success"
      BY <3>1 DEF PromiseInv, CompleteInv, SuccessOver, Over
    <3>3. Caller[c] # "success"
      BY <1>1, <3>2 DEF ClientOpen, ClientEnd
    <3> QED
      BY <1>1, <3>1, <3>3 DEF Promise!Next, Promise!Write
  <2>2. CASE ChildExits(c)
    BY <1>1, <2>2 DEF ChildExits, Promise!Next, Promise!Finish
  <2>3. ChildReads(c) \/ ChildClosesStdin(c) \/ ChildForks(c) \/ HelperExits(c) => Stutter
    BY DEF ChildReads, ChildClosesStdin, ChildForks, HelperExits
  <2> QED
    BY <1>2, <1>7, <2>1, <2>2, <2>3 DEF ChildStep
<1> QED
  BY <1>2, <1>3, <1>4, <1>5, <1>6, <1>7

\* A step of the server leaves the client and what it printed alone.
LEMMA ServerSilent ==
  ASSUME NEW c \in Sessions,
         \/ AcceptStep(c) \/ HandlerGo(c) \/ ForwarderGo(c) \/ ChildStep(c)
         \/ \E s \in Streams : CopierGo(c, s)
  PROVE  UNCHANGED <<client, printed>>
<1> USE DEF clientVars
<1>1. AcceptStep(c) => UNCHANGED clientVars
  BY DEF AcceptStep, Admit, Busy
<1>2. HandlerGo(c) => UNCHANGED clientVars
  BY DEF HandlerGo, Refuse, StartCommand, Reap, CloseInput, Reply, Release
<1>3. ForwarderGo(c) => UNCHANGED clientVars
  BY DEF ForwarderGo, ForwardRead, ForwardWrite, ForwardWriteFails, ForwardEnd
<1>4. ChildStep(c) => UNCHANGED clientVars
  BY DEF ChildStep, ChildWrites, ChildReads, ChildClosesStdin, ChildForks, ChildExits, HelperExits
<1>5. ASSUME NEW s \in Streams, CopierGo(c, s) PROVE UNCHANGED clientVars
  BY <1>5 DEF CopierGo, Copy, CopyFails, CopyEnds
<1> QED
  BY <1>1, <1>2, <1>3, <1>4, <1>5

\* The control socket keeps the promise of RemoteCommand: a request runs its
\* command at most once and never after its client was told of a failure, and
\* the client is answered at most once, with success after everything.
THEOREM BrokerImplementsRemoteCommand == Spec => ImplementsRemoteCommand
<1>1. Init => Promise!Init
  BY DEF Init, Caller, Promise!Init, Promise!Nothing
<1>2. TypeOK /\ TypeOK' /\ PromiseInv /\ PromiseInv' /\ [Next]_vars
        => [Promise!Next]_(Promise!vars)
  <2> SUFFICES ASSUME TypeOK, TypeOK', PromiseInv, PromiseInv', [Next]_vars
               PROVE  [Promise!Next]_(Promise!vars)
    OBVIOUS
  <2>1. ASSUME NEW c \in Sessions, ClientStep(c) PROVE [Promise!Next]_(Promise!vars)
    BY <2>1, ClientPromise
  <2>2. ASSUME NEW c \in Sessions,
               \/ AcceptStep(c) \/ HandlerGo(c) \/ ForwarderGo(c) \/ ChildStep(c)
               \/ \E s \in Streams : CopierGo(c, s)
        PROVE  [Promise!Next]_(Promise!vars)
    BY <2>2, ServerPromise, ServerSilent
  <2>3. CASE DaemonExits \/ UNCHANGED vars
    <3>1. UNCHANGED <<client, child, writeFailed, produced, printed>>
      BY <2>3 DEF DaemonExits, vars, clientVars, outputVars, procVars
    <3> QED
      BY <3>1 DEF Promise!vars, Caller
  <2> QED
    BY <2>1, <2>2, <2>3 DEF Next
<1> QED
  BY <1>1, <1>2, TypeCorrect, PromiseInvariant, PTL DEF Spec, ImplementsRemoteCommand, Promise!Spec
=============================================================================
