---------------------------- MODULE ControlBroker ----------------------------
(***************************************************************************)
(* The control socket of the root daemon (internal/bocker/control_linux.go)*)
(* and the unprivileged client that forwards one command over it.          *)
(*                                                                         *)
(* A session is one connection: the client dials, sends one request,       *)
(* forwards its stdin and prints the replies; the server admits it through *)
(* a semaphore, starts the command in a process group of its own and runs  *)
(* one goroutine per output stream, one for the input, and the handler,    *)
(* which waits for the command.  A command on pipes has the streams stdout *)
(* and stderr, one on a pseudo terminal a single stream; the others of     *)
(* Streams have no goroutine and count as ended.                           *)
(* Output and input are counted in chunks, a chunk being what one Read     *)
(* returns; of its text only the stream it came from is kept, which the    *)
(* reply does not tell the client.                                         *)
(***************************************************************************)
EXTENDS Naturals, Sequences, FiniteSets

CONSTANTS
  Sessions,        \* client connections
  Streams,         \* output streams of a command
  Regimes,         \* [clients, streams, terminal, output, input]: who connects,
                   \* and on what, and how much each command writes to each
                   \* stream and reads
  MaxConnections,  \* controlMaxConnections
  WireCapacity,    \* replies the socket buffers towards the client
  StdinCapacity,   \* chunks the command's stdin buffers
  MaxOutput,       \* bound: chunks a command writes to a stream in any regime
  MaxInput         \* bound: chunks a client types in any regime

ASSUME BrokerAssumption ==
  /\ MaxConnections \in Nat \ {0}
  /\ WireCapacity \in Nat \ {0}
  /\ StdinCapacity \in Nat \ {0}
  /\ MaxOutput \in Nat
  /\ MaxInput \in Nat

ASSUME RegimeAssumption ==
  Regimes \subseteq [clients: SUBSET Sessions, streams: SUBSET Streams,
                     terminal: BOOLEAN, output: [Streams -> 0..MaxOutput],
                     input: 0..MaxInput]

VARIABLES
  regime,       \* the circumstances, fixed at the start
  up,           \* the daemon process lives
  client,       \* the client's end of a session, and how it ended
  typed,        \* chunks of stdin the client has forwarded so far
  sent,         \* of those, the ones the server has not read
  printed,      \* chunks of output the client has printed, by stream
  wire,         \* replies in flight to the client
  handler,      \* where the server's handler stands
  slots,        \* sessions holding a token of the connections channel
  forwarder,    \* the goroutine of forwardBockerControlInput
  writeInput,   \* its flag of that name
  copier,       \* the goroutines copying the streams
  writeFailed,  \* errorOnce of the output stream has fired
  child,        \* the command's process
  helper,       \* a descendant of it still holds its pipes
  stdin,        \* chunks in the command's stdin
  stdinOpen,    \* the command has not closed its stdin
  pipe,         \* chunks in each output stream
  produced      \* chunks the command has written in all, by stream

clientVars == <<client, typed, printed>>
inputVars  == <<sent, forwarder, writeInput, stdin, stdinOpen>>
outputVars == <<copier, writeFailed, pipe, produced>>
procVars   == <<child, helper>>
slotVars   == <<handler, slots>>
vars == <<regime, up, clientVars, wire, slotVars, inputVars, outputVars, procVars>>

\* Replies: output of a stream, garbage (a reply cut by a write deadline), and
\* the final reply with a zero or another exit code.
OtherReplies == {"partial", "done-zero", "done-nonzero"}
Replies == Streams \cup OtherReplies

ASSUME StreamAssumption == Streams \cap OtherReplies = {}

ClientOpen  == {"connected", "waiting"}
ClientEnd   == {"success", "failure", "withdrew", "gone"}
Serving     == {"reading", "refused", "running", "reaped", "draining", "closing"}
ChildExited == {"ok", "error", "killed"}

TypeOK ==
  /\ regime \in Regimes
  /\ up \in BOOLEAN
  /\ client \in [Sessions -> {"idle"} \cup ClientOpen \cup ClientEnd]
  /\ typed \in [Sessions -> 0..MaxInput]
  /\ sent \in [Sessions -> Nat]
  /\ printed \in [Sessions -> [Streams -> Nat]]
  /\ wire \in [Sessions -> Seq(Replies)]
  /\ handler \in [Sessions -> {"none", "backlog", "closed"} \cup Serving]
  /\ slots \in SUBSET Sessions
  /\ forwarder \in [Sessions -> {"off", "reading", "writing", "done"}]
  /\ writeInput \in [Sessions -> BOOLEAN]
  /\ copier \in [Sessions -> [Streams -> {"off", "copying", "ended"}]]
  /\ writeFailed \in [Sessions -> BOOLEAN]
  /\ child \in [Sessions -> {"none", "running"} \cup ChildExited]
  /\ helper \in [Sessions -> BOOLEAN]
  /\ stdin \in [Sessions -> 0..StdinCapacity]
  /\ stdinOpen \in [Sessions -> BOOLEAN]
  /\ pipe \in [Sessions -> [Streams -> Nat]]
  /\ produced \in [Sessions -> [Streams -> 0..MaxOutput]]

Init ==
  /\ regime \in Regimes
  /\ up = TRUE
  /\ client = [c \in Sessions |-> "idle"]
  /\ typed = [c \in Sessions |-> 0]
  /\ sent = [c \in Sessions |-> 0]
  /\ printed = [c \in Sessions |-> [s \in Streams |-> 0]]
  /\ wire = [c \in Sessions |-> <<>>]
  /\ handler = [c \in Sessions |-> "none"]
  /\ slots = {}
  /\ forwarder = [c \in Sessions |-> "off"]
  /\ writeInput = [c \in Sessions |-> TRUE]
  /\ copier = [c \in Sessions |-> [s \in Streams |-> "off"]]
  /\ writeFailed = [c \in Sessions |-> FALSE]
  /\ child = [c \in Sessions |-> "none"]
  /\ helper = [c \in Sessions |-> FALSE]
  /\ stdin = [c \in Sessions |-> 0]
  /\ stdinOpen = [c \in Sessions |-> TRUE]
  /\ pipe = [c \in Sessions |-> [s \in Streams |-> 0]]
  /\ produced = [c \in Sessions |-> [s \in Streams |-> 0]]

Attached(c) == client[c] \in ClientOpen
WireFull(c) == Len(wire[c]) >= WireCapacity
ServerClosed(c) == ~up \/ handler[c] = "closed"

\* processDone is closed, and with it the server's reading half.
InputClosed(c) == handler[c] \in {"draining", "closing", "closed"}

\* Somebody can still read the command's stdin.
StdinReader(c) == stdinOpen[c] /\ (child[c] = "running" \/ helper[c])

HandlerStep(c, from, to) ==
  /\ up
  /\ handler[c] = from
  /\ handler' = [handler EXCEPT ![c] = to]

\* killBockerCommand: SIGKILL to the command's process group.
KillGroup(c) ==
  /\ child' = [child EXCEPT ![c] = IF @ = "running" THEN "killed" ELSE @]
  /\ helper' = [helper EXCEPT ![c] = FALSE]

\* A reply written to the client: lost when the client has gone.
Send(c, reply) ==
  wire' = [wire EXCEPT ![c] = IF Attached(c) THEN Append(@, reply) ELSE @]

\* A write that meets its deadline on a full socket leaves part of the reply,
\* or nothing.
SendTimesOut(c) ==
  /\ Attached(c) /\ WireFull(c)
  /\ \/ wire' = [wire EXCEPT ![c] = Append(@, "partial")]
     \/ UNCHANGED wire

-----------------------------------------------------------------------------
(* The client: runPrivilegedBrokerCommand.                                 *)

Dial(c) ==
  /\ up /\ c \in regime.clients /\ client[c] = "idle"
  /\ client' = [client EXCEPT ![c] = "connected"]
  /\ handler' = [handler EXCEPT ![c] = "backlog"]
  /\ UNCHANGED <<regime, up, typed, printed, wire, slots, inputVars, outputVars, procVars>>

DialFails(c) ==
  /\ ~up /\ c \in regime.clients /\ client[c] = "idle"
  /\ client' = [client EXCEPT ![c] = "failure"]
  /\ UNCHANGED <<regime, up, typed, printed, wire, slotVars, inputVars, outputVars, procVars>>

\* The client leaves: its end of the socket closes and drops what was in flight.
Leave(c, how) ==
  /\ client' = [client EXCEPT ![c] = how]
  /\ wire' = [wire EXCEPT ![c] = <<>>]

SendRequest(c) ==
  /\ client[c] = "connected"
  /\ \/ /\ ~ServerClosed(c)
        /\ client' = [client EXCEPT ![c] = "waiting"]
        /\ UNCHANGED wire
     \/ ServerClosed(c) /\ Leave(c, "failure")
  /\ UNCHANGED <<regime, up, typed, printed, slotVars, inputVars, outputVars, procVars>>

TypeInput(c) ==
  /\ client[c] = "waiting" /\ ~ServerClosed(c) /\ typed[c] < regime.input
  /\ typed' = [typed EXCEPT ![c] = @ + 1]
  /\ sent' = [sent EXCEPT ![c] = @ + 1]
  /\ UNCHANGED <<regime, up, client, printed, wire, slotVars, forwarder, writeInput,
                 stdin, stdinOpen, outputVars, procVars>>

ReceiveOutput(c) ==
  /\ client[c] = "waiting" /\ wire[c] # <<>> /\ Head(wire[c]) \in Streams
  /\ printed' = [printed EXCEPT ![c][Head(wire[c])] = @ + 1]
  /\ wire' = [wire EXCEPT ![c] = Tail(@)]
  /\ UNCHANGED <<regime, up, client, typed, slotVars, inputVars, outputVars, procVars>>

\* The final reply, a reply that does not decode, or the end of the stream
\* before either: the client ends with the exit code, or with a failure.
ReceiveEnd(c) ==
  /\ client[c] = "waiting"
  /\ \/ wire[c] # <<>> /\ Head(wire[c]) = "done-zero" /\ Leave(c, "success")
     \/ /\ wire[c] # <<>> /\ Head(wire[c]) \in {"done-nonzero", "partial"}
        /\ Leave(c, "failure")
     \/ wire[c] = <<>> /\ ServerClosed(c) /\ Leave(c, "failure")
  /\ UNCHANGED <<regime, up, typed, printed, slotVars, inputVars, outputVars, procVars>>

\* The user closes the window or interrupts the client, after its request
\* went out or before.
Disconnect(c) ==
  /\ Attached(c)
  /\ Leave(c, IF client[c] = "waiting" THEN "gone" ELSE "withdrew")
  /\ UNCHANGED <<regime, up, typed, printed, slotVars, inputVars, outputVars, procVars>>

-----------------------------------------------------------------------------
(* Admission: serve.                                                       *)

Admit(c) ==
  /\ HandlerStep(c, "backlog", "reading")
  /\ Cardinality(slots) < MaxConnections
  /\ slots' = slots \cup {c}
  /\ UNCHANGED <<regime, up, clientVars, wire, inputVars, outputVars, procVars>>

\* Mutant: the handler goes on to serve the session it has just refused.
MutBusy(c) ==
  /\ HandlerStep(c, "backlog", "reading")
  /\ Cardinality(slots) >= MaxConnections
  /\ Send(c, "done-nonzero")
  /\ UNCHANGED <<regime, up, clientVars, slots, inputVars, outputVars, procVars>>

Busy(c) ==
  /\ HandlerStep(c, "backlog", "closed")
  /\ Cardinality(slots) >= MaxConnections
  /\ Send(c, "done-nonzero")
  /\ UNCHANGED <<regime, up, clientVars, slots, inputVars, outputVars, procVars>>

-----------------------------------------------------------------------------
(* The handler: handleBockerControlConnection and the run functions.       *)

\* The request did not arrive in time or at all, is malformed, or the command
\* did not start: a reply with exit code 1.
Refuse(c) ==
  /\ HandlerStep(c, "reading", "refused")
  /\ UNCHANGED <<regime, up, clientVars, wire, slots, inputVars, outputVars, procVars>>

StartCommand(c) ==
  /\ client[c] \notin {"connected", "withdrew"}
  /\ HandlerStep(c, "reading", "running")
  /\ child' = [child EXCEPT ![c] = "running"]
  /\ forwarder' = [forwarder EXCEPT ![c] = "reading"]
  /\ copier' = [copier EXCEPT ![c] = [s \in Streams |->
                                     IF s \in regime.streams THEN "copying" ELSE "ended"]]
  /\ UNCHANGED <<regime, up, clientVars, wire, slots, sent, writeInput, stdin, stdinOpen,
                 writeFailed, pipe, produced, helper>>

\* Process.Wait returns.
Reap(c) ==
  /\ HandlerStep(c, "running", "reaped")
  /\ child[c] \in ChildExited
  /\ UNCHANGED <<regime, up, clientVars, wire, slots, inputVars, outputVars, procVars>>

\* close(processDone), closeBockerControlInput, stdin.Close or slave.Close.
CloseInput(c) ==
  /\ HandlerStep(c, "reaped", "draining")
  /\ UNCHANGED <<regime, up, clientVars, wire, slots, inputVars, outputVars, procVars>>

\* Mutant: the handler waits for the input goroutine alone.
MutGoroutinesDone(c) == forwarder[c] = "done"

\* outputWG.Wait
GoroutinesDone(c) ==
  /\ forwarder[c] = "done"
  /\ \A s \in Streams : copier[c][s] = "ended"

\* Mutant: only an exit code of the command's own counts as a failure.
MutExitReply(c) == IF child[c] = "error" THEN "done-nonzero" ELSE "done-zero"

\* The exit code of the final reply; a command killed by a signal has -1.
ExitReply(c) == IF child[c] = "ok" THEN "done-zero" ELSE "done-nonzero"

WriteReply(c, reply) ==
  \/ Send(c, reply) /\ (Attached(c) => ~WireFull(c))
  \/ SendTimesOut(c)

Reply(c) ==
  /\ \/ HandlerStep(c, "refused", "closing") /\ WriteReply(c, "done-nonzero")
     \/ /\ HandlerStep(c, "draining", "closing")
        /\ GoroutinesDone(c)
        /\ WriteReply(c, ExitReply(c))
  /\ UNCHANGED <<regime, up, clientVars, slots, inputVars, outputVars, procVars>>

\* Mutant: the token is not given back.
MutRelease(c) ==
  /\ HandlerStep(c, "closing", "closed")
  /\ UNCHANGED <<regime, up, clientVars, wire, slots, inputVars, outputVars, procVars>>

\* connection.Close, then the deferred receive from the connections channel.
Release(c) ==
  /\ HandlerStep(c, "closing", "closed")
  /\ slots' = slots \ {c}
  /\ UNCHANGED <<regime, up, clientVars, wire, inputVars, outputVars, procVars>>

-----------------------------------------------------------------------------
(* The output goroutines: io.Copy into bockerControlOutputStream.Write.    *)

Copy(c, s) ==
  /\ up /\ copier[c][s] = "copying" /\ pipe[c][s] > 0
  /\ Attached(c) /\ ~WireFull(c)
  /\ Send(c, s)
  /\ pipe' = [pipe EXCEPT ![c][s] = @ - 1]
  /\ UNCHANGED <<regime, up, clientVars, slotVars, inputVars, copier, writeFailed, produced,
                 procVars>>

\* A failed write ends the copy and, the first time, kills the command.
CopyFails(c, s) ==
  /\ up /\ copier[c][s] = "copying" /\ pipe[c][s] > 0
  /\ \/ ~Attached(c) /\ UNCHANGED wire
     \/ SendTimesOut(c)
  /\ copier' = [copier EXCEPT ![c][s] = "ended"]
  /\ pipe' = [pipe EXCEPT ![c][s] = 0]
  /\ writeFailed' = [writeFailed EXCEPT ![c] = TRUE]
  /\ IF writeFailed[c] THEN UNCHANGED procVars ELSE KillGroup(c)
  /\ UNCHANGED <<regime, up, clientVars, slotVars, inputVars, produced>>

\* The stream ends when nobody holds its writing end: the command and its
\* descendants and, for a terminal, the server itself until it closes slave.
StreamClosed(c) ==
  /\ child[c] \in ChildExited /\ ~helper[c]
  /\ regime.terminal => InputClosed(c)

CopyEnds(c, s) ==
  /\ up /\ copier[c][s] = "copying" /\ pipe[c][s] = 0
  /\ StreamClosed(c)
  /\ copier' = [copier EXCEPT ![c][s] = "ended"]
  /\ UNCHANGED <<regime, up, clientVars, wire, slotVars, inputVars, writeFailed, pipe, produced,
                 procVars>>

-----------------------------------------------------------------------------
(* The input goroutine: forwardBockerControlInput.                         *)

ForwardRead(c) ==
  /\ up /\ forwarder[c] = "reading" /\ sent[c] > 0
  /\ sent' = [sent EXCEPT ![c] = @ - 1]
  /\ forwarder' = [forwarder EXCEPT ![c] = IF writeInput[c] THEN "writing" ELSE @]
  /\ UNCHANGED <<regime, up, clientVars, wire, slotVars, writeInput, stdin, stdinOpen,
                 outputVars, procVars>>

ForwardWrite(c) ==
  /\ up /\ forwarder[c] = "writing"
  /\ StdinReader(c) /\ stdin[c] < StdinCapacity
  /\ stdin' = [stdin EXCEPT ![c] = @ + 1]
  /\ forwarder' = [forwarder EXCEPT ![c] = "reading"]
  /\ UNCHANGED <<regime, up, clientVars, wire, slotVars, sent, writeInput, stdinOpen, outputVars,
                 procVars>>

\* Mutant: a command that closes its stdin counts as disconnected.
MutForwardWriteFails(c) ==
  /\ up /\ forwarder[c] = "writing"
  /\ ~StdinReader(c) \/ InputClosed(c)
  /\ KillGroup(c)
  /\ forwarder' = [forwarder EXCEPT ![c] = "done"]
  /\ UNCHANGED <<regime, up, clientVars, wire, slotVars, sent, writeInput, stdin, stdinOpen,
                 outputVars>>

\* Mutant: the goroutine returns, unnoticed, when the command's stdin fails.
MutForwardStops(c) ==
  /\ up /\ forwarder[c] = "writing"
  /\ ~StdinReader(c) \/ InputClosed(c)
  /\ forwarder' = [forwarder EXCEPT ![c] = "done"]
  /\ UNCHANGED <<regime, up, clientVars, wire, slotVars, sent, writeInput, stdin, stdinOpen,
                 outputVars, procVars>>

\* The write fails once nobody can read it, or the handler closed the pipe;
\* reading goes on so that the end of the socket is still seen.
ForwardWriteFails(c) ==
  /\ up /\ forwarder[c] = "writing"
  /\ ~StdinReader(c) \/ InputClosed(c)
  /\ writeInput' = [writeInput EXCEPT ![c] = FALSE]
  /\ forwarder' = [forwarder EXCEPT ![c] = "reading"]
  /\ UNCHANGED <<regime, up, clientVars, wire, slotVars, sent, stdin, stdinOpen, outputVars,
                 procVars>>

\* Mutant: the handler does not close its reading half when the command ends.
MutForwardEnd(c) ==
  /\ up /\ forwarder[c] = "reading" /\ sent[c] = 0
  /\ ~Attached(c)
  /\ forwarder' = [forwarder EXCEPT ![c] = "done"]
  /\ IF InputClosed(c) THEN UNCHANGED procVars ELSE KillGroup(c)
  /\ UNCHANGED <<regime, up, clientVars, wire, slotVars, sent, writeInput, stdin, stdinOpen,
                 outputVars>>

\* The end of the socket, by either side: onDisconnect kills the command
\* unless processDone is closed.
ForwardEnd(c) ==
  /\ up /\ forwarder[c] = "reading" /\ sent[c] = 0
  /\ ~Attached(c) \/ InputClosed(c)
  /\ forwarder' = [forwarder EXCEPT ![c] = "done"]
  /\ IF InputClosed(c) THEN UNCHANGED procVars ELSE KillGroup(c)
  /\ UNCHANGED <<regime, up, clientVars, wire, slotVars, sent, writeInput, stdin, stdinOpen,
                 outputVars>>

-----------------------------------------------------------------------------
(* The command, which does as it likes, and the end of the daemon.         *)

ChildWrites(c, s) ==
  /\ child[c] = "running" \/ helper[c]
  /\ copier[c][s] = "copying" /\ produced[c][s] < regime.output[s]
  /\ pipe' = [pipe EXCEPT ![c][s] = @ + 1]
  /\ produced' = [produced EXCEPT ![c][s] = @ + 1]
  /\ UNCHANGED <<regime, up, clientVars, wire, slotVars, inputVars, copier, writeFailed, procVars>>

ChildReads(c) ==
  /\ StdinReader(c) /\ stdin[c] > 0
  /\ stdin' = [stdin EXCEPT ![c] = @ - 1]
  /\ UNCHANGED <<regime, up, clientVars, wire, slotVars, sent, forwarder, writeInput,
                 stdinOpen, outputVars, procVars>>

ChildClosesStdin(c) ==
  /\ StdinReader(c)
  /\ stdinOpen' = [stdinOpen EXCEPT ![c] = FALSE]
  /\ UNCHANGED <<regime, up, clientVars, wire, slotVars, sent, forwarder, writeInput,
                 stdin, outputVars, procVars>>

ChildForks(c) ==
  /\ child[c] = "running" /\ ~helper[c]
  /\ helper' = [helper EXCEPT ![c] = TRUE]
  /\ UNCHANGED <<regime, up, clientVars, wire, slotVars, inputVars, outputVars, child>>

ChildExits(c) ==
  /\ child[c] = "running"
  /\ \E code \in {"ok", "error"} : child' = [child EXCEPT ![c] = code]
  /\ UNCHANGED <<regime, up, clientVars, wire, slotVars, inputVars, outputVars, helper>>

HelperExits(c) ==
  /\ helper[c]
  /\ helper' = [helper EXCEPT ![c] = FALSE]
  /\ UNCHANGED <<regime, up, clientVars, wire, slotVars, inputVars, outputVars, child>>

\* The daemon ends or crashes: every goroutine and connection goes with it.
DaemonExits ==
  /\ up
  /\ up' = FALSE
  /\ UNCHANGED <<regime, clientVars, wire, slotVars, inputVars, outputVars, procVars>>

-----------------------------------------------------------------------------
ClientStep(c) ==
  \/ Dial(c) \/ DialFails(c) \/ SendRequest(c) \/ TypeInput(c)
  \/ ReceiveOutput(c) \/ ReceiveEnd(c) \/ Disconnect(c)

AcceptStep(c) == Admit(c) \/ Busy(c)

HandlerGo(c) ==
  \/ Refuse(c) \/ StartCommand(c) \/ Reap(c) \/ CloseInput(c)
  \/ Reply(c) \/ Release(c)

CopierGo(c, s) == Copy(c, s) \/ CopyFails(c, s) \/ CopyEnds(c, s)

ForwarderGo(c) ==
  ForwardRead(c) \/ ForwardWrite(c) \/ ForwardWriteFails(c) \/ ForwardEnd(c)

ChildStep(c) ==
  \/ \E s \in Streams : ChildWrites(c, s)
  \/ ChildReads(c) \/ ChildClosesStdin(c) \/ ChildForks(c)
  \/ ChildExits(c) \/ HelperExits(c)

Next ==
  \/ \E c \in Sessions :
       \/ ClientStep(c) \/ AcceptStep(c) \/ HandlerGo(c)
       \/ \E s \in Streams : CopierGo(c, s)
       \/ ForwarderGo(c) \/ ChildStep(c)
  \/ DaemonExits

Spec == Init /\ [][Next]_vars

\* The Go scheduler runs every goroutine that can run, and a blocked write
\* returns by its deadline.  Nothing is assumed of the client, of the command
\* or of its descendants.
GoroutineFairness ==
  \A c \in Sessions :
    /\ WF_vars(AcceptStep(c))
    /\ WF_vars(HandlerGo(c))
    /\ WF_vars(ForwarderGo(c))
    /\ \A s \in Streams : WF_vars(CopierGo(c, s))

FairSpec == Spec /\ GoroutineFairness

-----------------------------------------------------------------------------
(* Properties.                                                             *)

\* Admission: the sessions being served are exactly the holders of a token
\* and never more than controlMaxConnections, whichever way a session ends.
Admission ==
  /\ Cardinality(slots) <= MaxConnections
  /\ slots = {c \in Sessions : handler[c] \in Serving}

\* A client reports exit code zero only for a command that itself exited with
\* zero: never for one that was killed, refused, or lost with the daemon.
SuccessIsTruthful ==
  \A c \in Sessions : client[c] = "success" => child[c] = "ok"

\* A client that reports success has printed all that the command and its
\* descendants wrote to each stream, unless a write to it failed on its deadline.
SuccessIsComplete ==
  \A c \in Sessions :
    client[c] = "success" /\ ~writeFailed[c] => printed[c] = produced[c]

\* A command is killed only when its client has left or let a write reach its
\* deadline: a command that closes its own stdin, or whose output ends, is not.
KillsOnlyAbandoned ==
  [][\A c \in Sessions :
       child[c] = "running" /\ child'[c] = "killed"
         => ~Attached(c) \/ writeFailed'[c]]_vars

\* What nothing on the server can end: the input goroutine blocked in a write
\* to a command that does not read, and a descendant that keeps the output open.
InputStuck(c) == forwarder[c] = "writing" /\ stdin[c] = StdinCapacity

\* A command whose client left mid-way does not keep running as an orphan.
DisconnectEndsCommand ==
  \A c \in Sessions :
    (client[c] \in ClientEnd /\ child[c] = "running") ~> (~up \/ child[c] # "running")

\* The same, unless the input goroutine is stuck for ever: whatever the command
\* does with its pipes, one of its goroutines sees the client leave.
AbandonedCommandEnds ==
  \A c \in Sessions :
    (client[c] \in ClientEnd /\ child[c] = "running")
      ~> (~up \/ child[c] # "running" \/ []InputStuck(c))

\* A session whose command has ended, or whose client has left, gives its
\* token back, unless a descendant of the command holds its output for ever or
\* the input goroutine is stuck for ever.
TokenComesBack ==
  \A c \in Sessions :
    [](c \in slots /\ (child[c] \in ChildExited \/ ~Attached(c))
         => <>(~up \/ c \notin slots \/ []helper[c] \/ []InputStuck(c)))
-----------------------------------------------------------------------------
(* What the broker promises.                                               *)

\* A client that has connected or withdrawn has not asked for anything yet.
Caller ==
  [c \in Sessions |->
     CASE client[c] \in {"idle", "connected", "withdrew"} -> "idle"
       [] client[c] = "waiting" -> "calling"
       [] client[c] = "gone" -> "left"
       [] client[c] \in {"success", "failure"} -> client[c]]

Promise == INSTANCE RemoteCommand WITH
  caller <- Caller, command <- child, cut <- writeFailed, written <- produced,
  shown <- printed

\* Each request runs its command at most once, never after its client was told
\* of a failure; the client prints only what the command wrote, is answered at
\* most once and, with success, last.
ImplementsRemoteCommand == Promise!Spec
=============================================================================
