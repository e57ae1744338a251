--------------------------- MODULE RemoteCommand ---------------------------
(***************************************************************************)
(* What the control socket promises to a user without privileges: a        *)
(* command runs at most once and only if it was asked for, it is not begun *)
(* any more once its caller was told of a failure, and its caller is       *)
(* answered at most once, with success only after everything.              *)
(***************************************************************************)
EXTENDS Naturals

CONSTANTS Sessions, Streams

VARIABLES
  caller,   \* the user's end of a session: idle, calling, left or answered
  command,  \* the command it asks for
  cut,      \* a reply could not be delivered: the output is incomplete
  written,  \* chunks the command and its descendants wrote, by stream
  shown     \* of those, the ones the caller has seen

vars == <<caller, command, cut, written, shown>>

Nothing == [c \in Sessions |-> [s \in Streams |-> 0]]

Init ==
  /\ caller = [c \in Sessions |-> "idle"]
  /\ command = [c \in Sessions |-> "none"]
  /\ cut = [c \in Sessions |-> FALSE]
  /\ written = Nothing
  /\ shown = Nothing

Call(c) ==
  /\ caller[c] = "idle"
  /\ caller' = [caller EXCEPT ![c] = "calling"]
  /\ UNCHANGED <<command, cut, written, shown>>

\* A command starts for a caller that has asked and was not refused, once.
Start(c) ==
  /\ command[c] = "none" /\ caller[c] \in {"calling", "left"}
  /\ command' = [command EXCEPT ![c] = "running"]
  /\ UNCHANGED <<caller, cut, written, shown>>

Finish(c) ==
  /\ command[c] = "running"
  /\ \E code \in {"ok", "error"} : command' = [command EXCEPT ![c] = code]
  /\ UNCHANGED <<caller, cut, written, shown>>

\* Its caller has left, or was told of a failure.
Kill(c) ==
  /\ command[c] = "running" /\ caller[c] \in {"left", "failure"}
  /\ command' = [command EXCEPT ![c] = "killed"]
  /\ UNCHANGED <<caller, cut, written, shown>>

\* A reply that cannot be delivered ends the command, if it still runs.
Cut(c) ==
  /\ ~cut[c] /\ command[c] # "none"
  /\ cut' = [cut EXCEPT ![c] = TRUE]
  /\ command' = [command EXCEPT ![c] = IF @ = "running" THEN "killed" ELSE @]
  /\ UNCHANGED <<caller, written, shown>>

\* Nothing is written after the caller was told of a success.
Write(c, s) ==
  /\ command[c] # "none" /\ caller[c] # "success"
  /\ written' = [written EXCEPT ![c][s] = @ + 1]
  /\ UNCHANGED <<caller, command, cut, shown>>

Show(c, s) ==
  /\ caller[c] = "calling" /\ shown[c][s] < written[c][s]
  /\ shown' = [shown EXCEPT ![c][s] = @ + 1]
  /\ UNCHANGED <<caller, command, cut, written>>

Succeed(c) ==
  /\ caller[c] = "calling" /\ command[c] = "ok"
  /\ cut[c] \/ shown[c] = written[c]
  /\ caller' = [caller EXCEPT ![c] = "success"]
  /\ UNCHANGED <<command, cut, written, shown>>

\* A failure may be reported at any time, also of a command that still runs.
Fail(c) ==
  /\ caller[c] \in {"idle", "calling"}
  /\ caller' = [caller EXCEPT ![c] = "failure"]
  /\ UNCHANGED <<command, cut, written, shown>>

Leave(c) ==
  /\ caller[c] = "calling"
  /\ caller' = [caller EXCEPT ![c] = "left"]
  /\ UNCHANGED <<command, cut, written, shown>>

Next ==
  \E c \in Sessions :
    \/ Call(c) \/ Start(c) \/ Finish(c) \/ Kill(c) \/ Cut(c)
    \/ \E s \in Streams : Write(c, s) \/ Show(c, s)
    \/ Succeed(c) \/ Fail(c) \/ Leave(c)

Spec == Init /\ [][Next]_vars
=============================================================================
