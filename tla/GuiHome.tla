------------------------------ MODULE GuiHome ------------------------------
(***************************************************************************)
(* The window of the desktop client (gui/lib/main.dart, _BockerHomeState): *)
(* one event loop, and a bocker process for every list it shows and every  *)
(* command it gives.  The calls that wait for a process interleave at      *)
(* their awaits: a section may be changed, and with it a refresh started,  *)
(* while a refresh or a command is under way, so that answers come back in *)
(* any order.                                                              *)
(*                                                                         *)
(* What bocker holds is abstracted to a version per section that each      *)
(* command moves on; a list is the version it was read at.  Dialogs are a  *)
(* set of open questions: the text typed into them is left out.            *)
(*                                                                         *)
(* Output that is not UTF-8, or was cut within a character, is thrown out  *)
(* of the call that waits for it (main.dart 2395), which then ends without *)
(* touching the window.  What that leaves is in two history variables,     *)
(* which no guard reads: stranded says that the window was left busy,      *)
(* unseen which lists missed something.                                    *)
(***************************************************************************)
EXTENDS Naturals

CONSTANTS
  Slots,          \* bound: calls waiting at a time
  MaxActions,     \* bound: things the user does
  MaxSteps        \* bound: commands a settings dialog leads to

ASSUME GuiAssumption ==
  /\ Slots # {}
  /\ MaxActions \in Nat
  /\ MaxSteps \in Nat \ {0}

VARIABLES
  section,     \* _section
  shown,       \* _containers and _images
  loading,     \* _loading
  busyLabel,   \* _busyLabel
  loadError,   \* _loadError is set
  generation,  \* _refreshGeneration
  dialogs,     \* dialogs that are open
  calls,       \* the calls waiting for a process
  store,       \* what bocker holds of each section
  stranded,    \* the last call to die of its output left the window busy
  unseen,      \* sections of which something was missed since last listed
  orphans,     \* sections that commands whose client was killed may still change
  actions      \* things the user has done

vars == <<section, shown, loading, busyLabel, loadError, generation, dialogs, calls,
          store, stranded, unseen, orphans, actions>>

Sections == {"containers", "images"}
Questions == {"command", "settings", "exec"}

NoCall == [kind |-> "none"]
Free == {i \in Slots : calls[i] = NoCall}

\* A call that has started its process.
Refreshing(of, number) ==
  [kind |-> "refresh", of |-> of, generation |-> number, phase |-> "running",
   ok |-> TRUE, seen |-> 0]

Running(kind, of, left) ==
  [kind |-> kind, of |-> of, left |-> left, phase |-> "running", ok |-> TRUE]

Init ==
  /\ section = "containers"
  /\ shown = [s \in Sections |-> 0]
  /\ loading = TRUE /\ busyLabel = "refreshing" /\ loadError = FALSE
  /\ generation = 1
  /\ dialogs = {}
  /\ \E i \in Slots :
       calls = [k \in Slots |-> IF k = i THEN Refreshing("containers", 1) ELSE NoCall]
  /\ store = [s \in Sections |-> 1]
  /\ stranded = FALSE /\ unseen = {} /\ orphans = {}
  /\ actions = 0

Show(isLoading, label) == loading' = isLoading /\ busyLabel' = label /\ stranded' = FALSE

\* _refresh up to its await, in the slot of the call that made it.
Refresh(i, of) ==
  /\ generation' = generation + 1
  /\ Show(TRUE, "refreshing") /\ loadError' = FALSE
  /\ calls' = [calls EXCEPT ![i] = Refreshing(of, generation + 1)]
  /\ unseen' = unseen \ {of}

\* _run up to its await.
Run(i, kind, of, left) ==
  /\ Show(TRUE, "working")
  /\ calls' = [calls EXCEPT ![i] = Running(kind, of, left)]
  /\ UNCHANGED <<generation, loadError, unseen>>

-----------------------------------------------------------------------------
(* The user.  A dialog covers the window.                                  *)

Act ==
  /\ actions < MaxActions
  /\ actions' = actions + 1
  /\ UNCHANGED <<store, shown>>

NoKill == UNCHANGED orphans

\* The page of an error has a button to try again, which loading hides only
\* where the list is empty: never read, or not to be parsed.
RetryVisible == loadError /\ (loading => shown[section] # 0)

PressRefresh ==
  /\ Act /\ NoKill
  /\ dialogs = {}
  /\ ~loading \/ RetryVisible
  /\ \E i \in Free : Refresh(i, section)
  /\ UNCHANGED <<section, dialogs>>

\* Mutant: no second refresh while one is under way.
MutChangeSection ==
  /\ Act /\ NoKill
  /\ dialogs = {}
  /\ \E i \in Free, s \in Sections \ {section} :
       /\ section' = s
       /\ IF loading
            THEN UNCHANGED <<loading, busyLabel, loadError, generation, calls, stranded,
                             unseen>>
            ELSE Refresh(i, s)
  /\ UNCHANGED dialogs

\* _changeSection, which nothing disables.
ChangeSection ==
  /\ Act /\ NoKill
  /\ dialogs = {}
  /\ \E i \in Free, s \in Sections \ {section} : section' = s /\ Refresh(i, s)
  /\ UNCHANGED dialogs

\* A button that gives its command at once.  Loading disables start, stop and
\* restart, but does not close the menu of a container: export is in it.
PressCommand ==
  /\ Act /\ NoKill
  /\ dialogs = {}
  /\ section = "containers"
  /\ \E i \in Free : Run(i, "command", "containers", 0)
  /\ UNCHANGED <<section, dialogs>>

\* A button that asks first, one of that menu or another ...
PressQuestion ==
  /\ Act /\ NoKill
  /\ dialogs = {}
  /\ ~loading \/ section = "containers"
  /\ \E question \in {"command", "exec"} : dialogs' = {question}
  /\ UNCHANGED <<section, loading, busyLabel, loadError, generation, calls, stranded, unseen>>

\* ... or first loads what it asks about: the templates, or, in the menu, the
\* container's mounts.
PressLoad ==
  /\ Act /\ NoKill
  /\ dialogs = {}
  /\ section = "containers"
  /\ \E i \in Free, question \in {"command", "settings"} :
       /\ \/ question = "command" /\ ~loading /\ Show(TRUE, "templates")
          \/ question = "settings" /\ Show(TRUE, "mounts")
       /\ calls' = [calls EXCEPT ![i] = Running("load", question, 0)]
  /\ UNCHANGED <<section, loadError, generation, dialogs, unseen>>

\* An answered dialog gives its command even if something is loading by then.
Answer ==
  /\ Act /\ NoKill
  /\ \E i \in Free, question \in dialogs \cap {"command", "exec"}, of \in Sections :
       /\ question = "exec" => of = "containers"
       /\ dialogs' = dialogs \ {question}
       /\ Run(i, question, of, 0)
  /\ UNCHANGED section

\* A settings dialog leads to one command for each thing that was changed, or
\* none; it lets its route close first, with the window uncovered.
SaveSettings ==
  /\ Act /\ NoKill
  /\ "settings" \in dialogs
  /\ dialogs' = dialogs \ {"settings"}
  /\ \E i \in Free, left \in 0 .. MaxSteps :
       calls' = [calls EXCEPT ![i] =
                   [Running("settings", "containers", left) EXCEPT !.phase = "closing"]]
  /\ UNCHANGED <<section, loading, busyLabel, loadError, generation, stranded, unseen>>

Dismiss ==
  /\ Act /\ NoKill
  /\ \E question \in dialogs : dialogs' = dialogs \ {question}
  /\ UNCHANGED <<section, loading, busyLabel, loadError, generation, calls, stranded, unseen>>

InProcess(i, phase) == calls[i] # NoCall /\ calls[i].phase = phase

Active == {i \in Slots : InProcess(i, "running") \/ InProcess(i, "worked")}

\* cancelActive: SIGTERM ends the processes of the calls, the refreshes too.
Killed(c) == [c EXCEPT !.phase = "exited", !.ok = FALSE]

\* The daemon sees the process gone only after a moment: what it was told to do
\* may still be done.
Changing(i) == InProcess(i, "running") /\ calls[i].kind \in {"command", "settings"}

CancelVisible == loading /\ busyLabel \notin {"refreshing", "templates"}

\* It spares the processes that are still being started, or already end.
Cancel ==
  /\ Act
  /\ dialogs = {} /\ CancelVisible
  /\ \E killed \in SUBSET Active :
       /\ calls' = [i \in Slots |-> IF i \in killed THEN Killed(calls[i]) ELSE calls[i]]
       /\ orphans' = orphans \cup {calls[i].of : i \in {k \in killed : Changing(k)}}
  /\ busyLabel' = "cancelling"
  /\ UNCHANGED <<section, loading, loadError, generation, dialogs, stranded, unseen>>
-----------------------------------------------------------------------------
(* The processes.                                                          *)

windowVars == <<section, shown, loading, busyLabel, loadError, generation, dialogs,
                stranded, actions>>

\* A command whose client is gone takes effect all the same, or not at all.
OrphanEnds ==
  /\ \E s \in orphans :
       /\ orphans' = orphans \ {s}
       /\ \/ store' = [store EXCEPT ![s] = @ + 1] /\ unseen' = unseen \cup {s}
          \/ UNCHANGED <<store, unseen>>
  /\ UNCHANGED <<windowVars, calls>>

\* bocker reads the list, or does what the command says.
ProcessWorks(i) ==
  /\ InProcess(i, "running")
  /\ LET c == calls[i] IN
       IF c.kind = "refresh"
       THEN /\ calls' = [calls EXCEPT ![i].phase = "worked", ![i].seen = store[c.of]]
            /\ UNCHANGED store
       ELSE /\ calls' = [calls EXCEPT ![i].phase = "worked"]
            /\ store' = IF c.kind \in {"command", "settings"}
                        THEN [store EXCEPT ![c.of] = @ + 1] ELSE store
  /\ UNCHANGED <<windowVars, unseen, orphans>>

\* It ends: well once it has done its work, with an error before or after.  A
\* command that ends before, its connection lost or its output closed on it, may
\* be done by the daemon all the same.
ProcessEnds(i) ==
  /\ \/ /\ InProcess(i, "worked")
        /\ calls' = [calls EXCEPT ![i].phase = "exited"]
        /\ UNCHANGED orphans
     \/ /\ i \in Active
        /\ calls' = [calls EXCEPT ![i] = Killed(calls[i])]
        /\ \/ UNCHANGED orphans
           \/ Changing(i) /\ orphans' = orphans \cup {calls[i].of}
  /\ UNCHANGED <<windowVars, store, unseen>>
-----------------------------------------------------------------------------
(* The calls go on when their process has ended.                           *)

Finish(i) == calls' = [calls EXCEPT ![i] = NoCall]

\* Mutant: only the section is compared.
MutOutdated(c) == c.of # section

Outdated(c) == c.generation # generation \/ c.of # section

\* _refresh: an answer that is not to the latest refresh is dropped.  One that
\* does not parse, such as a list too long to be kept whole or one with a warning
\* before it, is shown as an empty list without an error.
RefreshAnswered(i) ==
  /\ InProcess(i, "exited") /\ calls[i].kind = "refresh"
  /\ LET c == calls[i] IN
       \/ Outdated(c) /\ UNCHANGED <<shown, loading, busyLabel, loadError, stranded, unseen>>
       \/ /\ ~Outdated(c)
          /\ Show(FALSE, "none")
          /\ loadError' = ~c.ok
          /\ \/ c.ok /\ shown' = [shown EXCEPT ![c.of] = c.seen] /\ UNCHANGED unseen
             \/ c.ok /\ shown' = [shown EXCEPT ![c.of] = 0] /\ unseen' = unseen \cup {c.of}
             \/ ~c.ok /\ UNCHANGED <<shown, unseen>>
  /\ Finish(i)
  /\ UNCHANGED <<section, generation, dialogs, store, orphans, actions>>

\* _run for a command of its own: a refresh if it went well.
CommandEnded(i) ==
  /\ InProcess(i, "exited") /\ calls[i].kind = "command"
  /\ IF calls[i].ok
     THEN Refresh(i, section)
     ELSE /\ Show(FALSE, "none")
          /\ Finish(i)
          /\ unseen' = unseen \cup {calls[i].of}
          /\ UNCHANGED <<generation, loadError>>
  /\ UNCHANGED <<section, shown, dialogs, store, orphans, actions>>

\* _settingsDialog: the next command while they go well, a refresh in the end.
SettingEnded(i) ==
  /\ InProcess(i, "closing") \/ InProcess(i, "exited")
  /\ calls[i].kind = "settings"
  /\ IF calls[i].ok /\ calls[i].left > 0
     THEN Run(i, "settings", calls[i].of, calls[i].left - 1)
     ELSE Refresh(i, section)
  /\ UNCHANGED <<section, shown, dialogs, store, orphans, actions>>

\* _execDialog, which shows the result and lists nothing.
ExecEnded(i) ==
  /\ InProcess(i, "exited") /\ calls[i].kind = "exec"
  /\ Show(FALSE, "none")
  /\ Finish(i)
  /\ UNCHANGED <<section, shown, loadError, generation, dialogs, store, unseen, orphans, actions>>

\* _loadImageTemplates opens no dialog if it fails or finds none,
\* _loadContainerMounts opens it with no mounts.
LoadEnded(i) ==
  /\ InProcess(i, "exited") /\ calls[i].kind = "load"
  /\ Show(FALSE, "none")
  /\ LET question == calls[i].of IN
       \/ (calls[i].ok \/ question = "settings") /\ dialogs' = dialogs \cup {question}
       \/ question = "command" /\ UNCHANGED dialogs
  /\ Finish(i)
  /\ UNCHANGED <<section, shown, loadError, generation, store, unseen, orphans, actions>>

\* _runDirect: only ProcessException is caught.  A FormatException from its two
\* decoders ends the call and those that await it: the window stays as it is, and
\* neither the next setting nor a refresh follows.  An outdated refresh would not
\* have touched the window.
OutputThrows(i) ==
  /\ InProcess(i, "exited")
  /\ LET c == calls[i] IN
       IF c.kind = "refresh" /\ Outdated(c)
       THEN UNCHANGED <<stranded, unseen>>
       ELSE /\ stranded' = loading
            /\ unseen' = IF c.kind \in {"refresh", "command", "settings"}
                         THEN unseen \cup {c.of} ELSE unseen
  /\ Finish(i)
  /\ UNCHANGED <<section, shown, loading, busyLabel, loadError, generation, dialogs, store,
                 orphans, actions>>
-----------------------------------------------------------------------------
User == \/ PressRefresh \/ ChangeSection \/ PressCommand \/ PressQuestion
        \/ PressLoad \/ Answer \/ SaveSettings \/ Dismiss \/ Cancel

Process(i) == ProcessWorks(i) \/ ProcessEnds(i)

Resume(i) == \/ RefreshAnswered(i) \/ CommandEnded(i) \/ SettingEnded(i)
             \/ ExecEnded(i) \/ LoadEnded(i) \/ OutputThrows(i)

Next == User \/ OrphanEnds \/ \E i \in Slots : Process(i) \/ Resume(i)

Spec == Init /\ [][Next]_vars
-----------------------------------------------------------------------------
Phases == {"closing", "running", "worked", "exited"}

Refreshes ==
  [kind : {"refresh"}, of : Sections, generation : Nat, phase : Phases, ok : BOOLEAN,
   seen : Nat]
Commands ==
  [kind : {"command", "settings", "exec"}, of : Sections, left : 0 .. MaxSteps,
   phase : Phases, ok : BOOLEAN]
Loads ==
  [kind : {"load"}, of : Questions, left : 0 .. MaxSteps, phase : Phases, ok : BOOLEAN]

\* The pieces of state have the shapes the code gives them.
TypeOK ==
  /\ section \in Sections
  /\ store \in [Sections -> Nat] /\ shown \in [Sections -> Nat]
  /\ loading \in BOOLEAN /\ loadError \in BOOLEAN
  /\ busyLabel \in {"none", "refreshing", "templates", "mounts", "working", "cancelling"}
  /\ generation \in Nat
  /\ dialogs \subseteq Questions
  /\ stranded \in BOOLEAN
  /\ unseen \subseteq Sections /\ orphans \subseteq Sections
  /\ actions \in 0 .. MaxActions
  /\ calls \in [Slots -> {NoCall} \cup Refreshes \cup Commands \cup Loads]

Quiet == \A i \in Slots : calls[i] = NoCall

\* main.dart 137 and 189: once nothing is under way the window shows, without
\* an error, what bocker holds of its section, in whatever order the answers to
\* refreshes came and whatever was changed meanwhile through the window.  Left
\* out is what the code does not list again: a section after a command that
\* failed half-way, a call that died of its output, or a list not parsed.
ShownIsCurrent ==
  Quiet /\ ~loadError /\ section \notin unseen => shown[section] = store[section]

\* main.dart 141 and 176: the window does not stay busy when nothing is under
\* way, although answers are dropped and calls overlap; its buttons come back.
\* It does stay so after a call that died of its output (2395), until another
\* call begins or ends: the section can still be changed.
IdleWindow == Quiet /\ ~stranded => ~loading /\ busyLabel = "none"
=============================================================================
