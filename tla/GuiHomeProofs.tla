---------------------------- MODULE GuiHomeProofs ----------------------------
(***************************************************************************)
(* Proofs about GuiHome.  BusyInv names the call that will end what the    *)
(* window shows as under way, unless a call died of its output; AnswerInv  *)
(* says what an answer to the latest refresh is worth, and ShownInv what   *)
(* the list is worth.                                                      *)
(***************************************************************************)
EXTENDS GuiHome, TLAPS

\* There is a call in the slot, of one of these kinds.
Waiting(i, kinds) == calls[i] # NoCall /\ calls[i].kind \in kinds

\* It is the latest refresh, whose answer will be taken.
Current(i) == Waiting(i, {"refresh"}) /\ calls[i].generation = generation

\* No refresh is later than the latest, which is of the section shown.
Latest ==
  \A i \in Slots : Waiting(i, {"refresh"}) =>
    /\ calls[i].generation <= generation
    /\ calls[i].generation = generation => calls[i].of = section

\* What the window shows as under way is ended by a call that is there: one that
\* is not a refresh, or the latest refresh.  A call that died of its output ends
\* nothing.
BusyInv ==
  /\ ~loading => busyLabel = "none"
  /\ loading /\ ~stranded =>
       \E i \in Slots : calls[i] # NoCall /\ (calls[i].kind = "refresh" => Current(i))

\* The section will be listed again, or the window was told that it may not be
\* what it shows.
Changes ==
  \/ section \in unseen
  \/ \E i \in Slots : Waiting(i, {"command", "settings"}) /\ calls[i].of = section

\* An answer to the latest refresh is what bocker holds, but for such changes.
AnswerInv ==
  \A i \in Slots : Current(i) /\ calls[i].phase # "running" /\ calls[i].ok =>
    calls[i].seen = store[section] \/ Changes

\* So is what is shown, unless it is about to be replaced.
ShownInv ==
  ~loadError => shown[section] = store[section] \/ Changes \/ \E i \in Slots : Current(i)

\* The four together.
WindowInv == Latest /\ BusyInv /\ AnswerInv /\ ShownInv

\* The calls there can be.
Calls == {NoCall} \cup Refreshes \cup Commands \cup Loads

\* What a call that has just started looks like.
LEMMA Started ==
  /\ \A of \in Sections, n \in Nat :
       /\ Refreshing(of, n) \in Refreshes
       /\ Refreshing(of, n).kind = "refresh" /\ Refreshing(of, n).of = of
       /\ Refreshing(of, n).generation = n /\ Refreshing(of, n).phase = "running"
  /\ \A kind \in {"command", "settings", "exec"}, of \in Sections, left \in 0 .. MaxSteps :
       /\ Running(kind, of, left) \in Commands
       /\ Running(kind, of, left).kind = kind /\ Running(kind, of, left).of = of
  /\ \A of \in Questions : Running("load", of, 0) \in Loads
  BY GuiAssumption DEF Refreshing, Running, Refreshes, Commands, Loads, Phases

\* Every slot holds nothing or a call of one of the kinds.
LEMMA Kinds ==
  /\ \A c \in Refreshes : c # NoCall /\ c.kind = "refresh"
  /\ \A c \in Commands : c # NoCall /\ c.kind \in {"command", "settings", "exec"}
  /\ \A c \in Loads : c # NoCall /\ c.kind = "load"
<1>1. NoCall.kind = "none"
  BY DEF NoCall
<1> QED
  BY <1>1 DEF Refreshes, Commands, Loads

\* A call whose process is killed waits on, for an answer that is an error.
LEMMA KilledCall ==
  ASSUME NEW c \in Calls, c # NoCall
  PROVE  /\ Killed(c) \in Calls /\ Killed(c) # NoCall
         /\ Killed(c).kind = c.kind /\ Killed(c).of = c.of /\ Killed(c).ok = FALSE
         /\ c.kind = "refresh" => Killed(c).generation = c.generation
<1>1. CASE c \in Refreshes
  <2>1. /\ Killed(c) \in Refreshes /\ Killed(c).of = c.of /\ Killed(c).ok = FALSE
        /\ Killed(c).generation = c.generation
    BY <1>1 DEF Killed, Refreshes, Phases
  <2> QED
    BY <1>1, <2>1, Kinds DEF Calls
<1>2. CASE c \in Commands
  <2>1. /\ Killed(c) \in Commands /\ Killed(c).of = c.of /\ Killed(c).ok = FALSE
        /\ Killed(c).kind = c.kind
    BY <1>2 DEF Killed, Commands, Phases
  <2> QED
    BY <1>2, <2>1, Kinds DEF Calls
<1>3. CASE c \in Loads
  <2>1. Killed(c) \in Loads /\ Killed(c).of = c.of /\ Killed(c).ok = FALSE
    BY <1>3 DEF Killed, Loads, Phases
  <2> QED
    BY <1>3, <2>1, Kinds DEF Calls
<1> QED
  BY <1>1, <1>2, <1>3 DEF Calls

\* A command that changes a section is of one.
LEMMA ChangesSection ==
  ASSUME TypeOK, NEW i \in Slots, calls[i] # NoCall, calls[i].kind \in {"command", "settings"}
  PROVE  calls[i].of \in Sections
<1>1. calls[i] \in Commands
  BY Kinds DEF TypeOK
<1> QED
  BY <1>1 DEF Commands

\* _refresh up to its await keeps the types,
LEMMA RefreshTypes ==
  ASSUME TypeOK, NEW i \in Slots, NEW of \in Sections, Refresh(i, of)
  PROVE  /\ calls' \in [Slots -> Calls] /\ generation' \in Nat /\ unseen' \subseteq Sections
         /\ loading' = TRUE /\ busyLabel' = "refreshing" /\ loadError' = FALSE
         /\ stranded' = FALSE
<1>1. Refreshing(of, generation + 1) \in Calls
  BY Started DEF TypeOK, Calls
<1>2. calls' \in [Slots -> Calls]
  BY <1>1 DEF Refresh, TypeOK, Calls
<1>3. generation' \in Nat /\ unseen' \subseteq Sections
  BY DEF Refresh, TypeOK
<1> QED
  BY <1>2, <1>3 DEF Refresh, Show

\* and so does _run.
LEMMA RunTypes ==
  ASSUME TypeOK, NEW i \in Slots, NEW kind \in {"command", "settings", "exec"},
         NEW of \in Sections, NEW left \in 0 .. MaxSteps, Run(i, kind, of, left)
  PROVE  /\ calls' \in [Slots -> Calls] /\ UNCHANGED <<generation, loadError, unseen>>
         /\ loading' = TRUE /\ busyLabel' = "working" /\ stranded' = FALSE
<1>1. Running(kind, of, left) \in Calls
  BY Started DEF Calls
<1> QED
  BY <1>1 DEF Run, TypeOK, Calls, Show

\* Every step keeps the types.
LEMMA TypeStep == TypeOK /\ [Next]_vars => TypeOK'
<1> SUFFICES ASSUME TypeOK, [Next]_vars PROVE TypeOK'
  OBVIOUS
<1> USE GuiAssumption DEF TypeOK, Calls, Sections, Questions
<1>1. ASSUME PressRefresh PROVE TypeOK'
  <2>1. PICK i \in Slots : Refresh(i, section)
    BY <1>1 DEF PressRefresh, Free
  <2>2. actions' \in 0 .. MaxActions
    BY <1>1 DEF PressRefresh, Act
  <2> QED
    BY <1>1, <2>1, <2>2, RefreshTypes DEF PressRefresh, Act, NoKill
<1>2. ASSUME ChangeSection PROVE TypeOK'
  <2>1. PICK i \in Slots, s \in Sections : section' = s /\ Refresh(i, s)
    BY <1>2 DEF ChangeSection, Free
  <2>2. actions' \in 0 .. MaxActions
    BY <1>2 DEF ChangeSection, Act
  <2> QED
    BY <1>2, <2>1, <2>2, RefreshTypes DEF ChangeSection, Act, NoKill
<1>3. ASSUME PressCommand PROVE TypeOK'
  <2>1. PICK i \in Slots : Run(i, "command", "containers", 0)
    BY <1>3 DEF PressCommand, Free
  <2>2. /\ calls' \in [Slots -> Calls] /\ UNCHANGED <<generation, loadError, unseen>>
        /\ loading' = TRUE /\ busyLabel' = "working" /\ stranded' = FALSE
    <3>1. 0 \in 0 .. MaxSteps /\ "containers" \in Sections
      OBVIOUS
    <3> HIDE DEF TypeOK, Calls, Sections
    <3> QED
      BY <2>1, <3>1, RunTypes
  <2>3. actions' \in 0 .. MaxActions
    BY <1>3 DEF PressCommand, Act
  <2>4. UNCHANGED <<section, shown, dialogs, store, orphans>>
    BY <1>3 DEF PressCommand, Act, NoKill
  <2> QED
    BY <2>2, <2>3, <2>4
<1>4. ASSUME PressQuestion PROVE TypeOK'
  BY <1>4 DEF PressQuestion, Act, NoKill
<1>5. ASSUME PressLoad PROVE TypeOK'
  <2>1. PICK i \in Slots, question \in Questions :
           /\ Show(TRUE, "templates") \/ Show(TRUE, "mounts")
           /\ calls' = [calls EXCEPT ![i] = Running("load", question, 0)]
    BY <1>5 DEF PressLoad, Free
  <2>2. calls' \in [Slots -> Calls]
    BY <2>1, Started
  <2>3. /\ loading' = TRUE /\ stranded' = FALSE
        /\ busyLabel' = "templates" \/ busyLabel' = "mounts"
    BY <2>1 DEF Show
  <2>4. actions' \in 0 .. MaxActions
    BY <1>5 DEF PressLoad, Act
  <2>5. UNCHANGED <<section, shown, loadError, generation, dialogs, store, unseen, orphans>>
    BY <1>5 DEF PressLoad, Act, NoKill
  <2> QED
    BY <2>2, <2>3, <2>4, <2>5
<1>6. ASSUME Answer PROVE TypeOK'
  <2>1. PICK i \in Slots, question \in {"command", "exec"}, of \in Sections :
           dialogs' = dialogs \ {question} /\ Run(i, question, of, 0)
    BY <1>6 DEF Answer, Free
  <2>2. /\ calls' \in [Slots -> Calls] /\ UNCHANGED <<generation, loadError, unseen>>
        /\ loading' = TRUE /\ busyLabel' = "working" /\ stranded' = FALSE
    <3>1. 0 \in 0 .. MaxSteps /\ question \in {"command", "settings", "exec"}
      OBVIOUS
    <3> HIDE DEF TypeOK, Calls, Sections
    <3> QED
      BY <2>1, <3>1, RunTypes
  <2>3. actions' \in 0 .. MaxActions /\ dialogs' \subseteq Questions
    BY <1>6, <2>1 DEF Answer, Act
  <2>4. UNCHANGED <<section, shown, store, orphans>>
    BY <1>6 DEF Answer, Act, NoKill
  <2> QED
    BY <2>2, <2>3, <2>4
<1>7. ASSUME SaveSettings PROVE TypeOK'
  <2>1. PICK i \in Slots, left \in 0 .. MaxSteps :
           calls' = [calls EXCEPT ![i] =
                       [Running("settings", "containers", left) EXCEPT !.phase = "closing"]]
    BY <1>7 DEF SaveSettings, Free
  <2>2. [Running("settings", "containers", left) EXCEPT !.phase = "closing"] \in Commands
    BY Started DEF Commands, Phases
  <2>3. calls' \in [Slots -> Calls]
    BY <2>1, <2>2
  <2> QED
    BY <1>7, <2>3 DEF SaveSettings, Act, NoKill
<1>8. ASSUME Dismiss PROVE TypeOK'
  BY <1>8 DEF Dismiss, Act, NoKill
<1>9. ASSUME Cancel PROVE TypeOK'
  <2>1. PICK killed \in SUBSET Active :
           /\ calls' = [i \in Slots |-> IF i \in killed THEN Killed(calls[i]) ELSE calls[i]]
           /\ orphans' = orphans \cup {calls[i].of : i \in {k \in killed : Changing(k)}}
    BY <1>9 DEF Cancel
  <2>2. \A i \in killed : i \in Slots /\ Killed(calls[i]) \in Calls
    BY <2>1, KilledCall DEF Active, InProcess
  <2>3. calls' \in [Slots -> Calls]
    BY <2>1, <2>2
  <2>4. orphans' \subseteq Sections
    BY <2>1, <2>2, ChangesSection DEF Changing, InProcess
  <2> QED
    BY <1>9, <2>3, <2>4 DEF Cancel, Act
<1>10. ASSUME OrphanEnds PROVE TypeOK'
  <2>1. PICK s \in orphans :
           /\ orphans' = orphans \ {s}
           /\ \/ store' = [store EXCEPT ![s] = store[s] + 1] /\ unseen' = unseen \cup {s}
              \/ UNCHANGED <<store, unseen>>
    BY <1>10 DEF OrphanEnds
  <2>2. store' \in [Sections -> Nat]
    BY <2>1
  <2>3. unseen' \subseteq Sections /\ orphans' \subseteq Sections
    BY <2>1
  <2> QED
    BY <1>10, <2>2, <2>3 DEF OrphanEnds, windowVars
<1>11. ASSUME NEW i \in Slots, ProcessWorks(i) PROVE TypeOK'
  <2>1. calls[i] \in Calls /\ calls[i] # NoCall
    BY <1>11 DEF ProcessWorks, InProcess
  <2>2. CASE calls[i] \in Refreshes
    <3>1. [calls[i] EXCEPT !.phase = "worked", !.seen = store[calls[i].of]] \in Refreshes
      BY <2>2 DEF Refreshes, Phases
    <3>2. calls' = [calls EXCEPT ![i] =
                      [calls[i] EXCEPT !.phase = "worked", !.seen = store[calls[i].of]]]
          /\ store' = store
      BY <1>11, <2>2, Kinds DEF ProcessWorks, InProcess
    <3> QED
      BY <1>11, <3>1, <3>2 DEF ProcessWorks, windowVars
  <2>3. CASE calls[i] \in Commands \cup Loads
    <3>1. [calls[i] EXCEPT !.phase = "worked"] \in Commands \cup Loads
      BY <2>3 DEF Commands, Loads, Phases
    <3>2. calls' = [calls EXCEPT ![i] = [calls[i] EXCEPT !.phase = "worked"]]
          /\ (store' = store \/ store' = [store EXCEPT ![calls[i].of] = store[calls[i].of] + 1])
      BY <1>11, <2>3, Kinds DEF ProcessWorks, InProcess
    <3> QED
      BY <1>11, <3>1, <3>2 DEF ProcessWorks, windowVars
  <2> QED
    BY <2>1, <2>2, <2>3
<1>12. ASSUME NEW i \in Slots, ProcessEnds(i) PROVE TypeOK'
  <2>1. calls[i] \in Calls /\ calls[i] # NoCall
    BY <1>12 DEF ProcessEnds, Active, InProcess
  <2>2. [calls[i] EXCEPT !.phase = "exited"] \in Calls /\ Killed(calls[i]) \in Calls
    BY <2>1, KilledCall DEF Refreshes, Commands, Loads, Phases
  <2>3. \/ calls' = [calls EXCEPT ![i] = [calls[i] EXCEPT !.phase = "exited"]]
        \/ calls' = [calls EXCEPT ![i] = Killed(calls[i])]
    BY <1>12 DEF ProcessEnds
  <2>4. calls' \in [Slots -> Calls]
    BY <2>2, <2>3
  <2>5. orphans' \subseteq Sections
    BY <1>12, ChangesSection DEF ProcessEnds, Changing, InProcess
  <2> QED
    BY <1>12, <2>4, <2>5 DEF ProcessEnds, windowVars
<1>13. ASSUME NEW i \in Slots, RefreshAnswered(i) PROVE TypeOK'
  <2>1. calls[i] \in Refreshes
    BY <1>13, Kinds DEF RefreshAnswered, InProcess
  <2>2. calls[i].seen \in Nat /\ calls[i].of \in Sections /\ calls[i].ok \in BOOLEAN
    BY <2>1 DEF Refreshes
  <2>3. /\ \/ shown' = shown \/ shown' = [shown EXCEPT ![calls[i].of] = calls[i].seen]
           \/ shown' = [shown EXCEPT ![calls[i].of] = 0]
        /\ loadError' = loadError \/ loadError' = ~calls[i].ok
        /\ unseen' = unseen \/ unseen' = unseen \cup {calls[i].of}
    BY <1>13 DEF RefreshAnswered
  <2>4. /\ loading' \in BOOLEAN /\ stranded' \in BOOLEAN /\ loadError' \in BOOLEAN
        /\ busyLabel' = busyLabel \/ busyLabel' = "none"
    BY <1>13, <2>2, <2>3 DEF RefreshAnswered, Show
  <2>5. shown' \in [Sections -> Nat] /\ unseen' \subseteq Sections
    <3>1. [shown EXCEPT ![calls[i].of] = calls[i].seen] \in [Sections -> Nat]
      BY <2>2
    <3>2. [shown EXCEPT ![calls[i].of] = 0] \in [Sections -> Nat]
      BY <2>2
    <3>3. unseen \cup {calls[i].of} \subseteq Sections
      BY <2>2
    <3> QED
      BY <2>3, <3>1, <3>2, <3>3
  <2>6. calls' \in [Slots -> Calls]
    BY <1>13 DEF RefreshAnswered, Finish
  <2>7. UNCHANGED <<section, generation, dialogs, store, orphans, actions>>
    BY <1>13 DEF RefreshAnswered
  <2> QED
    BY <2>4, <2>5, <2>6, <2>7
<1>14. ASSUME NEW i \in Slots, CommandEnded(i) PROVE TypeOK'
  <2>1. calls[i] \in Commands
    BY <1>14, Kinds DEF CommandEnded, InProcess
  <2>2. calls[i].of \in Sections
    BY <2>1 DEF Commands
  <2>3. CASE calls[i].ok
    BY <1>14, <2>3, RefreshTypes DEF CommandEnded
  <2>4. CASE ~calls[i].ok
    BY <1>14, <2>2, <2>4 DEF CommandEnded, Finish, Show
  <2> QED
    BY <2>3, <2>4
<1>15. ASSUME NEW i \in Slots, SettingEnded(i) PROVE TypeOK'
  <2>1. calls[i] \in Commands
    BY <1>15, Kinds DEF SettingEnded, InProcess
  <2>2. calls[i].of \in Sections /\ calls[i].left \in 0 .. MaxSteps
    BY <2>1 DEF Commands
  <2>3. CASE calls[i].ok /\ calls[i].left > 0
    <3>1. calls[i].left - 1 \in 0 .. MaxSteps
      BY <2>2, <2>3, GuiAssumption
    <3> QED
      <4>1. Run(i, "settings", calls[i].of, calls[i].left - 1)
        BY <1>15, <2>3 DEF SettingEnded
      <4>2. /\ calls' \in [Slots -> Calls] /\ UNCHANGED <<generation, loadError, unseen>>
            /\ loading' = TRUE /\ busyLabel' = "working" /\ stranded' = FALSE
        <5> HIDE DEF TypeOK, Calls
        <5> QED
          BY <2>2, <3>1, <4>1, RunTypes
      <4> QED
        BY <1>15, <4>2 DEF SettingEnded
  <2>4. CASE ~(calls[i].ok /\ calls[i].left > 0)
    BY <1>15, <2>4, RefreshTypes DEF SettingEnded
  <2> QED
    BY <2>3, <2>4
<1>16. ASSUME NEW i \in Slots, ExecEnded(i) PROVE TypeOK'
  BY <1>16 DEF ExecEnded, Finish, Show
<1>17. ASSUME NEW i \in Slots, LoadEnded(i) PROVE TypeOK'
  <2>1. calls[i] \in Loads
    BY <1>17, Kinds DEF LoadEnded, InProcess
  <2>2. calls[i].of \in Questions
    BY <2>1 DEF Loads
  <2> QED
    BY <1>17, <2>2 DEF LoadEnded, Finish, Show
<1>18. ASSUME NEW i \in Slots, OutputThrows(i) PROVE TypeOK'
  <2>1. calls[i] # NoCall
    BY <1>18 DEF OutputThrows, InProcess
  <2>2. calls[i].kind = "refresh" => calls[i].of \in Sections
    BY <2>1, Kinds DEF Refreshes
  <2>3. stranded' \in BOOLEAN /\ unseen' \subseteq Sections
    BY <1>18, <2>1, <2>2, ChangesSection DEF OutputThrows
  <2> QED
    BY <1>18, <2>3 DEF OutputThrows, Finish
<1>19. CASE UNCHANGED vars
  BY <1>19 DEF vars
<1> QED
  BY <1>1, <1>2, <1>3, <1>4, <1>5, <1>6, <1>7, <1>8, <1>9, <1>10, <1>11, <1>12, <1>13,
     <1>14, <1>15, <1>16, <1>17, <1>18, <1>19
     DEF Next, User, Process, Resume

\* A refresh becomes the latest: its answer decides what is shown.
LEMMA RefreshKeeps ==
  ASSUME TypeOK, Latest, NEW i \in Slots, NEW of \in Sections, Refresh(i, of), section' = of
  PROVE  WindowInv'
<1>1. /\ calls'[i] = Refreshing(of, generation + 1)
      /\ \A k \in Slots : k # i => calls'[k] = calls[k]
      /\ generation' = generation + 1 /\ generation \in Nat
  BY DEF Refresh, TypeOK
<1>2. /\ calls'[i] # NoCall /\ calls'[i].kind = "refresh" /\ calls'[i].of = of
      /\ calls'[i].generation = generation + 1 /\ calls'[i].phase = "running"
  BY <1>1, Started, Kinds
<1>3. \A k \in Slots : k # i /\ Waiting(k, {"refresh"})' =>
        calls'[k].generation <= generation /\ calls'[k].generation \in Nat
  BY <1>1, Kinds DEF Latest, Waiting, TypeOK, Refreshes
<1>4. Current(i)'
  BY <1>1, <1>2 DEF Current, Waiting
<1>5. \A k \in Slots : k # i => ~Current(k)'
  BY <1>1, <1>3 DEF Current
<1>6. Latest'
  <2> SUFFICES ASSUME NEW k \in Slots, Waiting(k, {"refresh"})'
               PROVE  /\ calls'[k].generation <= generation'
                      /\ calls'[k].generation = generation' => calls'[k].of = section'
    BY DEF Latest
  <2>1. CASE k = i
    BY <1>1, <1>2, <2>1
  <2>2. CASE k # i
    BY <1>1, <1>3, <2>2
  <2> QED
    BY <2>1, <2>2
<1>7. BusyInv' /\ ShownInv'
  BY <1>2, <1>4 DEF BusyInv, ShownInv, Refresh, Show
<1>8. AnswerInv'
  BY <1>2, <1>5 DEF AnswerInv
<1> QED
  BY <1>6, <1>7, <1>8 DEF WindowInv

\* A command that starts in a free slot, or in that of the settings it is one of.
LEMMA RunKeeps ==
  ASSUME TypeOK, Latest, AnswerInv, ShownInv, NEW i \in Slots,
         NEW kind \in {"command", "settings", "exec"}, NEW of \in Sections,
         NEW left \in 0 .. MaxSteps, Run(i, kind, of, left),
         \/ calls[i] = NoCall
         \/ calls[i].kind = "settings" /\ kind = "settings" /\ calls[i].of = of,
         UNCHANGED <<section, shown, store>>
  PROVE  WindowInv'
<1>1. /\ calls'[i] = Running(kind, of, left)
      /\ \A k \in Slots : k # i => calls'[k] = calls[k]
      /\ UNCHANGED <<generation, loadError, unseen, section, shown, store>>
  BY DEF Run, TypeOK
<1>2. calls'[i] # NoCall /\ calls'[i].kind = kind /\ calls'[i].of = of /\ kind # "refresh"
  BY <1>1, Started, Kinds
<1>3. \A k \in Slots : Waiting(k, {"refresh"})' => k # i /\ Waiting(k, {"refresh"})
  BY <1>1, <1>2 DEF Waiting
<1>4. Latest'
  BY <1>1, <1>3 DEF Latest
<1>5. BusyInv'
  BY <1>2 DEF BusyInv, Run, Show
<1>6. \A k \in Slots : Current(k) <=> Current(k)'
  BY <1>1, <1>2, <1>3 DEF Current, Waiting, NoCall
<1>7. Changes => Changes'
  BY <1>1, <1>2 DEF Changes, Waiting, NoCall
<1>8. AnswerInv'
  BY <1>1, <1>3, <1>6, <1>7 DEF AnswerInv, Current
<1>9. ShownInv'
  BY <1>1, <1>6, <1>7 DEF ShownInv
<1> QED
  BY <1>4, <1>5, <1>8, <1>9 DEF WindowInv

\* A call of another kind comes, which no list and no answer depends on.
LEMMA ComeKeeps ==
  ASSUME TypeOK, Latest, AnswerInv, ShownInv, NEW i \in Slots, calls[i] = NoCall,
         NEW c \in Commands \cup Loads, calls' = [calls EXCEPT ![i] = c],
         ~loading' => busyLabel' = "none",
         UNCHANGED <<section, shown, store, generation, loadError, unseen>>
  PROVE  WindowInv'
<1>1. /\ calls'[i] = c /\ \A k \in Slots : k # i => calls'[k] = calls[k]
      /\ c # NoCall /\ c.kind # "refresh"
  BY Kinds DEF TypeOK
<1>2. \A k \in Slots : Current(k) <=> Current(k)'
  BY <1>1 DEF Current, Waiting
<1>3. Changes => Changes'
  BY <1>1 DEF Changes, Waiting
<1>4. Latest'
  BY <1>1 DEF Latest, Waiting
<1>5. BusyInv'
  BY <1>1 DEF BusyInv
<1>6. AnswerInv' /\ ShownInv'
  BY <1>1, <1>2, <1>3 DEF AnswerInv, ShownInv, Current, Waiting
<1> QED
  BY <1>4, <1>5, <1>6 DEF WindowInv

\* A call ends, and what it may have changed or would have shown is noted.
LEMMA GoKeeps ==
  ASSUME TypeOK, Latest, AnswerInv, ShownInv, NEW i \in Slots, Finish(i),
         Waiting(i, {"command", "settings"}) => calls[i].of \in unseen',
         Current(i) => section \in unseen',
         unseen \subseteq unseen', BusyInv',
         UNCHANGED <<section, shown, store, generation, loadError>>
  PROVE  WindowInv'
<1>1. calls'[i] = NoCall /\ \A k \in Slots : k # i => calls'[k] = calls[k]
  BY DEF Finish, TypeOK
<1>2. \A k \in Slots : Current(k)' <=> k # i /\ Current(k)
  BY <1>1 DEF Current, Waiting
<1>3. Changes => Changes'
  BY <1>1 DEF Changes, Waiting
<1>4. Current(i) => Changes'
  BY DEF Changes
<1>5. Latest'
  BY <1>1 DEF Latest, Waiting
<1>6. AnswerInv'
  BY <1>1, <1>2, <1>3 DEF AnswerInv
<1>7. ShownInv'
  BY <1>2, <1>3, <1>4 DEF ShownInv
<1> QED
  BY <1>5, <1>6, <1>7 DEF WindowInv

\* Every step keeps the invariants.
LEMMA InvStep == TypeOK /\ WindowInv /\ [Next]_vars => WindowInv'
<1> SUFFICES ASSUME TypeOK, Latest, BusyInv, AnswerInv, ShownInv, [Next]_vars
             PROVE  WindowInv'
  BY DEF WindowInv
<1> USE DEF WindowInv
<1>1. ASSUME PressRefresh PROVE WindowInv'
  <2>1. PICK i \in Slots : Refresh(i, section)
    BY <1>1 DEF PressRefresh, Free
  <2> QED
    BY <1>1, <2>1, RefreshKeeps DEF PressRefresh, TypeOK
<1>2. ASSUME ChangeSection PROVE WindowInv'
  <2>1. PICK i \in Slots, s \in Sections : section' = s /\ Refresh(i, s)
    BY <1>2 DEF ChangeSection, Free
  <2> QED
    BY <2>1, RefreshKeeps
<1>3. ASSUME PressCommand PROVE WindowInv'
  <2>1. PICK i \in Slots : calls[i] = NoCall /\ Run(i, "command", "containers", 0)
    BY <1>3 DEF PressCommand, Free
  <2>2. /\ 0 \in 0 .. MaxSteps /\ "containers" \in Sections
        /\ UNCHANGED <<section, shown, store>>
    BY <1>3, GuiAssumption DEF PressCommand, Act, Sections
  <2> QED
    BY <2>1, <2>2, RunKeeps
<1>4. ASSUME PressQuestion PROVE WindowInv'
  <2>1. UNCHANGED <<section, shown, store, generation, loadError, unseen, calls, loading,
                    busyLabel, stranded>>
    BY <1>4 DEF PressQuestion, Act, NoKill
  <2> QED
    BY <2>1 DEF Latest, BusyInv, AnswerInv, ShownInv, Changes, Current, Waiting
<1>5. ASSUME PressLoad PROVE WindowInv'
  <2>1. PICK i \in Slots, question \in Questions :
           /\ calls[i] = NoCall
           /\ Show(TRUE, "templates") \/ Show(TRUE, "mounts")
           /\ calls' = [calls EXCEPT ![i] = Running("load", question, 0)]
    BY <1>5 DEF PressLoad, Questions, Free
  <2>2. UNCHANGED <<section, shown, store, generation, loadError, unseen>>
    BY <1>5 DEF PressLoad, Act
  <2>3. Running("load", question, 0) \in Commands \cup Loads /\ loading'
    BY <2>1, Started DEF Show
  <2> QED
    BY <2>1, <2>2, <2>3, ComeKeeps
<1>6. ASSUME Answer PROVE WindowInv'
  <2>1. PICK i \in Slots, question \in {"command", "exec"}, of \in Sections :
           calls[i] = NoCall /\ Run(i, question, of, 0)
    BY <1>6 DEF Answer, Free
  <2>2. /\ 0 \in 0 .. MaxSteps /\ question \in {"command", "settings", "exec"}
        /\ UNCHANGED <<section, shown, store>>
    BY <1>6, GuiAssumption DEF Answer, Act
  <2> QED
    BY <2>1, <2>2, RunKeeps
<1>7. ASSUME SaveSettings PROVE WindowInv'
  <2>1. PICK i \in Slots, left \in 0 .. MaxSteps :
           /\ calls[i] = NoCall
           /\ calls' = [calls EXCEPT ![i] =
                          [Running("settings", "containers", left) EXCEPT !.phase = "closing"]]
    BY <1>7 DEF SaveSettings, Free
  <2>2. [Running("settings", "containers", left) EXCEPT !.phase = "closing"]
          \in Commands \cup Loads
    BY Started DEF Commands, Phases, Sections
  <2>3. /\ UNCHANGED <<section, shown, store, generation, loadError, unseen>>
        /\ ~loading' => busyLabel' = "none"
    BY <1>7 DEF SaveSettings, Act, BusyInv
  <2> QED
    BY <2>1, <2>2, <2>3, ComeKeeps
<1>8. ASSUME Dismiss PROVE WindowInv'
  <2>1. UNCHANGED <<section, shown, store, generation, loadError, unseen, calls, loading,
                    busyLabel, stranded>>
    BY <1>8 DEF Dismiss, Act, NoKill
  <2> QED
    BY <2>1 DEF Latest, BusyInv, AnswerInv, ShownInv, Changes, Current, Waiting
<1>9. ASSUME Cancel PROVE WindowInv'
  <2>1. ASSUME NEW k \in Slots
        PROVE  /\ calls'[k] # NoCall <=> calls[k] # NoCall
               /\ calls[k] # NoCall => calls'[k].kind = calls[k].kind
               /\ calls[k] # NoCall => calls'[k].of = calls[k].of
               /\ Waiting(k, {"refresh"}) => calls'[k].generation = calls[k].generation
               /\ Waiting(k, {"refresh"}) /\ calls'[k].ok => calls'[k] = calls[k]
    <3>1. PICK killed \in SUBSET Active :
             calls'[k] = IF k \in killed THEN Killed(calls[k]) ELSE calls[k]
      BY <1>9 DEF Cancel
    <3>2. CASE calls'[k] = calls[k]
      BY <3>2
    <3>3. CASE calls[k] \in Calls /\ calls[k] # NoCall /\ calls'[k] = Killed(calls[k])
      BY <3>3, KilledCall DEF Waiting
    <3> QED
      BY <3>1, <3>2, <3>3 DEF Active, InProcess, TypeOK, Calls
  <2>2. /\ UNCHANGED <<section, shown, store, generation, loadError, unseen, loading, stranded>>
        /\ loading
    BY <1>9 DEF Cancel, CancelVisible, Act
  <2>3. \A k \in Slots : Waiting(k, {"refresh"}) <=> Waiting(k, {"refresh"})'
    BY <2>1 DEF Waiting
  <2>4. \A k \in Slots : Current(k) <=> Current(k)'
    BY <2>1, <2>2, <2>3 DEF Current
  <2>5. Changes => Changes'
    BY <2>1, <2>2 DEF Changes, Waiting
  <2>6. Latest'
    <3> SUFFICES ASSUME NEW k \in Slots, Waiting(k, {"refresh"})'
                 PROVE  /\ calls'[k].generation <= generation'
                        /\ calls'[k].generation = generation' => calls'[k].of = section'
      BY DEF Latest
    <3>1. Waiting(k, {"refresh"}) /\ calls[k] # NoCall
      BY <2>3 DEF Waiting
    <3>2. calls'[k].generation = calls[k].generation /\ calls'[k].of = calls[k].of
      BY <2>1, <3>1
    <3> QED
      BY <2>2, <3>1, <3>2 DEF Latest
  <2>7. BusyInv'
    <3>1. ASSUME NEW k \in Slots, calls[k] # NoCall, calls[k].kind = "refresh" => Current(k)
          PROVE  calls'[k] # NoCall /\ (calls'[k].kind = "refresh" => Current(k)')
      BY <2>1, <2>4, <3>1
    <3> QED
      BY <2>2, <3>1 DEF BusyInv
  <2>8. AnswerInv'
    <3> SUFFICES ASSUME NEW k \in Slots, Current(k)', calls'[k].phase # "running", calls'[k].ok
                 PROVE  calls'[k].seen = store'[section'] \/ Changes'
      BY DEF AnswerInv
    <3>1. Current(k) /\ Waiting(k, {"refresh"})
      BY <2>4 DEF Current
    <3>2. calls'[k] = calls[k]
      BY <2>1, <3>1
    <3> QED
      BY <2>2, <2>5, <3>1, <3>2 DEF AnswerInv
  <2>9. ShownInv'
    BY <2>2, <2>4, <2>5 DEF ShownInv
  <2> QED
    BY <2>6, <2>7, <2>8, <2>9
<1>10. ASSUME OrphanEnds PROVE WindowInv'
  <2>1. PICK s \in Sections :
           \/ store' = [store EXCEPT ![s] = store[s] + 1] /\ unseen' = unseen \cup {s}
           \/ UNCHANGED <<store, unseen>>
    BY <1>10 DEF OrphanEnds, TypeOK
  <2>2. UNCHANGED <<section, shown, generation, loadError, loading, busyLabel, stranded, calls>>
    BY <1>10 DEF OrphanEnds, windowVars
  <2>3. (Changes => Changes') /\ (store'[section] = store[section] \/ Changes')
    BY <2>1, <2>2 DEF Changes, Waiting, TypeOK
  <2> QED
    BY <2>2, <2>3 DEF Latest, BusyInv, AnswerInv, ShownInv, Current, Waiting
<1>11. ASSUME NEW i \in Slots, ProcessWorks(i) PROVE WindowInv'
  <2>1. UNCHANGED <<section, shown, generation, loadError, loading, busyLabel, stranded, unseen>>
    BY <1>11 DEF ProcessWorks, windowVars
  <2>2. calls[i] \in Calls /\ calls[i] # NoCall /\ calls[i].phase = "running"
        /\ \A k \in Slots : k # i => calls'[k] = calls[k]
    BY <1>11 DEF ProcessWorks, InProcess, TypeOK, Calls
  <2>3. CASE calls[i] \in Refreshes
    <3>1. calls'[i] = [calls[i] EXCEPT !.phase = "worked", !.seen = store[calls[i].of]]
          /\ store' = store
      BY <1>11, <2>3, Kinds DEF ProcessWorks, InProcess, TypeOK
    <3>2. /\ calls'[i] \in Refreshes /\ calls'[i].of = calls[i].of
          /\ calls'[i].generation = calls[i].generation
          /\ calls'[i].seen = store[calls[i].of]
      BY <2>3, <3>1 DEF Refreshes, Phases, TypeOK
    <3>3. calls'[i] # NoCall /\ calls'[i].kind = calls[i].kind
      BY <2>3, <3>2, Kinds
    <3>4. \A k \in Slots : Current(k) <=> Current(k)'
      BY <2>1, <2>2, <3>2, <3>3 DEF Current, Waiting
    <3>5. Changes => Changes'
      BY <2>1, <2>2, <3>2, <3>3 DEF Changes, Waiting
    <3>6. Latest'
      BY <2>1, <2>2, <3>2, <3>3 DEF Latest, Waiting
    <3>7. BusyInv'
      BY <2>1, <2>2, <3>3, <3>4 DEF BusyInv
    <3>8. Current(i) => calls'[i].seen = store'[section']
      BY <2>1, <3>1, <3>2 DEF Latest, Current
    <3>9. AnswerInv'
      BY <2>1, <2>2, <3>1, <3>4, <3>5, <3>8 DEF AnswerInv
    <3>10. ShownInv'
      BY <2>1, <3>1, <3>4, <3>5 DEF ShownInv
    <3> QED
      BY <3>6, <3>7, <3>9, <3>10
  <2>4. CASE calls[i] \in Commands \cup Loads
    <3>1. /\ calls'[i] = [calls[i] EXCEPT !.phase = "worked"] /\ calls[i].kind # "refresh"
          /\ store' = IF calls[i].kind \in {"command", "settings"}
                        THEN [store EXCEPT ![calls[i].of] = store[calls[i].of] + 1] ELSE store
      BY <1>11, <2>4, Kinds DEF ProcessWorks, InProcess, TypeOK
    <3>2. calls'[i] \in Commands \cup Loads /\ calls'[i].of = calls[i].of
          /\ calls'[i].kind = calls[i].kind
      BY <2>4, <3>1 DEF Commands, Loads, Phases
    <3>3. calls'[i] # NoCall
      BY <3>2, Kinds
    <3>4. \A k \in Slots : Current(k) <=> Current(k)'
      BY <2>1, <2>2, <3>1, <3>2, <3>3 DEF Current, Waiting
    <3>5. Changes => Changes'
      BY <2>1, <2>2, <3>2, <3>3 DEF Changes, Waiting
    <3>6. Latest'
      BY <2>1, <2>2, <3>1, <3>2 DEF Latest, Waiting
    <3>7. BusyInv'
      BY <2>1, <2>2, <3>1, <3>2, <3>3, <3>4 DEF BusyInv
    <3>8. store'[section] = store[section] \/ Changes'
      BY <2>1, <3>1, <3>2, <3>3 DEF Changes, Waiting, TypeOK
    <3>9. \A k \in Slots : Current(k) => k # i
      BY <3>1 DEF Current, Waiting
    <3>10. AnswerInv'
      BY <2>1, <2>2, <3>4, <3>5, <3>8, <3>9 DEF AnswerInv
    <3>11. ShownInv'
      BY <2>1, <3>4, <3>5, <3>8 DEF ShownInv
    <3> QED
      BY <3>6, <3>7, <3>10, <3>11
  <2> QED
    BY <2>2, <2>3, <2>4 DEF Calls
<1>12. ASSUME NEW i \in Slots, ProcessEnds(i) PROVE WindowInv'
  <2>1. UNCHANGED <<section, shown, store, generation, loadError, loading, busyLabel, stranded,
                    unseen>>
    BY <1>12 DEF ProcessEnds, windowVars
  <2>2. /\ calls[i] \in Calls /\ calls[i] # NoCall
        /\ \A k \in Slots : k # i => calls'[k] = calls[k]
    BY <1>12 DEF ProcessEnds, Active, InProcess, TypeOK, Calls
  <2>3. \/ calls'[i] = Killed(calls[i])
        \/ calls'[i] = [calls[i] EXCEPT !.phase = "exited"] /\ calls[i].phase = "worked"
    BY <1>12 DEF ProcessEnds, InProcess, TypeOK
  <2>4. /\ calls'[i] # NoCall /\ calls'[i].kind = calls[i].kind
        /\ calls'[i].of = calls[i].of
        /\ calls[i].kind = "refresh" => calls'[i].generation = calls[i].generation
        /\ calls[i].kind = "refresh" /\ calls'[i].ok =>
             /\ calls'[i].seen = calls[i].seen
             /\ calls[i].ok /\ calls[i].phase # "running"
    <3>1. CASE calls'[i] = Killed(calls[i])
      BY <2>2, <3>1, KilledCall
    <3>2. CASE calls'[i] = [calls[i] EXCEPT !.phase = "exited"] /\ calls[i].phase = "worked"
      <4>1. CASE calls[i] \in Refreshes
        <5>1. /\ calls'[i] \in Refreshes /\ calls'[i].of = calls[i].of
              /\ calls'[i].generation = calls[i].generation /\ calls'[i].seen = calls[i].seen
              /\ calls'[i].ok = calls[i].ok
          BY <3>2, <4>1 DEF Refreshes, Phases
        <5> QED
          BY <3>2, <4>1, <5>1, Kinds
      <4>2. CASE calls[i] \in Commands
        <5>1. /\ calls'[i] \in Commands /\ calls'[i].of = calls[i].of
              /\ calls'[i].kind = calls[i].kind
          BY <3>2, <4>2 DEF Commands, Phases
        <5> QED
          BY <4>2, <5>1, Kinds
      <4>3. CASE calls[i] \in Loads
        <5>1. calls'[i] \in Loads /\ calls'[i].of = calls[i].of
          BY <3>2, <4>3 DEF Loads, Phases
        <5> QED
          BY <4>3, <5>1, Kinds
      <4> QED
        BY <2>2, <4>1, <4>2, <4>3 DEF Calls
    <3> QED
      BY <2>3, <3>1, <3>2
  <2>5. \A k \in Slots : Waiting(k, {"refresh"}) <=> Waiting(k, {"refresh"})'
    BY <2>2, <2>4 DEF Waiting
  <2>6. \A k \in Slots : Current(k) <=> Current(k)'
    BY <2>1, <2>2, <2>4, <2>5 DEF Current, Waiting
  <2>7. Changes => Changes'
    BY <2>1, <2>2, <2>4, <2>5 DEF Changes, Waiting
  <2>8. Latest'
    BY <2>1, <2>2, <2>4, <2>5 DEF Latest, Waiting
  <2>9. BusyInv'
    BY <2>1, <2>2, <2>4, <2>6 DEF BusyInv
  <2>10. AnswerInv'
    BY <2>1, <2>2, <2>4, <2>6, <2>7 DEF AnswerInv, Current, Waiting
  <2>11. ShownInv'
    BY <2>1, <2>6, <2>7 DEF ShownInv
  <2> QED
    BY <2>8, <2>9, <2>10, <2>11
<1>13. ASSUME NEW i \in Slots, RefreshAnswered(i) PROVE WindowInv'
  <2>1. /\ calls[i] # NoCall /\ calls[i].kind = "refresh" /\ calls[i].phase = "exited"
        /\ calls'[i] = NoCall /\ \A k \in Slots : k # i => calls'[k] = calls[k]
        /\ UNCHANGED <<section, generation, store>> /\ Finish(i)
    BY <1>13 DEF RefreshAnswered, InProcess, Finish, TypeOK
  <2>2. \A k \in Slots : Current(k)' <=> k # i /\ Current(k)
    BY <2>1 DEF Current, Waiting
  <2>3. Outdated(calls[i]) <=> ~Current(i)
    BY <2>1 DEF Outdated, Current, Waiting, Latest
  <2>4. CASE ~Current(i)
    <3>1. UNCHANGED <<shown, loading, busyLabel, loadError, stranded, unseen>>
      BY <1>13, <2>3, <2>4 DEF RefreshAnswered
    <3>2. BusyInv'
      BY <2>1, <2>2, <2>4, <3>1 DEF BusyInv
    <3>3. ~Waiting(i, {"command", "settings"})
      BY <2>1 DEF Waiting
    <3> QED
      BY <2>1, <2>4, <3>1, <3>2, <3>3, GoKeeps
  <2>5. CASE Current(i)
    <3>1. calls[i].of = section /\ (calls[i].ok => calls[i].seen = store[section] \/ Changes)
      BY <2>1, <2>5 DEF Latest, AnswerInv, Current
    <3>2. /\ ~loading' /\ busyLabel' = "none" /\ loadError' = ~calls[i].ok
          /\ unseen \subseteq unseen'
      BY <1>13, <2>3, <2>5 DEF RefreshAnswered, Show
    <3>3. \/ calls[i].ok /\ shown'[section] = calls[i].seen
          \/ section \in unseen'
          \/ ~calls[i].ok
      BY <1>13, <2>3, <2>5, <3>1 DEF RefreshAnswered, TypeOK
    <3>4. Changes => Changes'
      BY <2>1, <3>2 DEF Changes, Waiting
    <3>5. Latest'
      BY <2>1 DEF Latest, Waiting
    <3>6. BusyInv'
      BY <3>2 DEF BusyInv
    <3>7. AnswerInv'
      BY <2>1, <2>2, <3>4 DEF AnswerInv
    <3>8. ShownInv'
      BY <2>1, <3>1, <3>2, <3>3, <3>4 DEF ShownInv, Changes
    <3> QED
      BY <3>5, <3>6, <3>7, <3>8
  <2> QED
    BY <2>4, <2>5
<1>14. ASSUME NEW i \in Slots, CommandEnded(i) PROVE WindowInv'
  <2>1. CASE calls[i].ok
    BY <1>14, <2>1, RefreshKeeps DEF CommandEnded, TypeOK
  <2>2. CASE ~calls[i].ok
    <3>1. /\ Finish(i) /\ ~loading' /\ busyLabel' = "none"
          /\ unseen' = unseen \cup {calls[i].of}
          /\ calls[i].kind = "command"
          /\ UNCHANGED <<section, shown, store, generation, loadError>>
      BY <1>14, <2>2 DEF CommandEnded, Show
    <3>2. ~Current(i) /\ BusyInv'
      BY <3>1 DEF Current, Waiting, BusyInv
    <3> QED
      BY <3>1, <3>2, GoKeeps
  <2> QED
    BY <2>1, <2>2
<1>15. ASSUME NEW i \in Slots, SettingEnded(i) PROVE WindowInv'
  <2>1. CASE calls[i].ok /\ calls[i].left > 0
    <3>1. calls[i] \in Commands /\ calls[i].kind = "settings"
      BY <1>15, Kinds DEF SettingEnded, InProcess, TypeOK
    <3>2. calls[i].of \in Sections /\ calls[i].left - 1 \in 0 .. MaxSteps
      BY <2>1, <3>1, GuiAssumption DEF Commands
    <3>3. Run(i, "settings", calls[i].of, calls[i].left - 1)
          /\ UNCHANGED <<section, shown, store>>
      BY <1>15, <2>1 DEF SettingEnded
    <3> QED
      BY <3>1, <3>2, <3>3, RunKeeps
  <2>2. CASE ~(calls[i].ok /\ calls[i].left > 0)
    BY <1>15, <2>2, RefreshKeeps DEF SettingEnded, TypeOK
  <2> QED
    BY <2>1, <2>2
<1>16. ASSUME NEW i \in Slots, ExecEnded(i) PROVE WindowInv'
  <2>1. /\ Finish(i) /\ ~loading' /\ busyLabel' = "none" /\ calls[i].kind = "exec"
        /\ UNCHANGED <<section, shown, store, generation, loadError, unseen>>
    BY <1>16 DEF ExecEnded, Show
  <2>2. ~Current(i) /\ ~Waiting(i, {"command", "settings"}) /\ BusyInv'
    BY <2>1 DEF Current, Waiting, BusyInv
  <2> QED
    BY <2>1, <2>2, GoKeeps
<1>17. ASSUME NEW i \in Slots, LoadEnded(i) PROVE WindowInv'
  <2>1. /\ Finish(i) /\ ~loading' /\ busyLabel' = "none" /\ calls[i].kind = "load"
        /\ UNCHANGED <<section, shown, store, generation, loadError, unseen>>
    BY <1>17 DEF LoadEnded, Show
  <2>2. ~Current(i) /\ ~Waiting(i, {"command", "settings"}) /\ BusyInv'
    BY <2>1 DEF Current, Waiting, BusyInv
  <2> QED
    BY <2>1, <2>2, GoKeeps
<1>18. ASSUME NEW i \in Slots, OutputThrows(i) PROVE WindowInv'
  <2>1. /\ calls[i] # NoCall /\ Finish(i)
        /\ UNCHANGED <<section, shown, loading, busyLabel, loadError, generation, store>>
    BY <1>18 DEF OutputThrows, InProcess
  <2>2. \A k \in Slots : Current(k)' <=> k # i /\ Current(k)
    BY <2>1 DEF Finish, Current, Waiting, TypeOK
  <2>3. CASE calls[i].kind = "refresh" /\ Outdated(calls[i])
    <3>1. UNCHANGED <<stranded, unseen>>
      BY <1>18, <2>3 DEF OutputThrows
    <3>2. ~Current(i) /\ ~Waiting(i, {"command", "settings"})
      BY <2>3 DEF Outdated, Current, Waiting, Latest
    <3>3. BusyInv'
      <4>1. \A k \in Slots : k # i => calls'[k] = calls[k]
        BY <2>1 DEF Finish, TypeOK
      <4> QED
        BY <2>1, <2>2, <2>3, <3>1, <3>2, <4>1 DEF BusyInv
    <3> QED
      BY <2>1, <3>1, <3>2, <3>3, GoKeeps
  <2>4. CASE ~(calls[i].kind = "refresh" /\ Outdated(calls[i]))
    <3>1. /\ stranded' = loading
          /\ unseen' = IF calls[i].kind \in {"refresh", "command", "settings"}
                       THEN unseen \cup {calls[i].of} ELSE unseen
      BY <1>18, <2>4 DEF OutputThrows
    <3>2. BusyInv'
      BY <2>1, <3>1 DEF BusyInv
    <3>3. /\ Waiting(i, {"command", "settings"}) => calls[i].of \in unseen'
          /\ Current(i) => section \in unseen'
      BY <3>1 DEF Waiting, Current, Latest
    <3> QED
      BY <2>1, <3>1, <3>2, <3>3, GoKeeps
  <2> QED
    BY <2>3, <2>4
<1>19. CASE UNCHANGED vars
  BY <1>19 DEF vars, Latest, BusyInv, AnswerInv, ShownInv, Changes, Current, Waiting
<1> QED
  BY <1>1, <1>2, <1>3, <1>4, <1>5, <1>6, <1>7, <1>8, <1>9, <1>10, <1>11, <1>12, <1>13,
     <1>14, <1>15, <1>16, <1>17, <1>18, <1>19
     DEF Next, User, Process, Resume

\* They hold when the window opens, with its first refresh under way.
LEMMA InitInv == Init => TypeOK /\ WindowInv
<1> SUFFICES ASSUME Init PROVE TypeOK /\ Latest /\ BusyInv /\ AnswerInv /\ ShownInv
  BY DEF WindowInv
<1>1. PICK i \in Slots :
        calls = [k \in Slots |-> IF k = i THEN Refreshing("containers", 1) ELSE NoCall]
  BY DEF Init
<1>2. /\ calls[i] = Refreshing("containers", 1) /\ \A k \in Slots : k # i => calls[k] = NoCall
      /\ "containers" \in Sections /\ generation = 1 /\ section = "containers"
  BY <1>1 DEF Init, Sections
<1>3. /\ calls[i] # NoCall /\ calls[i].kind = "refresh" /\ calls[i].of = "containers"
      /\ calls[i].generation = 1 /\ calls[i].phase = "running"
  BY <1>2, Started, Kinds
<1>4. TypeOK
  <2>1. calls \in [Slots -> {NoCall} \cup Refreshes \cup Commands \cup Loads]
    <3>1. Refreshing("containers", 1) \in Refreshes
      BY Started DEF Sections
    <3> QED
      BY <1>1, <3>1
  <2>2. actions \in 0 .. MaxActions
    BY GuiAssumption DEF Init
  <2>3. store \in [Sections -> Nat] /\ shown \in [Sections -> Nat]
    BY DEF Init
  <2> QED
    BY <2>1, <2>2, <2>3 DEF Init, TypeOK, Sections
<1>5. Latest
  BY <1>2, <1>3 DEF Latest, Waiting
<1>6. Current(i)
  BY <1>2, <1>3 DEF Current, Waiting
<1>7. BusyInv /\ ShownInv
  BY <1>3, <1>6 DEF BusyInv, ShownInv, Init
<1>8. AnswerInv
  BY <1>2, <1>3 DEF AnswerInv, Current, Waiting
<1> QED
  BY <1>4, <1>5, <1>7, <1>8

\* All of them together are inductive.
LEMMA Invariants == Spec => [](TypeOK /\ WindowInv)
<1> DEFINE I == TypeOK /\ WindowInv
<1>1. Init => I
  BY InitInv
<1>2. I /\ [Next]_vars => I'
  BY TypeStep, InvStep
<1> QED
  BY <1>1, <1>2, PTL DEF Spec

\* Every variable keeps its type, for any number of calls under way and of things
\* the user does.
THEOREM TypeCorrect == Spec => []TypeOK
  BY Invariants, PTL

\* main.dart 141 and 176: with nothing under way the window is not busy.
THEOREM NotLeftBusy == Spec => []IdleWindow
<1>1. WindowInv => IdleWindow
  BY DEF WindowInv, BusyInv, IdleWindow, Quiet
<1> QED
  BY Invariants, <1>1, PTL

\* main.dart 137 and 189: with nothing under way and no error the window shows
\* what bocker holds of its section, whatever order the answers came in.
THEOREM ShowsCurrent == Spec => []ShownIsCurrent
<1>1. WindowInv => ShownIsCurrent
  BY DEF WindowInv, ShownInv, ShownIsCurrent, Quiet, Changes, Current, Waiting
<1> QED
  BY Invariants, <1>1, PTL
=============================================================================
