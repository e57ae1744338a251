-------------------------- MODULE ImageStoreProofs --------------------------
(***************************************************************************)
(* Proofs about the image store, for any number of aliases, images and     *)
(* concurrent commands, reliable or not.                                   *)
(***************************************************************************)
EXTENDS ImageStore, TLAPS

Publishing == {"reading", "creating", "switching"}

\* What a call has read or created before it comes to use it.
Arguments ==
  \A p \in Actors :
    /\ p \in Publishers /\ pc[p] \in Publishing => mine[p] # NoImage
    /\ pc[p] \in {"switching", "unaliasing"} => seen[p] # NoImage

\* Until its alias is set, nobody but its publisher knows a new image.
Fresh ==
  \A q \in Publishers : pc[q] \in Publishing =>
    /\ ~Aliased(mine[q])
    /\ \A p \in Actors : /\ seen[p] # mine[q] /\ doomed[p] # mine[q]
                         /\ p # q => mine[p] # mine[q]

\* An image found unaliased is still so when it is deleted.
Unreferenced == \A p \in Actors : pc[p] = "deleting" => ~Aliased(doomed[p])

IInv == TypeOK /\ Arguments /\ Fresh /\ Unreferenced

\* The invariant holds at first.
LEMMA InitInv == Init => IInv
<1> SUFFICES ASSUME Init PROVE IInv
  OBVIOUS
<1>1. Runners \subseteq Actors /\ Publishers \subseteq Actors
  BY DEF Actors
<1>2. TypeOK
  BY <1>1 DEF Init, TypeOK, Nothing, Steps
<1>3. Arguments /\ Fresh /\ Unreferenced
  BY <1>1 DEF Init, Arguments, Fresh, Unreferenced, Publishing
<1>4. QED BY <1>2, <1>3 DEF IInv

\* No request but that of a publish puts an image under an alias, and it puts
\* its own there.
LEMMA AliasSteps ==
  ASSUME NEW p \in Actors, Request(p) \/ Killed(p), TypeOK
  PROVE  \A a \in Aliases :
           \/ aliases'[a] \in {aliases[a], NoImage}
           \/ /\ p \in Publishers /\ pc[p] \in Publishing
              /\ aliases'[a] = mine[p] /\ pc'[p] \notin Publishing
<1> USE DEF TypeOK, Goto, Return, CleanUp, SetAlias, Target, Publishing, Steps
<1>1. CASE CreateImage(p) BY <1>1 DEF CreateImage
<1>2. CASE CreateImageFails(p) BY <1>2 DEF CreateImageFails
<1>3. CASE ReadAlias(p) BY <1>3 DEF ReadAlias
<1>4. CASE SwitchAlias(p) BY <1>4 DEF SwitchAlias
<1>5. CASE CreateAlias(p) BY <1>5 DEF CreateAlias
<1>6. CASE ReadDoomedAlias(p) BY <1>6 DEF ReadDoomedAlias
<1>7. CASE DeleteAlias(p) BY <1>7 DEF DeleteAlias
<1>8. CASE ListAliases(p) BY <1>8 DEF ListAliases
<1>9. CASE DeleteImage(p) BY <1>9 DEF DeleteImage, DropImage
<1>10. CASE ReadProperties(p) BY <1>10 DEF ReadProperties
<1>11. CASE LaunchFromAlias(p) BY <1>11 DEF LaunchFromAlias
<1>12. CASE Killed(p) BY <1>12 DEF Killed
<1>13. QED
  BY <1>1, <1>2, <1>3, <1>4, <1>5, <1>6, <1>7, <1>8, <1>9, <1>10, <1>11, <1>12 DEF Request

\* What a call comes to know is an image it makes, one an alias names, or one
\* it knew already; and it knows what it is about to use.
LEMMA KnownSteps ==
  ASSUME NEW p \in Actors, Request(p) \/ Killed(p), TypeOK, Arguments
  PROVE  /\ \A q \in Actors \ {p} :
              /\ pc'[q] = pc[q] /\ mine'[q] = mine[q]
              /\ seen'[q] = seen[q] /\ doomed'[q] = doomed[q]
         /\ \/ mine'[p] = mine[p]
            \/ /\ p \in Publishers /\ mine'[p] \in Images \ made
               /\ seen'[p] = seen[p] /\ doomed'[p] = doomed[p] /\ aliases' = aliases
               /\ pc'[p] # "deleting"
         /\ seen'[p] = seen[p] \/ Aliased(seen'[p])
         /\ \/ doomed'[p] = doomed[p]
            \/ doomed'[p] = mine[p] /\ p \in Publishers /\ pc'[p] \notin Publishing
            \/ doomed'[p] = seen[p] /\ pc'[p] = "listing"
         /\ p \in Publishers /\ pc'[p] \in Publishing =>
              mine'[p] # mine[p] \/ pc[p] \in Publishing
         /\ pc'[p] = "deleting" => ~Aliased(doomed[p]) /\ doomed'[p] = doomed[p]
                                     /\ aliases' = aliases
         /\ p \in Publishers /\ pc'[p] \in Publishing => mine'[p] # NoImage
         /\ pc'[p] \in {"switching", "unaliasing"} => seen'[p] # NoImage
         /\ made \subseteq made'
<1>0. NoImage \notin Images /\ Publishers \cap Removers = {} /\ Publishers \cap Runners = {}
  BY StoreAssumption
<1> USE <1>0 DEF TypeOK, Arguments, Goto, Return, CleanUp, SetAlias, Target,
                 Publishing, Steps, Aliased
<1>1. CASE CreateImage(p) BY <1>1 DEF CreateImage
<1>2. CASE CreateImageFails(p) BY <1>2 DEF CreateImageFails
<1>3. CASE ReadAlias(p) BY <1>3 DEF ReadAlias
<1>4. CASE SwitchAlias(p) BY <1>4 DEF SwitchAlias
<1>5. CASE CreateAlias(p) BY <1>5 DEF CreateAlias
<1>6. CASE ReadDoomedAlias(p) BY <1>6 DEF ReadDoomedAlias
<1>7. CASE DeleteAlias(p) BY <1>7 DEF DeleteAlias
<1>8. CASE ListAliases(p) BY <1>8 DEF ListAliases
<1>9. CASE DeleteImage(p) BY <1>9 DEF DeleteImage
<1>10. CASE ReadProperties(p) BY <1>10 DEF ReadProperties
<1>11. CASE LaunchFromAlias(p) BY <1>11 DEF LaunchFromAlias
<1>12. CASE Killed(p) BY <1>12 DEF Killed
<1>13. QED
  BY <1>1, <1>2, <1>3, <1>4, <1>5, <1>6, <1>7, <1>8, <1>9, <1>10, <1>11, <1>12 DEF Request

\* A request preserves the types.
LEMMA TypeStep ==
  ASSUME NEW p \in Actors, Request(p) \/ Killed(p), TypeOK, Arguments
  PROVE  TypeOK'
<1>0. NoImage \notin Images /\ Publishers \cap Removers = {} /\ Publishers \cap Runners = {}
  BY StoreAssumption
<1> USE <1>0 DEF TypeOK, Arguments, Goto, Return, Report, CleanUp, SetAlias, Target,
                 Publishing, Steps
<1>1. CASE CreateImage(p) BY <1>1 DEF CreateImage
<1>2. CASE CreateImageFails(p) BY <1>2 DEF CreateImageFails
<1>3. CASE ReadAlias(p) BY <1>3 DEF ReadAlias
<1>4. CASE SwitchAlias(p) BY <1>4 DEF SwitchAlias
<1>5. CASE CreateAlias(p) BY <1>5 DEF CreateAlias
<1>6. CASE ReadDoomedAlias(p) BY <1>6 DEF ReadDoomedAlias
<1>7. CASE DeleteAlias(p) BY <1>7 DEF DeleteAlias
<1>8. CASE ListAliases(p) BY <1>8 DEF ListAliases, Settled
<1>9. CASE DeleteImage(p) BY <1>9 DEF DeleteImage, DropImage, Settled
<1>10. CASE ReadProperties(p) BY <1>10 DEF ReadProperties
<1>11. CASE LaunchFromAlias(p) BY <1>11 DEF LaunchFromAlias
<1>12. CASE Killed(p) BY <1>12 DEF Killed
<1>13. QED
  BY <1>1, <1>2, <1>3, <1>4, <1>5, <1>6, <1>7, <1>8, <1>9, <1>10, <1>11, <1>12 DEF Request

\* A request makes nobody else know a new image.
LEMMA FreshStep ==
  ASSUME NEW p \in Actors, Request(p) \/ Killed(p), IInv
  PROVE  Fresh'
<1>1. TypeOK /\ Arguments /\ Fresh
  BY DEF IInv
<1>2. Publishers \subseteq Actors
  BY DEF Actors
<1> SUFFICES ASSUME NEW q \in Publishers, pc'[q] \in Publishing
             PROVE  /\ ~Aliased(mine[q])'
                    /\ \A r \in Actors : /\ seen'[r] # mine'[q] /\ doomed'[r] # mine'[q]
                                         /\ r # q => mine'[r] # mine'[q]
  BY DEF Fresh
<1>3. CASE mine'[q] = mine[q] /\ pc[q] \in Publishing
  <2>1. /\ ~Aliased(mine[q])
        /\ \A r \in Actors : /\ seen[r] # mine[q] /\ doomed[r] # mine[q]
                             /\ r # q => mine[r] # mine[q]
    BY <1>1, <1>3 DEF Fresh
  <2>2. mine[q] # NoImage /\ mine[q] \in made
    BY <1>1, <1>2, <1>3 DEF Arguments, TypeOK
  <2>3. ~Aliased(mine[q])'
    BY <1>1, <1>2, <1>3, <2>1, <2>2, AliasSteps DEF Aliased
  <2>4. ASSUME NEW r \in Actors
        PROVE  /\ seen'[r] # mine[q] /\ doomed'[r] # mine[q]
               /\ r # q => mine'[r] # mine[q]
    <3>1. CASE r # p
      BY <1>1, <2>1, <2>4, <3>1, KnownSteps
    <3>2. CASE r = p
      <4>1. seen'[p] # mine[q]
        BY <1>1, <2>1, KnownSteps
      <4>2. doomed'[p] # mine[q]
        <5>1. CASE p = q
          BY <1>1, <2>1, <5>1, KnownSteps, <1>2 DEF Publishing
        <5>2. CASE p # q
          BY <1>1, <2>1, <5>2, KnownSteps
        <5>3. QED BY <5>1, <5>2
      <4>3. p # q => mine'[p] # mine[q]
        BY <1>1, <2>1, <2>2, KnownSteps
      <4>4. QED BY <3>2, <4>1, <4>2, <4>3
    <3>3. QED BY <3>1, <3>2
  <2>5. QED BY <1>3, <2>3, <2>4
<1>4. CASE p = q /\ mine'[q] # mine[q]
  <2>1. /\ mine'[q] \in Images \ made /\ aliases' = aliases
        /\ seen'[q] = seen[q] /\ doomed'[q] = doomed[q]
    BY <1>1, <1>4, KnownSteps
  <2>2. mine'[q] # NoImage
    BY <2>1, StoreAssumption
  <2>3. ~Aliased(mine'[q])
    BY <1>1, <2>1, <2>2 DEF Aliased, TypeOK
  <2>4. ~Aliased(mine[q])'
    BY <2>1, <2>3 DEF Aliased
  <2>5. \A r \in Actors : seen'[r] = seen[r] /\ doomed'[r] = doomed[r]
                            /\ (r # q => mine'[r] = mine[r])
    BY <1>1, <1>4, <2>1, KnownSteps
  <2>6. \A r \in Actors : {seen[r], doomed[r], mine[r]} \subseteq made \cup {NoImage}
    BY <1>1 DEF TypeOK
  <2>7. QED BY <2>1, <2>2, <2>4, <2>5, <2>6
<1>5. QED BY <1>1, <1>2, <1>3, <1>4, KnownSteps

\* A request gives no alias to an image found without one.
LEMMA UnreferencedStep ==
  ASSUME NEW p \in Actors, Request(p) \/ Killed(p), IInv
  PROVE  Unreferenced'
<1>1. TypeOK /\ Arguments /\ Fresh /\ Unreferenced
  BY DEF IInv
<1> SUFFICES ASSUME NEW r \in Actors, pc'[r] = "deleting"
             PROVE  ~Aliased(doomed[r])'
  BY DEF Unreferenced
<1>2. ~Aliased(doomed[r]) /\ doomed'[r] = doomed[r]
  <2>1. CASE r = p BY <1>1, <2>1, KnownSteps
  <2>2. CASE r # p BY <1>1, <2>2, KnownSteps DEF Unreferenced
  <2>3. QED BY <2>1, <2>2
<1>3. doomed[r] # NoImage
  <2>1. CASE r = p /\ mine'[p] # mine[p]
    BY <1>1, <2>1, KnownSteps
  <2>2. TypeOK'
    BY <1>1, TypeStep
  <2>3. QED BY <1>2, <2>2 DEF TypeOK
<1>4. p \in Publishers /\ pc[p] \in Publishing => doomed[r] # mine[p]
  BY <1>1 DEF Fresh
<1>5. QED BY <1>1, <1>2, <1>3, <1>4, AliasSteps DEF Aliased

\* Every step preserves the invariant.
LEMMA StepInv == IInv /\ [Next]_vars => IInv'
<1> SUFFICES ASSUME IInv, [Next]_vars PROVE IInv'
  OBVIOUS
<1>1. ASSUME NEW p \in Actors, Request(p) \/ Killed(p) PROVE IInv'
  <2>1. TypeOK /\ Arguments
    BY DEF IInv
  <2>2. TypeOK'
    BY <1>1, <2>1, TypeStep
  <2>3. Arguments'
    <3> SUFFICES ASSUME NEW q \in Actors
                 PROVE /\ q \in Publishers /\ pc'[q] \in Publishing => mine'[q] # NoImage
                       /\ pc'[q] \in {"switching", "unaliasing"} => seen'[q] # NoImage
      BY DEF Arguments
    <3>1. CASE q = p BY <1>1, <2>1, <3>1, KnownSteps
    <3>2. CASE q # p BY <1>1, <2>1, <3>2, KnownSteps DEF Arguments
    <3>3. QED BY <3>1, <3>2
  <2>4. QED BY <1>1, <2>2, <2>3, FreshStep, UnreferencedStep DEF IInv
<1>2. CASE UNCHANGED vars
  BY <1>2 DEF vars, IInv, TypeOK, Arguments, Fresh, Unreferenced, Aliased
<1>3. QED BY <1>1, <1>2 DEF Next

\* Every reachable state is well typed.
THEOREM TypeCorrect == Spec => []TypeOK
<1>1. IInv => TypeOK
  BY DEF IInv
<1>2. QED BY <1>1, InitInv, StepInv, PTL DEF Spec

\* However commands interleave, fail and lose answers, an alias ceases to name
\* an image only by a request to remove that alias.
THEOREM AliasesSurvive == Spec => AliasSurvives
<1> DEFINE Asked(a) == \E r \in Removers : alias[r] = a /\ pc[r] = "unaliasing"
                                             /\ pc'[r] # "unaliasing"
           Kept == \A a \in Aliases : aliases[a] # NoImage /\ aliases'[a] = NoImage => Asked(a)
<1>1. IInv /\ [Next]_vars => [Kept]_vars
  <2> SUFFICES ASSUME IInv, Next PROVE Kept
    OBVIOUS
  <2>1. TypeOK /\ Arguments /\ Unreferenced
    BY DEF IInv
  <2>2. ASSUME NEW p \in Actors, Request(p) \/ Killed(p),
               NEW a \in Aliases, aliases[a] # NoImage, aliases'[a] = NoImage
        PROVE  Asked(a)
    <3> USE DEF Goto, Return, CleanUp, SetAlias
    <3>1. p \in Publishers /\ pc[p] \in Publishing => mine[p] # NoImage
      BY <2>1 DEF Arguments
    <3>2. CASE DeleteAlias(p)
      BY <2>1, <2>2, <3>2 DEF DeleteAlias, TypeOK
    <3>3. CASE DeleteImage(p)
      <4>1. ~Aliased(doomed[p])
        BY <2>1, <3>3 DEF Unreferenced, DeleteImage
      <4>2. QED BY <2>2, <3>3, <4>1 DEF DeleteImage, DropImage, Aliased
    <3>4. CASE SwitchAlias(p)
      BY <2>1, <2>2, <3>1, <3>4 DEF SwitchAlias, TypeOK, Publishing
    <3>5. CASE CreateAlias(p)
      BY <2>1, <2>2, <3>1, <3>5 DEF CreateAlias, TypeOK, Publishing
    <3>6. CASE CreateImage(p) \/ CreateImageFails(p) \/ ReadAlias(p) \/ ReadDoomedAlias(p)
                 \/ ListAliases(p) \/ ReadProperties(p) \/ LaunchFromAlias(p) \/ Killed(p)
      BY <2>2, <3>6 DEF CreateImage, CreateImageFails, ReadAlias, ReadDoomedAlias,
                        ListAliases, ReadProperties, LaunchFromAlias, Killed
    <3>7. QED BY <2>2, <3>2, <3>3, <3>4, <3>5, <3>6 DEF Request
  <2>3. QED BY <2>2 DEF Next
<1>2. QED BY <1>1, InitInv, StepInv, PTL DEF Spec, AliasSurvives

-----------------------------------------------------------------------------
(* NoOrphans speaks of the moments when no command is at work.  In between, *)
(* an image without an alias is in the hands of a command: of the publish   *)
(* that made it, of one that is about to delete it, or of a removal that    *)
(* failed and says so.                                                      *)

AwaitedBy(p, i) ==
  \/ p \in Publishers /\ pc[p] \in Publishing /\ mine[p] = i
  \/ pc[p] \in {"listing", "deleting"} /\ doomed[p] = i
  \/ p \in Removers \cap Unreliable /\ pc[p] = "done" /\ outcome[p] = "failed"

\* The commands whose leftovers NoOrphans excuses have not been called.
Tidy ==
  \/ Called \cap Removers = {} /\ Called \cap Publishers \cap Unreliable = {}
  \/ Called \cap Publishers = {}

Awaited ==
  Tidy => \A i \in images : Aliased(i) \/ \E p \in Actors : AwaitedBy(p, i)

\* Without a publish, the alias a removal is about to delete names what it read
\* or is gone by now.
Current ==
  Called \cap Publishers = {} =>
    \A p \in Removers : pc[p] = "unaliasing" => Target(p) \in {seen[p], NoImage}

Deleters ==
  \A p \in Actors : pc[p] \in {"listing", "deleting"} => p \in Publishers \cup Removers

OrphanInv == Awaited /\ Current /\ Deleters

\* A call is called for good, and reads the alias it removes.
LEMMA CallSteps ==
  ASSUME NEW p \in Actors, Request(p) \/ Killed(p), TypeOK
  PROVE  /\ pc'[p] # "start" /\ alias' = alias
         /\ \A q \in Actors \ {p} : pc'[q] = pc[q] /\ mine'[q] = mine[q]
              /\ seen'[q] = seen[q] /\ doomed'[q] = doomed[q] /\ outcome'[q] = outcome[q]
         /\ pc'[p] = "unaliasing" => seen'[p] = Target(p) /\ aliases' = aliases
         /\ pc'[p] \in {"listing", "deleting"} =>
              p \in Publishers \cup Removers \/ pc[p] \in {"listing", "deleting"}
<1> USE DEF TypeOK, Goto, Return, Report, CleanUp
<1>1. CASE CreateImage(p) BY <1>1 DEF CreateImage
<1>2. CASE CreateImageFails(p) BY <1>2 DEF CreateImageFails
<1>3. CASE ReadAlias(p) BY <1>3 DEF ReadAlias
<1>4. CASE SwitchAlias(p) BY <1>4 DEF SwitchAlias
<1>5. CASE CreateAlias(p) BY <1>5 DEF CreateAlias
<1>6. CASE ReadDoomedAlias(p) BY <1>6 DEF ReadDoomedAlias
<1>7. CASE DeleteAlias(p) BY <1>7 DEF DeleteAlias
<1>8. CASE ListAliases(p) BY <1>8 DEF ListAliases, Settled
<1>9. CASE DeleteImage(p) BY <1>9 DEF DeleteImage, Settled
<1>10. CASE ReadProperties(p) BY <1>10 DEF ReadProperties
<1>11. CASE LaunchFromAlias(p) BY <1>11 DEF LaunchFromAlias
<1>12. CASE Killed(p) BY <1>12 DEF Killed
<1>13. QED
  BY <1>1, <1>2, <1>3, <1>4, <1>5, <1>6, <1>7, <1>8, <1>9, <1>10, <1>11, <1>12 DEF Request

\* An image that a request leaves without an alias is in the caller's hands, or
\* was without one and out of them before.
LEMMA HandOver ==
  ASSUME NEW p \in Actors, Request(p) \/ Killed(p), TypeOK, Current, Deleters,
         p \in Publishers => p \notin Unreliable,
         p \in Removers /\ pc[p] # "start" => Called \cap Publishers = {}
  PROVE  \A i \in images' : \/ Aliased(i)' \/ AwaitedBy(p, i)'
                            \/ i \in images /\ ~Aliased(i) /\ ~AwaitedBy(p, i)
<1>0. NoImage \notin Images /\ Publishers \cap Removers = {} /\ Publishers \cap Runners = {}
  BY StoreAssumption
<1> USE <1>0 DEF TypeOK, Goto, Return, Report, CleanUp, SetAlias, Target, Publishing,
                 Aliased, AwaitedBy
<1>1. CASE CreateImage(p) BY <1>1 DEF CreateImage
<1>2. CASE CreateImageFails(p) BY <1>2 DEF CreateImageFails
<1>3. CASE ReadAlias(p) BY <1>3 DEF ReadAlias
<1>4. CASE SwitchAlias(p) BY <1>4 DEF SwitchAlias
<1>5. CASE CreateAlias(p) BY <1>5 DEF CreateAlias
<1>6. CASE ReadDoomedAlias(p) BY <1>6 DEF ReadDoomedAlias
<1>7. CASE DeleteAlias(p) BY <1>7 DEF DeleteAlias, Current
<1>8. CASE ListAliases(p) BY <1>8 DEF ListAliases, Settled, Deleters
<1>9. CASE DeleteImage(p) BY <1>9 DEF DeleteImage, DropImage, Settled, Deleters
<1>10. CASE ReadProperties(p) BY <1>10 DEF ReadProperties
<1>11. CASE LaunchFromAlias(p) BY <1>11 DEF LaunchFromAlias
<1>12. CASE Killed(p) BY <1>12 DEF Killed, Deleters
<1>13. QED
  BY <1>1, <1>2, <1>3, <1>4, <1>5, <1>6, <1>7, <1>8, <1>9, <1>10, <1>11, <1>12 DEF Request

\* Every step keeps each image in somebody's hands.
LEMMA OrphanStep == TypeOK /\ OrphanInv /\ [Next]_vars => OrphanInv'
<1> SUFFICES ASSUME TypeOK, OrphanInv, [Next]_vars PROVE OrphanInv'
  OBVIOUS
<1>1. Awaited /\ Current /\ Deleters
  BY DEF OrphanInv
<1>2. Publishers \subseteq Actors /\ Removers \subseteq Actors
  BY DEF Actors
<1>3. ASSUME NEW p \in Actors, Request(p) \/ Killed(p) PROVE OrphanInv'
  <2>1. Called \subseteq Called' /\ p \in Called'
    BY <1>3, CallSteps DEF Called
  <2>2. Deleters'
    BY <1>1, <1>3, CallSteps DEF Deleters
  <2>3. Current'
    <3> SUFFICES ASSUME Called' \cap Publishers = {},
                        NEW r \in Removers, pc'[r] = "unaliasing"
                 PROVE  Target(r)' \in {seen'[r], NoImage}
      BY DEF Current
    <3>1. p \notin Publishers /\ Called \cap Publishers = {}
      BY <2>1
    <3>2. Target(r)' \in {Target(r), NoImage}
      BY <1>2, <1>3, <3>1, AliasSteps, CallSteps DEF Target, TypeOK
    <3>3. CASE r = p
      BY <1>3, <3>2, <3>3, CallSteps
    <3>4. CASE r # p
      BY <1>1, <1>2, <1>3, <3>1, <3>2, <3>4, CallSteps DEF Current
    <3>5. QED BY <3>3, <3>4
  <2>4. Awaited'
    <3> SUFFICES ASSUME Tidy', NEW i \in images', ~Aliased(i)'
                 PROVE  \E q \in Actors : AwaitedBy(q, i)'
      BY DEF Awaited
    <3>1. Tidy
      BY <2>1 DEF Tidy
    <3>2. /\ p \in Publishers => p \notin Unreliable
          /\ p \in Removers /\ pc[p] # "start" => Called \cap Publishers = {}
      BY <2>1 DEF Tidy, Called
    <3>3. CASE AwaitedBy(p, i)'
      BY <3>3
    <3>4. CASE i \in images /\ ~Aliased(i) /\ ~AwaitedBy(p, i)
      <4>1. PICK q \in Actors : AwaitedBy(q, i)
        BY <1>1, <3>1, <3>4 DEF Awaited
      <4>2. q # p
        BY <3>4, <4>1
      <4>3. AwaitedBy(q, i)'
        BY <1>3, <4>1, <4>2, CallSteps DEF AwaitedBy
      <4>4. QED BY <4>3
    <3>5. QED BY <1>1, <1>3, <3>2, <3>3, <3>4, HandOver
  <2>5. QED BY <2>2, <2>3, <2>4 DEF OrphanInv
<1>4. CASE UNCHANGED vars
  BY <1>1, <1>4 DEF vars, OrphanInv, Awaited, Current, Deleters, Tidy, Called, Aliased,
                    AwaitedBy, Target
<1>5. QED BY <1>3, <1>4 DEF Next

\* Once no command is at work, the store holds no image without an alias that a
\* command could have deleted.
THEOREM OrphansDeleted == Spec => []NoOrphans
<1>1. Init => OrphanInv
  BY DEF Init, OrphanInv, Awaited, Current, Deleters, Aliased, Actors
<1>2. OrphanInv => NoOrphans
  <2> SUFFICES ASSUME OrphanInv,
                      Called \cap Removers = {} \/ Called \cap Publishers = {},
                      \A p \in Called :
                        /\ pc[p] = "done"
                        /\ p \in Unreliable =>
                             p \notin Publishers /\ (p \in Removers => outcome[p] = "ok")
               PROVE  \A i \in images : Aliased(i)
    BY DEF NoOrphans
  <2>1. Tidy
    BY DEF Tidy
  <2>2. \A p \in Actors : pc[p] # "start" => p \in Called
    BY DEF Called
  <2>3. \A p \in Actors, i \in images : ~AwaitedBy(p, i)
    BY <2>2 DEF AwaitedBy, Publishing
  <2>4. QED BY <2>1, <2>3 DEF OrphanInv, Awaited
<1>3. QED BY <1>1, <1>2, TypeCorrect, OrphanStep, PTL DEF Spec
=============================================================================
