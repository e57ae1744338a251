------------------------------ MODULE ImageStore ------------------------------
(***************************************************************************)
(* The local image store and the commands that share it                    *)
(* (internal/bocker/incus.go): PublishImage at the end of a build,         *)
(* DeleteImageByAlias for `image remove`, and the two resolutions of an    *)
(* alias by `image run`.  Each is a chain of requests to Incus, every      *)
(* request atomic, with other commands between any two of them; an image   *)
(* is deleted by fingerprint after a listing found no alias of it.         *)
(*                                                                         *)
(* A fingerprint is an image of the set Images, new for every publish.     *)
(* Incus compares the ETag of an alias with its contents, here its target, *)
(* and deletes the aliases of an image along with the image.               *)
(***************************************************************************)
EXTENDS FiniteSets

CONSTANTS
  Aliases,      \* names an image can have
  Images,       \* fingerprints, those of past and of future images
  Publishers, Removers, Runners,  \* callers, of one call each; one may be a remover and a runner
  Unreliable,   \* the calls that may fail, lose answers or be killed
  NoImage

ASSUME StoreAssumption ==
  /\ NoImage \notin Images
  /\ Publishers \cap Removers = {}
  /\ Publishers \cap Runners = {}

VARIABLES
  aliases,   \* the image each alias names
  images,    \* images in the store
  made,      \* fingerprints used so far
  pc,        \* the next request of a call
  alias,     \* the alias a call is about
  mine,      \* the image a publish created
  seen,      \* the target of the alias as the call read it
  doomed,    \* the image deleteImageIfUnaliased is asked to delete
  outcome,   \* what a call reports
  rootfs     \* the image a run's container was created from

vars == <<aliases, images, made, pc, alias, mine, seen, doomed, outcome, rootfs>>

Actors == Publishers \cup Removers \cup Runners

Steps == {"start", "reading", "creating", "switching", "unaliasing",
          "launching", "listing", "deleting", "done"}

TypeOK ==
  /\ aliases \in [Aliases -> images \cup {NoImage}]
  /\ images \subseteq made /\ made \subseteq Images
  /\ pc \in [Actors -> Steps]
  /\ alias \in [Actors -> Aliases]
  /\ mine \in [Actors -> made \cup {NoImage}]
  /\ seen \in [Actors -> made \cup {NoImage}]
  /\ doomed \in [Actors -> made \cup {NoImage}]
  /\ outcome \in [Actors -> {"pending", "ok", "failed"}]
  /\ rootfs \in [Runners -> made \cup {NoImage}]
  /\ \A p \in Actors :
       pc[p] \in {"listing", "deleting"} => doomed[p] # NoImage

Nothing(S) == [x \in S |-> NoImage]

\* Any store without orphans, one image perhaps under several aliases.
Init ==
  /\ aliases \in [Aliases -> Images \cup {NoImage}]
  /\ images = {aliases[a] : a \in Aliases} \ {NoImage}
  /\ made = images
  /\ pc = [p \in Actors |-> "start"]
  /\ alias \in [Actors -> Aliases]
  /\ mine = Nothing(Actors) /\ seen = Nothing(Actors) /\ doomed = Nothing(Actors)
  /\ outcome = [p \in Actors |-> "pending"]
  /\ rootfs = Nothing(Runners)

Target(p) == aliases[alias[p]]
Aliased(i) == \E a \in Aliases : aliases[a] = i

Goto(p, from, to) == pc[p] = from /\ pc' = [pc EXCEPT ![p] = to]
Report(p, result) == outcome' = [outcome EXCEPT ![p] = result]
Return(p, from, result) == Goto(p, from, "done") /\ Report(p, result)
SetAlias(p, i) == aliases' = [aliases EXCEPT ![alias[p]] = i]

\* Incus deletes an image with its aliases.
DropImage(i) ==
  /\ images' = images \ {i}
  /\ aliases' = [a \in Aliases |-> IF aliases[a] = i THEN NoImage ELSE aliases[a]]

-----------------------------------------------------------------------------
(* PublishImage.                                                           *)

\* On to deleteImageIfUnaliased(i); its own errors are ignored.
CleanUp(p, from, i, result) ==
  /\ Goto(p, from, "listing")
  /\ doomed' = [doomed EXCEPT ![p] = i]
  /\ Report(p, result)

CreateImage(p) ==
  /\ p \in Publishers
  /\ \E i \in Images \ made :
       /\ images' = images \cup {i} /\ made' = made \cup {i}
       /\ \/ /\ Goto(p, "start", "reading")
             /\ mine' = [mine EXCEPT ![p] = i]
             /\ UNCHANGED outcome
          \/ \* created, but the answer or the fingerprint in it is lost
             /\ p \in Unreliable
             /\ Return(p, "start", "failed")
             /\ UNCHANGED mine
  /\ UNCHANGED <<aliases, alias, seen, doomed, rootfs>>

CreateImageFails(p) ==
  /\ p \in Publishers /\ p \in Unreliable
  /\ Return(p, "start", "failed")
  /\ UNCHANGED <<aliases, images, made, alias, mine, seen, doomed, rootfs>>

\* GetImageAlias: the alias names this image already, another, or nothing, or
\* the request fails.
ReadAlias(p) ==
  /\ p \in Publishers
  /\ \/ /\ Target(p) = mine[p] /\ Return(p, "reading", "ok")
        /\ UNCHANGED <<seen, doomed>>
     \/ /\ Target(p) \notin {mine[p], NoImage} /\ Goto(p, "reading", "switching")
        /\ seen' = [seen EXCEPT ![p] = Target(p)]
        /\ UNCHANGED <<doomed, outcome>>
     \/ /\ Target(p) = NoImage /\ Goto(p, "reading", "creating")
        /\ UNCHANGED <<seen, doomed, outcome>>
     \/ /\ p \in Unreliable /\ CleanUp(p, "reading", mine[p], "failed")
        /\ UNCHANGED seen
  /\ UNCHANGED <<aliases, images, made, alias, mine, rootfs>>

\* Mutant: UpdateImageAlias without the ETag.
MutSwitchAliasBlind(p) ==
  /\ p \in Publishers
  /\ Target(p) # NoImage /\ mine[p] \in images
  /\ SetAlias(p, mine[p]) /\ CleanUp(p, "switching", seen[p], "ok")
  /\ UNCHANGED <<images, made, alias, mine, seen, rootfs>>

\* UpdateImageAlias with the ETag of what was read.
SwitchAlias(p) ==
  /\ p \in Publishers
  /\ \/ /\ Target(p) = seen[p] /\ mine[p] \in images
        /\ SetAlias(p, mine[p])
        /\ \/ CleanUp(p, "switching", seen[p], "ok")
           \/ p \in Unreliable /\ CleanUp(p, "switching", mine[p], "failed")
     \/ /\ p \in Unreliable \/ Target(p) # seen[p] \/ mine[p] \notin images
        /\ CleanUp(p, "switching", mine[p], "failed")
        /\ UNCHANGED aliases
  /\ UNCHANGED <<images, made, alias, mine, seen, rootfs>>

\* CreateImageAlias, refused when the alias exists by now.
CreateAlias(p) ==
  /\ p \in Publishers
  /\ \/ /\ Target(p) = NoImage /\ mine[p] \in images
        /\ SetAlias(p, mine[p])
        /\ \/ Return(p, "creating", "ok") /\ UNCHANGED doomed
           \/ p \in Unreliable /\ CleanUp(p, "creating", mine[p], "failed")
     \/ /\ p \in Unreliable \/ Target(p) # NoImage \/ mine[p] \notin images
        /\ CleanUp(p, "creating", mine[p], "failed")
        /\ UNCHANGED aliases
  /\ UNCHANGED <<images, made, alias, mine, seen, rootfs>>

-----------------------------------------------------------------------------
(* DeleteImageByAlias, and deleteImageIfUnaliased for a publish.           *)

ReadDoomedAlias(p) ==
  /\ p \in Removers
  /\ \/ /\ Target(p) # NoImage /\ Goto(p, "start", "unaliasing")
        /\ seen' = [seen EXCEPT ![p] = Target(p)]
        /\ UNCHANGED outcome
     \/ /\ Target(p) = NoImage \/ p \in Unreliable
        /\ Return(p, "start", "failed")
        /\ UNCHANGED seen
  /\ UNCHANGED <<aliases, images, made, alias, mine, doomed, rootfs>>

\* DeleteImageAlias, by name alone.
DeleteAlias(p) ==
  /\ p \in Removers
  /\ \/ /\ Target(p) # NoImage /\ SetAlias(p, NoImage)
        /\ \/ CleanUp(p, "unaliasing", seen[p], outcome[p])
           \/ p \in Unreliable /\ Return(p, "unaliasing", "failed") /\ UNCHANGED doomed
     \/ /\ Target(p) = NoImage \/ p \in Unreliable
        /\ Return(p, "unaliasing", "failed")
        /\ UNCHANGED <<aliases, doomed>>
  /\ UNCHANGED <<images, made, alias, mine, seen, rootfs>>

\* A removal reports an error of the clean-up, a publish does not.
Settled(p, error) ==
  Report(p, IF p \in Publishers THEN outcome[p] ELSE IF error THEN "failed" ELSE "ok")

\* Mutant: only the alias the call is about counts as a reference.
MutListAliases(p) ==
  /\ \/ Target(p) # doomed[p] /\ Goto(p, "listing", "deleting") /\ UNCHANGED outcome
     \/ Target(p) = doomed[p] /\ Goto(p, "listing", "done") /\ Settled(p, FALSE)
     \/ p \in Unreliable /\ Goto(p, "listing", "done") /\ Settled(p, TRUE)
  /\ UNCHANGED <<aliases, images, made, alias, mine, seen, doomed, rootfs>>

\* GetImageAliases.
ListAliases(p) ==
  /\ \/ ~Aliased(doomed[p]) /\ Goto(p, "listing", "deleting") /\ UNCHANGED outcome
     \/ Aliased(doomed[p]) /\ Goto(p, "listing", "done") /\ Settled(p, FALSE)
     \/ p \in Unreliable /\ Goto(p, "listing", "done") /\ Settled(p, TRUE)
  /\ UNCHANGED <<aliases, images, made, alias, mine, seen, doomed, rootfs>>

\* DeleteImage: an image that another call deleted first is an error.
DeleteImage(p) ==
  /\ Goto(p, "deleting", "done")
  /\ \/ /\ doomed[p] \in images /\ DropImage(doomed[p])
        /\ Settled(p, FALSE) \/ (p \in Unreliable /\ Settled(p, TRUE))
     \/ /\ doomed[p] \notin images \/ p \in Unreliable
        /\ Settled(p, TRUE)
        /\ UNCHANGED <<aliases, images>>
  /\ UNCHANGED <<made, alias, mine, seen, doomed, rootfs>>

-----------------------------------------------------------------------------
(* CmdRun: GetImageProperties, then an instance created from the alias.    *)

ReadProperties(p) ==
  /\ p \in Runners
  /\ \/ /\ pc[p] = "start" /\ Target(p) # NoImage
        /\ Goto(p, "start", "reading")
        /\ seen' = [seen EXCEPT ![p] = Target(p)]
        /\ UNCHANGED outcome
     \/ /\ Target(p) = NoImage \/ p \in Unreliable
        /\ Return(p, "start", "failed")
        /\ UNCHANGED seen
     \/ /\ seen[p] \in images
        /\ Goto(p, "reading", "launching")
        /\ UNCHANGED <<seen, outcome>>
     \/ /\ seen[p] \notin images \/ p \in Unreliable
        /\ Return(p, "reading", "failed")
        /\ UNCHANGED seen
  /\ UNCHANGED <<aliases, images, made, alias, mine, doomed, rootfs>>

LaunchFromAlias(p) ==
  /\ p \in Runners
  /\ \/ /\ Target(p) # NoImage
        /\ Return(p, "launching", "ok")
        /\ rootfs' = [rootfs EXCEPT ![p] = Target(p)]
     \/ /\ Target(p) = NoImage \/ p \in Unreliable
        /\ Return(p, "launching", "failed")
        /\ UNCHANGED rootfs
  /\ UNCHANGED <<aliases, images, made, alias, mine, seen, doomed>>

-----------------------------------------------------------------------------
Request(p) ==
  \/ CreateImage(p) \/ CreateImageFails(p) \/ ReadAlias(p)
  \/ SwitchAlias(p) \/ CreateAlias(p)
  \/ ReadDoomedAlias(p) \/ DeleteAlias(p) \/ ListAliases(p) \/ DeleteImage(p)
  \/ ReadProperties(p) \/ LaunchFromAlias(p)

\* A command is killed between two requests.
Killed(p) ==
  /\ p \in Unreliable /\ pc[p] # "done"
  /\ Return(p, pc[p], "failed")
  /\ UNCHANGED <<aliases, images, made, alias, mine, seen, doomed, rootfs>>

Next == \E p \in Actors : Request(p) \/ Killed(p)

Spec == Init /\ [][Next]_vars

-----------------------------------------------------------------------------
(* Properties.                                                             *)

\* An alias ceases to name an image only when its removal asks for that: no
\* publish, failed or not, leaves it dangling for a moment, and no image is
\* deleted while an alias names it.
AliasSurvives ==
  [][\A a \in Aliases :
       aliases[a] # NoImage /\ aliases'[a] = NoImage
         => \E r \in Removers :
              alias[r] = a /\ pc[r] = "unaliasing" /\ pc'[r] # "unaliasing"]_vars

Called == {p \in Actors : pc[p] # "start"}

\* Once no command is at work, every image has an alias: concurrent builds under
\* one alias leave neither the replaced images nor the refused ones behind, and
\* neither do removals; not so after a build whose requests fail, a removal that
\* fails by more than coming too late, or for a removal beside a build.
NoOrphans ==
  LET quiet == \A p \in Called :
        /\ pc[p] = "done"
        /\ p \in Unreliable => p \notin Publishers /\ (p \in Removers => outcome[p] = "ok")
      alike == Called \cap Removers = {} \/ Called \cap Publishers = {}
  IN quiet /\ alike => \A i \in images : Aliased(i)

=============================================================================
