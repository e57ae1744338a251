---------------------------- MODULE MCImageBuild ----------------------------
(* A small instance of ImageBuild.                                         *)
EXTENDS ImageBuild

Plain(kind) == [kind |-> kind]
CopyOf(from, directory) == [kind |-> "copy", from |-> from, directory |-> directory]

\* Three stages, with the artifacts of both earlier ones copied into the last;
\* one stage with every kind of step; two that copy; a stage that would copy
\* from itself.
BuildPlans ==
  { [stages |-> << <<Plain("run")>>, <<CopyOf(1, FALSE)>>,
                   <<CopyOf(2, TRUE), CopyOf(1, FALSE)>> >>,
     runtime |-> FALSE],
    [stages |-> << <<Plain("env"), Plain("capture"), Plain("context"), Plain("run")>> >>,
     runtime |-> TRUE],
    [stages |-> << <<Plain("capture"), Plain("env")>>, <<Plain("run"), CopyOf(1, TRUE)>> >>,
     runtime |-> TRUE],
    [stages |-> << <<Plain("run")>>, <<Plain("run"), CopyOf(2, FALSE)>> >>,
     runtime |-> FALSE] }
=============================================================================
