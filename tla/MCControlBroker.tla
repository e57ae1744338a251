--------------------------- MODULE MCControlBroker ---------------------------
(* Small instances of ControlBroker.                                       *)
EXTENDS ControlBroker

CONSTANTS c1, c2

\* One session on pipes, with output and input ...
OnPipes == [clients |-> {c1}, streams |-> {"stdout", "stderr"}, terminal |-> FALSE,
            output |-> [s \in Streams |-> 1], input |-> 2]

\* ... and two on a pseudo terminal each, for one token.
TwoTerminals == [clients |-> {c1, c2}, streams |-> {"tty"}, terminal |-> TRUE,
                 output |-> [s \in Streams |-> 1], input |-> 0]

PipesAndTerminals == {OnPipes, TwoTerminals}

\* A session on one pipe, for the stuck input goroutine.
OnePipe == {[clients |-> {c1}, streams |-> {"stdout"}, terminal |-> FALSE,
             output |-> [s \in Streams |-> 1], input |-> 2]}
=============================================================================
