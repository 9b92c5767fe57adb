---------------------------- MODULE MCLifecycle ----------------------------
(* A small instance of Lifecycle for TLC.                                   *)
EXTENDS Lifecycle

CONSTANTS c1, c2

\* One user starts and stops daemons, the other starts them too and
\* makes other requests; start asks for the status on its own.
TwoUsers ==
    [c \in {c1, c2} |->
        IF c = c1 THEN {"start", "stop"} ELSE {"start", "request"}]
=============================================================================
