------------------------------ MODULE MCOutbox ------------------------------
(* Instances of Outbox for TLC: the service with the retry tool beside it, and *)
(* one worker that an operator runs once.                                      *)
EXTENDS Outbox, TLC

CONSTANTS e1, e2, daemon, tool

MCEvents == {e1, e2}
MCWorkers == {daemon, tool}
MCKind == [p \in MCWorkers |-> IF p = daemon THEN "service" ELSE "retry"]

\* The tool has a limit of its own.
MCLimit == [p \in MCWorkers |-> IF p = daemon THEN 2 ELSE 1]

MCOneWorker == {tool}
MCOnce == [p \in MCOneWorker |-> "once"]
MCOnceLimit == [p \in MCOneWorker |-> 2]

\* No action or property tells the events apart.
MCSwap == Permutations(MCEvents)

=============================================================================
