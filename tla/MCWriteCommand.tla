--------------------------- MODULE MCWriteCommand ---------------------------
(* Instance of WriteCommand for TLC: c1 and c2 carry the same request id    *)
(* (another tenant or another action); a nonce that lapses makes its message *)
(* a resubmission under a new nonce.                                        *)
EXTENDS WriteCommand, TLC

CONSTANTS c1, c2, r1, m1, m2

MCCommands == {c1, c2}
MCRequestIds == {r1}
MCRequestIdOf == [c \in MCCommands |-> r1]
MCMessages == {m1, m2}
MCCommandOf == [m \in MCMessages |-> IF m = m2 THEN c2 ELSE c1]

\* The two commands, with their messages, are interchangeable.
MCSwap == {(c1 :> c2) @@ (c2 :> c1) @@ (m1 :> m2) @@ (m2 :> m1)}

\* Bound on the runs of handlers: one per command and one more per fault.  It
\* leaves out only that one fault makes both commands run again.
MCFewRuns == runs[c1] + runs[c2] <= Cardinality(Commands) + MaxFaults

=============================================================================
