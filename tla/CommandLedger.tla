--------------------------- MODULE CommandLedger ---------------------------
(***************************************************************************)
(* What the write process promises to the gateways that submit commands    *)
(* (docs/architecture/03-failure-modes.md, docs/decisions/adr-002): a      *)
(* command runs, its outcome enters a ledger, and every answer that        *)
(* reports an outcome reports the one in the ledger.  A command already in *)
(* the ledger does not run again.                                          *)
(*                                                                         *)
(* Only a fault (a restart, a disk that refuses a write, a handler that    *)
(* throws) may weaken this: it may make the ledger forget outcomes, or     *)
(* leave behind the effect of a run that never reached the ledger.         *)
(***************************************************************************)
EXTENDS Naturals

CONSTANTS Commands, \* logical commands: one per (requestId, tenant, action)
          None      \* "no outcome in the ledger"

VARIABLES outcome,  \* command -> the run the ledger holds for it, or None
          runs,     \* command -> how many times it ran
          answered, \* the <<command, run>> pairs reported to gateways
          faults    \* how many faults have happened

vars == <<outcome, runs, answered, faults>>

TypeOK ==
    /\ outcome \in [Commands -> Nat \cup {None}]
    /\ runs \in [Commands -> Nat]
    /\ answered \subseteq Commands \X Nat
    /\ faults \in Nat

Init ==
    /\ outcome = [c \in Commands |-> None]
    /\ runs = [c \in Commands |-> 0]
    /\ answered = {}
    /\ faults = 0

\* The command runs and its outcome, numbered by the run, enters the ledger.
Run(c) ==
    /\ outcome[c] = None
    /\ runs' = [runs EXCEPT ![c] = @ + 1]
    /\ outcome' = [outcome EXCEPT ![c] = runs[c] + 1]
    /\ UNCHANGED <<answered, faults>>

\* A gateway is told the outcome the ledger holds.
Answer(c) ==
    /\ outcome[c] # None
    /\ answered' = answered \cup {<<c, outcome[c]>>}
    /\ UNCHANGED <<outcome, runs, faults>>

\* A fault forgets the outcomes of the commands in lost.  When it interrupts
\* a run, that run has happened and is in no ledger.
Fault(lost, interrupted) ==
    /\ \A c \in interrupted : outcome[c] = None
    /\ outcome' = [c \in Commands |-> IF c \in lost THEN None ELSE outcome[c]]
    /\ runs' = [c \in Commands |-> IF c \in interrupted THEN runs[c] + 1
                                                        ELSE runs[c]]
    /\ faults' = faults + 1
    /\ UNCHANGED answered

Next ==
    \/ \E c \in Commands : Run(c) \/ Answer(c)
    \/ \E lost, interrupted \in SUBSET Commands : Fault(lost, interrupted)

Spec == Init /\ [][Next]_vars

=============================================================================
