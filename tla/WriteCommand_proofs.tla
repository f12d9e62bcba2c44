------------------------ MODULE WriteCommand_proofs ------------------------
(***************************************************************************)
(* Proofs about WriteCommand for any commands, request ids and messages    *)
(* and any number of faults.                                               *)
(*                                                                         *)
(* The inductive invariant Inv says what the registry can hold (Registry), *)
(* what the process holds at each point of M.route (Progress), what it has *)
(* answered (Answers) and how often it has run each command (Paid).  Three *)
(* more rest on it, each of them a count of what faults can have broken:   *)
(* about the outbox (UnloggedInv), the outcomes the process may report     *)
(* (LoggedInv) and the saved state table (SavedInv).                       *)
(***************************************************************************)
EXTENDS WriteCommand, TLAPS, FiniteSetTheorems

-----------------------------------------------------------------------------
(* The inductive invariant *)

\* A scoped entry was recorded by its own command, and an alias repeats the
\* scoped entry of the command that recorded it.
Registry ==
    /\ \A k \in Keys : registry[k] # None => registry[registry[k].by] = registry[k]
    /\ \A c \in Commands : registry[c] # None => registry[c].by = c
    /\ idemFile = None => idemSnap = None

\* At each point after the handler: whether the scoped entry is already there
\* for the run in progress.
Progress ==
    pc # "idle" =>
        /\ resp = runs[cur] /\ resp # 0
        /\ pc \in {"wal", "idem"} => registry[cur] = None
        /\ pc \in {"alias", "save"} =>
              registry[cur] = [by |-> cur, run |-> resp]

\* An outcome reported since the last restart is still the command's entry.
Answers ==
    \A r \in replies :
        /\ r.boot <= boots
        /\ r.answer \in Commands =>
              /\ r.answer = r.cmd
              /\ r.boot = boots =>
                    registry[r.cmd] = [by |-> r.cmd, run |-> r.run]

\* Each run is in the ledger or was paid for by a fault.
Paid ==
    \A c \in Commands :
        runs[c] <= faults + (IF LedgerOutcome[c] = None THEN 0 ELSE 1)

Inv == TypeOK /\ Registry /\ Progress /\ Answers /\ Paid

-----------------------------------------------------------------------------
(* Facts about the helpers *)

USE DEF Keys

\* What a lookup can return: nothing when the command has no scoped entry,
\* and otherwise that entry, which the command recorded itself.
LEMMA LookupIsScopedEntry ==
    ASSUME TypeOK, Registry, NEW c \in Commands
    PROVE  /\ Lookup(c) = registry[c]
           /\ Lookup(c) # None => Lookup(c).by = c /\ Lookup(c).run \in Nat
<1>1. RequestIdOf[c] \in Keys /\ c \in Keys
  BY RequestIdAssumption
<1>2. CASE registry[c] # None
  BY <1>1, <1>2 DEF Lookup, TypeOK, Registry, Store, Outcome
<1>3. CASE registry[c] = None
  BY <1>1, <1>3 DEF Lookup, AcceptAlias, TypeOK, Registry, Store, Outcome
<1>4. QED BY <1>2, <1>3

-----------------------------------------------------------------------------
(* The invariant holds initially and every action preserves it *)

LEMMA InitInv == Init => Inv
<1> SUFFICES ASSUME Init PROVE Inv
  OBVIOUS
<1> USE DEF Init
<1>1. TypeOK
  BY DEF TypeOK, EmptyStore, Store
<1>2. Registry /\ Progress /\ Answers
  BY DEF Registry, Progress, Answers, EmptyStore
<1>3. Paid
  BY DEF Paid
<1>4. QED BY <1>1, <1>2, <1>3 DEF Inv

\* The state files play no part in the invariant once the types are known.
LEMMA StutterInv == Inv /\ UNCHANGED vars => Inv'
BY DEF Inv, vars, TypeOK, Registry, Progress, Answers, Paid, LedgerOutcome, Reply, Store

LEMMA NonceLapsesInv ==
    ASSUME Inv, NEW m \in nonces, NonceLapses(m) PROVE Inv'
BY DEF Inv, NonceLapses, process, files, TypeOK, Registry, Progress, Answers, Paid, LedgerOutcome, Store

LEMMA RejectByRateInv ==
    ASSUME Inv, NEW m \in Messages, RejectByRate(m) PROVE Inv'
BY DEF Inv, RejectByRate, Admit, process, files, TypeOK, Registry, Progress, Answers, Paid, LedgerOutcome, Store

LEMMA ReplayInv ==
    ASSUME Inv, NEW m \in Messages, Replay(m) PROVE Inv'
<1> DEFINE c == CommandOf[m]
           e == registry[c]
           r == [cmd |-> c, answer |-> c, run |-> e.run, boot |-> boots]
<1>1. c \in Commands /\ c \in Keys
  BY MessageAssumption
<1>2. /\ e # None /\ e.by = c /\ e.run \in Nat
      /\ replies' = replies \cup {r}
  BY <1>1, LookupIsScopedEntry DEF Inv, Replay, Reply
<1>3. e = [by |-> c, run |-> e.run]
  <2>1. registry[c] \in Outcome \cup {None}
    BY <1>1 DEF Inv, TypeOK, Store
  <2>2. e \in Outcome
    BY <1>2, <2>1
  <2>3. QED BY <1>2, <2>2 DEF Outcome
<1>4. UNCHANGED <<process, registry, nonces, files, mem, runs, boots, faults>>
  BY DEF Replay
<1> HIDE DEF c, e, r
<1>5. TypeOK'
  <2>1. r \in [cmd : Commands, answer : Commands \cup {Failed},
               run : Nat, boot : Nat]
    BY <1>1, <1>2 DEF r, Inv, TypeOK
  <2>2. QED BY <1>2, <1>4, <2>1 DEF Inv, TypeOK, process, files, Store
<1>6. (Registry /\ Progress /\ Paid)'
  BY <1>4 DEF Inv, Registry, Progress, Paid, LedgerOutcome, process, files
<1>7. Answers'
  <2>1. registry[c] = [by |-> c, run |-> e.run]
    BY <1>3 DEF e
  <2>2. /\ r.cmd = c /\ r.answer = c /\ r.run = e.run /\ r.boot = boots
        /\ boots <= boots
    BY DEF r, Inv, TypeOK
  <2>3. QED BY <1>1, <1>2, <1>4, <2>1, <2>2 DEF Inv, Answers, process, files
<1>8. QED BY <1>5, <1>6, <1>7 DEF Inv

\* A handler has run: the effect it may have had, and the counters.
LEMMA RanHandler ==
    ASSUME Inv, NEW c \in Commands, Effect(c) \/ NoEffect
    PROVE  /\ mem' \subseteq Commands \X Nat
           /\ events' \subseteq Commands \X Nat
           /\ snap' \subseteq Commands \X Nat
           /\ runs[c] \in Nat
BY DEF Inv, TypeOK, Effect, HandlerMaySave, NoEffect

LEMMA AcceptInv ==
    ASSUME Inv, NEW m \in Messages, Accept(m) PROVE Inv'
<1> DEFINE c == CommandOf[m]
<1>1. c \in Commands /\ c \in Keys
  BY MessageAssumption
<1>2. /\ pc = "idle" /\ registry[c] = None
      /\ nonces' = nonces \cup {m}
      /\ Effect(c) \/ NoEffect
      /\ runs' = [runs EXCEPT ![c] = @ + 1]
      /\ pc' = "wal" /\ cur' = c /\ resp' = runs[c] + 1
      /\ UNCHANGED <<registry, idemFile, idemSnap, wal, replies, boots, faults>>
  BY <1>1, LookupIsScopedEntry DEF Accept, Admit, Inv
<1>3. /\ runs[c] \in Nat
      /\ mem' \subseteq Commands \X Nat /\ events' \subseteq Commands \X Nat
      /\ snap' \subseteq Commands \X Nat
  BY <1>1, <1>2, RanHandler
<1> HIDE DEF c
<1>4. TypeOK'
  BY <1>1, <1>2, <1>3 DEF Inv, TypeOK, Store
<1>5. (Registry /\ Answers)'
  BY <1>2 DEF Inv, Registry, Answers
<1>6. Progress'
  BY <1>1, <1>2, <1>3 DEF Inv, Progress, TypeOK
<1>7. Paid'
  <2>1. LedgerOutcome[c] = None /\ runs[c] <= faults
    BY <1>1, <1>2, <1>3 DEF Inv, Paid, LedgerOutcome, TypeOK
  <2>2. LedgerOutcome'[c] # None
    BY <1>1, <1>2, <1>3, KeyAssumption DEF LedgerOutcome
  <2>3. ASSUME NEW d \in Commands, d # c
        PROVE  LedgerOutcome'[d] = LedgerOutcome[d] /\ runs'[d] = runs[d]
    BY <1>2, <2>3 DEF LedgerOutcome, Inv, TypeOK
  <2>4. QED
    BY <1>1, <1>2, <1>3, <2>1, <2>2, <2>3 DEF Inv, Paid, TypeOK
<1>8. QED BY <1>4, <1>5, <1>6, <1>7 DEF Inv

LEMMA HandlerThrowsInv ==
    ASSUME Inv, NEW m \in Messages, HandlerThrows(m) PROVE Inv'
<1> DEFINE c == CommandOf[m]
           r == [cmd |-> c, answer |-> Failed, run |-> runs[c] + 1,
                 boot |-> boots]
<1>1. c \in Commands /\ c \in Keys
  BY MessageAssumption
<1>2. /\ pc = "idle" /\ registry[c] = None
      /\ nonces' = nonces \cup {m}
      /\ Effect(c) \/ NoEffect
      /\ runs' = [runs EXCEPT ![c] = @ + 1]
      /\ replies' = replies \cup {r}
      /\ faults' = faults + 1
      /\ UNCHANGED <<process, registry, idemFile, idemSnap, wal, boots>>
  BY <1>1, LookupIsScopedEntry DEF HandlerThrows, Admit, Inv, Reply
<1>3. /\ runs[c] \in Nat
      /\ mem' \subseteq Commands \X Nat /\ events' \subseteq Commands \X Nat
      /\ snap' \subseteq Commands \X Nat
  BY <1>1, <1>2, RanHandler
<1> HIDE DEF c, r
<1>4. TypeOK'
  <2>1. r \in [cmd : Commands, answer : Commands \cup {Failed},
               run : Nat, boot : Nat]
    BY <1>1, <1>3 DEF r, Inv, TypeOK
  <2>2. QED BY <1>1, <1>2, <1>3, <2>1 DEF Inv, TypeOK, Store, process
<1>5. (Registry /\ Progress)'
  BY <1>2 DEF Inv, Registry, Progress, TypeOK, process
<1>6. Answers'
  <2>1. r.boot <= boots /\ r.answer \notin Commands
    BY KeyAssumption DEF r, Failed, Inv, TypeOK
  <2>2. QED BY <1>2, <2>1 DEF Inv, Answers
<1>7. Paid'
  <2>1. LedgerOutcome' = LedgerOutcome
    BY <1>2 DEF LedgerOutcome, process
  <2>2. QED BY <1>1, <1>2, <1>3, <2>1 DEF Inv, Paid, TypeOK
<1>8. QED BY <1>4, <1>5, <1>6, <1>7 DEF Inv

LEMMA AppendWalInv == Inv /\ AppendWal => Inv'
<1> SUFFICES ASSUME Inv, AppendWal PROVE Inv'
  OBVIOUS
<1> USE DEF AppendWal
<1>1. TypeOK'
  BY DEF Inv, TypeOK, Store
<1>2. (Registry /\ Answers)'
  BY DEF Inv, Registry, Answers
<1>3. Progress'
  BY DEF Inv, Progress
<1>4. Paid'
  <2>1. LedgerOutcome' = LedgerOutcome
    BY DEF LedgerOutcome
  <2>2. QED BY <2>1 DEF Inv, Paid, TypeOK
<1>5. QED BY <1>1, <1>2, <1>3, <1>4 DEF Inv

\* Giving up on a run after the handler: the reply reports no outcome.
LEMMA FailureReply ==
    ASSUME Inv, pc # "idle", Finish(Failed), UNCHANGED boots,
           \A c \in Commands : registry[c] # None => registry'[c] = registry[c]
    PROVE  /\ Answers'
           /\ Progress'
           /\ pc' = "idle" /\ cur' = None /\ resp' = 0
           /\ replies' \subseteq [cmd : Commands, answer : Commands \cup {Failed},
                                  run : Nat, boot : Nat]
<1> DEFINE r == [cmd |-> cur, answer |-> Failed, run |-> resp, boot |-> boots]
<1>1. /\ replies' = replies \cup {r}
      /\ pc' = "idle" /\ cur' = None /\ resp' = 0
  BY DEF Finish, Reply
<1>2. /\ r \in [cmd : Commands, answer : Commands \cup {Failed},
                run : Nat, boot : Nat]
      /\ r.boot <= boots /\ r.answer = Failed
  BY DEF r, Inv, TypeOK
<1>3. Failed \notin Commands
  BY KeyAssumption DEF Failed
<1> HIDE DEF r
<1>4. Answers'
  <2>1. ASSUME NEW x \in replies, x.answer \in Commands, x.boot = boots
        PROVE  registry'[x.cmd] = [by |-> x.cmd, run |-> x.run]
    <3>1. registry[x.cmd] = [by |-> x.cmd, run |-> x.run] /\ x.cmd \in Commands
      BY <2>1 DEF Inv, Answers, TypeOK
    <3>2. x.run \in Nat
      BY <2>1 DEF Inv, TypeOK
    <3>3. registry[x.cmd] # None
      BY <3>1, <3>2, KeyAssumption
    <3>4. QED BY <3>1, <3>3
  <2>2. QED BY <1>1, <1>2, <1>3, <2>1 DEF Inv, Answers
<1>5. Progress'
  BY <1>1 DEF Progress
<1>6. QED BY <1>1, <1>2, <1>4, <1>5 DEF Inv, TypeOK

LEMMA WalFailsInv ==
    ASSUME Inv, WalFails PROVE Inv'
<1>1. /\ pc = "wal" /\ Finish(Failed) /\ faults' = faults + 1
      /\ UNCHANGED <<registry, nonces, files, mem, runs, boots>>
  BY DEF WalFails
<1>2. /\ Answers' /\ Progress' /\ pc' = "idle" /\ cur' = None /\ resp' = 0
      /\ replies' \subseteq [cmd : Commands, answer : Commands \cup {Failed},
                             run : Nat, boot : Nat]
  BY <1>1, FailureReply DEF files
<1>3. TypeOK'
  BY <1>1, <1>2 DEF Inv, TypeOK, Store, files
<1>4. Registry'
  BY <1>1 DEF Inv, Registry, files
<1>5. Paid'
  <2>1. ASSUME NEW c \in Commands
        PROVE  LedgerOutcome'[c] = None => c = cur \/ LedgerOutcome[c] = None
    BY <1>1, <1>2 DEF LedgerOutcome
  <2>2. QED BY <1>1, <2>1 DEF Inv, Paid, TypeOK
<1>6. QED BY <1>2, <1>3, <1>4, <1>5 DEF Inv

\* Entering the run in progress under its scoped key, or under its request id
\* once the scoped entry is there, keeps the registry consistent and changes
\* no scoped entry that exists.
LEMMA EntryKeepsRegistry ==
    ASSUME Inv, NEW key,
           \/ pc = "idem" /\ key = cur
           \/ pc = "alias" /\ key = RequestIdOf[cur],
           registry' = [registry EXCEPT ![key] = [by |-> cur, run |-> resp]]
    PROVE  /\ registry' \in Store
           /\ cur \in Commands /\ registry'[cur] = [by |-> cur, run |-> resp]
           /\ \A k \in Keys :
                 registry'[k] # None => registry'[registry'[k].by] = registry'[k]
           /\ \A c \in Commands : registry'[c] # None => registry'[c].by = c
           /\ \A c \in Commands :
                 registry[c] # None => registry'[c] = registry[c]
           /\ \A c \in Commands \ {cur} : registry'[c] = registry[c]
<1> DEFINE e == [by |-> cur, run |-> resp]
<1>1. /\ cur \in Commands /\ resp \in Nat \ {0}
      /\ registry \in [Keys -> Outcome \cup {None}]
  BY DEF Inv, TypeOK, Progress, Store
<1>2. key \in Keys /\ cur \in Keys
  BY <1>1, RequestIdAssumption
<1>3. e \in Outcome /\ e.by = cur /\ e.run = resp /\ e # None
  BY <1>1, KeyAssumption DEF Outcome
<1>4. registry' = [registry EXCEPT ![key] = e]
  OBVIOUS
<1>5. /\ registry' \in Store
      /\ registry'[key] = e
      /\ \A k \in Keys \ {key} : registry'[k] = registry[k]
  BY <1>1, <1>2, <1>3, <1>4 DEF Store
<1>6. registry'[cur] = e
  <2>1. CASE pc = "idem"
    BY <1>5, <2>1
  <2>2. CASE pc = "alias"
    <3>1. registry[cur] = e /\ key # cur
      BY <1>1, <2>2, RequestIdAssumption, KeyAssumption DEF Inv, Progress
    <3>2. QED BY <1>2, <1>5, <3>1
  <2>3. QED BY <2>1, <2>2
<1>7. \A c \in Commands \ {cur} : registry'[c] = registry[c]
  BY <1>1, <1>5, RequestIdAssumption, KeyAssumption
<1>8. registry[cur] # None => registry[cur] = e
  BY <1>1 DEF Inv, Progress
<1> HIDE DEF e
<1>9. ASSUME NEW k \in Keys, registry'[k] # None
      PROVE  registry'[registry'[k].by] = registry'[k]
  <2>1. CASE k = key
    BY <1>1, <1>3, <1>5, <1>6, <2>1
  <2>2. CASE k # key
    <3>1. registry'[k] = registry[k]
      BY <1>5, <2>2
    <3>2. /\ registry[registry[k].by] = registry[k]
          /\ registry[k].by \in Commands
      BY <1>1, <1>9, <3>1 DEF Inv, Registry, Outcome
    <3>3. registry'[registry[k].by] = registry[k]
      BY <1>6, <1>7, <1>8, <1>9, <3>1, <3>2
    <3>4. QED BY <3>1, <3>2, <3>3
  <2>3. QED BY <2>1, <2>2
<1>10. \A c \in Commands : registry'[c] # None => registry'[c].by = c
  BY <1>3, <1>6, <1>7 DEF Inv, Registry
<1>11. \A c \in Commands : registry[c] # None => registry'[c] = registry[c]
  BY <1>6, <1>7, <1>8
<1>12. QED BY <1>1, <1>5, <1>6, <1>7, <1>9, <1>10, <1>11 DEF e

\* Replies already given stay explained by a registry that only grew.
LEMMA AnswersKept ==
    ASSUME Inv, UNCHANGED <<boots, replies>>,
           \A c \in Commands : registry[c] # None => registry'[c] = registry[c]
    PROVE  Answers'
<1>1. ASSUME NEW x \in replies, x.answer \in Commands, x.boot = boots
      PROVE  registry'[x.cmd] = [by |-> x.cmd, run |-> x.run]
  <2>1. /\ registry[x.cmd] = [by |-> x.cmd, run |-> x.run]
        /\ x.cmd \in Commands /\ x.run \in Nat
    BY <1>1 DEF Inv, Answers, TypeOK
  <2>2. registry[x.cmd] # None
    BY <2>1, KeyAssumption
  <2>3. QED BY <2>1, <2>2
<1>2. QED BY <1>1 DEF Inv, Answers

LEMMA RecordScopedInv == Inv /\ RecordScoped => Inv'
<1> SUFFICES ASSUME Inv, RecordScoped PROVE Inv'
  OBVIOUS
<1>1. /\ pc = "idem" /\ pc' = "alias"
      /\ registry' = [registry EXCEPT ![cur] = [by |-> cur, run |-> resp]]
      /\ idemFile' = registry' \/ idemFile' = Torn
      /\ idemSnap' = registry'
      /\ faults' = faults \/ faults' = faults + 1
      /\ UNCHANGED <<cur, resp, nonces, wal, events, mem, snap, runs, replies,
                     boots>>
  BY DEF RecordScoped, Record
<1>2. /\ registry' \in Store
      /\ cur \in Commands /\ registry'[cur] = [by |-> cur, run |-> resp]
      /\ \A k \in Keys :
            registry'[k] # None => registry'[registry'[k].by] = registry'[k]
      /\ \A c \in Commands : registry'[c] # None => registry'[c].by = c
      /\ \A c \in Commands : registry[c] # None => registry'[c] = registry[c]
      /\ \A c \in Commands \ {cur} : registry'[c] = registry[c]
  BY <1>1, EntryKeepsRegistry
<1>3. TypeOK'
  <2>1. registry' \in Store
    BY <1>2
  <2>2. idemFile' \in Store \cup {None, Torn}
    BY <1>1, <2>1
  <2>3. idemSnap' \in Store \cup {None}
    BY <1>1, <2>1
  <2>4. faults' \in Nat
    BY <1>1 DEF Inv, TypeOK
  <2>5. QED BY <1>1, <2>1, <2>2, <2>3, <2>4 DEF Inv, TypeOK
<1>4. Registry'
  BY <1>1, <1>2, StoreAssumption DEF Registry
<1>5. Progress'
  BY <1>1, <1>2 DEF Inv, Progress
<1>6. Answers'
  BY <1>1, <1>2, AnswersKept
<1>7. Paid'
  <2>1. ASSUME NEW c \in Commands
        PROVE  LedgerOutcome'[c] = LedgerOutcome[c]
    BY <1>1, <1>2, KeyAssumption DEF LedgerOutcome, Inv, TypeOK
  <2>2. QED BY <1>1, <2>1 DEF Inv, Paid, TypeOK
<1>8. QED BY <1>3, <1>4, <1>5, <1>6, <1>7 DEF Inv

LEMMA RecordAliasInv == Inv /\ RecordAlias => Inv'
<1> SUFFICES ASSUME Inv, RecordAlias PROVE Inv'
  OBVIOUS
<1>1. /\ pc = "alias" /\ pc' = "save"
      /\ registry' = [registry EXCEPT ![RequestIdOf[cur]] =
                                        [by |-> cur, run |-> resp]]
      /\ idemFile' = registry' \/ idemFile' = Torn
      /\ idemSnap' = registry'
      /\ faults' = faults \/ faults' = faults + 1
      /\ UNCHANGED <<cur, resp, nonces, wal, events, mem, snap, runs, replies,
                     boots>>
  BY DEF RecordAlias, Record
<1>2. /\ registry' \in Store
      /\ cur \in Commands /\ registry'[cur] = [by |-> cur, run |-> resp]
      /\ \A k \in Keys :
            registry'[k] # None => registry'[registry'[k].by] = registry'[k]
      /\ \A c \in Commands : registry'[c] # None => registry'[c].by = c
      /\ \A c \in Commands : registry[c] # None => registry'[c] = registry[c]
      /\ \A c \in Commands \ {cur} : registry'[c] = registry[c]
  BY <1>1, EntryKeepsRegistry
<1>3. TypeOK'
  <2>1. registry' \in Store
    BY <1>2
  <2>2. idemFile' \in Store \cup {None, Torn}
    BY <1>1, <2>1
  <2>3. idemSnap' \in Store \cup {None}
    BY <1>1, <2>1
  <2>4. faults' \in Nat
    BY <1>1 DEF Inv, TypeOK
  <2>5. QED BY <1>1, <2>1, <2>2, <2>3, <2>4 DEF Inv, TypeOK
<1>4. Registry'
  BY <1>1, <1>2, StoreAssumption DEF Registry
<1>5. Progress'
  BY <1>1, <1>2 DEF Inv, Progress
<1>6. Answers'
  BY <1>1, <1>2, AnswersKept
<1>7. Paid'
  <2>1. registry[cur] = [by |-> cur, run |-> resp]
    BY <1>1 DEF Inv, Progress
  <2>2. ASSUME NEW c \in Commands
        PROVE  LedgerOutcome'[c] = LedgerOutcome[c]
    BY <1>1, <1>2, <2>1 DEF LedgerOutcome
  <2>3. QED BY <1>1, <2>2 DEF Inv, Paid, TypeOK
<1>8. QED BY <1>3, <1>4, <1>5, <1>6, <1>7 DEF Inv

LEMMA RecordFailsInv ==
    ASSUME Inv, RecordScopedFails \/ RecordAliasFails PROVE Inv'
<1>1. PICK key : /\ \/ pc = "idem" /\ key = cur
                    \/ pc = "alias" /\ key = RequestIdOf[cur]
                 /\ RecordFails(key)
  BY DEF RecordScopedFails, RecordAliasFails
<1>2. /\ registry' = [registry EXCEPT ![key] = [by |-> cur, run |-> resp]]
      /\ Finish(Failed) /\ faults' = faults + 1
      /\ UNCHANGED <<files, nonces, mem, runs, boots>>
  BY <1>1 DEF RecordFails
<1>3. /\ registry' \in Store
      /\ \A k \in Keys :
            registry'[k] # None => registry'[registry'[k].by] = registry'[k]
      /\ \A c \in Commands : registry'[c] # None => registry'[c].by = c
      /\ \A c \in Commands : registry[c] # None => registry'[c] = registry[c]
      /\ cur \in Commands /\ registry'[cur] = [by |-> cur, run |-> resp]
      /\ \A c \in Commands \ {cur} : registry'[c] = registry[c]
  BY <1>1, <1>2, EntryKeepsRegistry DEF files
<1>4. /\ Answers' /\ Progress' /\ pc' = "idle" /\ cur' = None /\ resp' = 0
      /\ replies' \subseteq [cmd : Commands, answer : Commands \cup {Failed},
                             run : Nat, boot : Nat]
  BY <1>1, <1>2, <1>3, FailureReply DEF files
<1>5. TypeOK'
  BY <1>2, <1>3, <1>4 DEF Inv, TypeOK, files
<1>6. Registry'
  BY <1>2, <1>3 DEF Inv, Registry, files
<1>7. Paid'
  <2>1. ASSUME NEW c \in Commands, LedgerOutcome[c] # None
        PROVE  LedgerOutcome'[c] # None
    <3>1. c = cur \/ registry[c] # None
      BY <2>1 DEF LedgerOutcome
    <3>2. registry'[c] # None
      BY <1>3, <3>1, KeyAssumption DEF Inv, TypeOK
    <3>3. registry'[c].run \in Nat
      BY <1>3, <3>2 DEF Store, Outcome
    <3>4. QED BY <1>4, <3>2, <3>3, KeyAssumption DEF LedgerOutcome
  <2>2. QED BY <1>2, <2>1 DEF Inv, Paid, TypeOK
<1>8. QED BY <1>4, <1>5, <1>6, <1>7 DEF Inv

LEMMA SaveStateInv == Inv /\ SaveState => Inv'
<1> DEFINE r == [cmd |-> cur, answer |-> cur, run |-> resp, boot |-> boots]
<1> SUFFICES ASSUME Inv, SaveState PROVE Inv'
  OBVIOUS
<1>1. /\ pc = "save" /\ snap' \in {mem, snap}
      /\ replies' = replies \cup {r}
      /\ pc' = "idle" /\ cur' = None /\ resp' = 0
      /\ UNCHANGED <<registry, idemFile, idemSnap, nonces, wal, events, mem,
                     runs, boots, faults>>
  BY DEF SaveState, Finish, Reply
<1>2. /\ cur \in Commands /\ resp \in Nat
      /\ registry[cur] = [by |-> cur, run |-> resp]
  BY <1>1 DEF Inv, TypeOK, Progress
<1>3. /\ r \in [cmd : Commands, answer : Commands \cup {Failed},
                run : Nat, boot : Nat]
      /\ r.cmd = cur /\ r.answer = cur /\ r.run = resp /\ r.boot = boots
      /\ boots <= boots
  BY <1>2 DEF r, Inv, TypeOK
<1> HIDE DEF r
<1>4. TypeOK'
  BY <1>1, <1>2, <1>3 DEF Inv, TypeOK, Store
<1>5. Registry' /\ Progress'
  BY <1>1 DEF Inv, Registry, Progress
<1>6. Answers'
  BY <1>1, <1>2, <1>3 DEF Inv, Answers
<1>7. Paid'
  <2>1. ASSUME NEW c \in Commands PROVE LedgerOutcome'[c] = LedgerOutcome[c]
    BY <1>1 DEF LedgerOutcome
  <2>2. QED BY <1>1, <2>1 DEF Inv, Paid
<1>8. QED BY <1>4, <1>5, <1>6, <1>7 DEF Inv

\* Whatever the files hold, the registry a restart loads is empty.
LEMMA LoadsNothing == Inv => LoadRegistry = EmptyStore
BY DEF Inv, Registry, LoadRegistry

LEMMA RestartInv == Inv /\ Restart => Inv'
<1> SUFFICES ASSUME Inv, Restart PROVE Inv'
  OBVIOUS
<1>1. PICK s \in SnapshotsLeft : snap' = s /\ mem' = s
  BY DEF Restart
<1>2. /\ registry' = EmptyStore /\ nonces' = {}
      /\ pc' = "idle" /\ cur' = None /\ resp' = 0
      /\ boots' = boots + 1 /\ faults' = faults + 1
      /\ UNCHANGED <<idemFile, idemSnap, wal, events, runs, replies>>
  BY LoadsNothing DEF Restart
<1>3. s \subseteq Commands \X Nat
  BY <1>1 DEF SnapshotsLeft, Inv, TypeOK
<1>4. \A k \in Keys : registry'[k] = None
  BY <1>2 DEF EmptyStore
<1>5. TypeOK'
  BY <1>1, <1>2, <1>3 DEF Inv, TypeOK, Store, EmptyStore
<1>6. Registry' /\ Progress'
  BY <1>2, <1>4 DEF Inv, Registry, Progress
<1>7. Answers'
  <2>1. \A r \in replies : r.boot \in Nat /\ r.boot <= boots
    BY DEF Inv, Answers, TypeOK
  <2>2. \A r \in replies : r.boot <= boots + 1 /\ r.boot # boots + 1
    BY <2>1 DEF Inv, TypeOK
  <2>3. QED BY <1>2, <2>2 DEF Inv, Answers
<1>8. Paid'
  BY <1>2 DEF Inv, Paid, TypeOK
<1>9. QED BY <1>5, <1>6, <1>7, <1>8 DEF Inv

LEMMA NextInv == Inv /\ [Next]_vars => Inv'
<1> SUFFICES ASSUME Inv, [Next]_vars PROVE Inv'
  OBVIOUS
<1>1. CASE UNCHANGED vars
  BY <1>1, StutterInv
<1>2. CASE \E m \in nonces : NonceLapses(m)
  BY <1>2, NonceLapsesInv
<1>3. CASE \E m \in Messages : Replay(m)
  BY <1>3, ReplayInv
<1>4. CASE \E m \in Messages : RejectByRate(m)
  BY <1>4, RejectByRateInv
<1>5. CASE \E m \in Messages : Accept(m)
  BY <1>5, AcceptInv
<1>6. CASE \E m \in Messages : HandlerThrows(m)
  BY <1>6, HandlerThrowsInv
<1>7. CASE AppendWal
  BY <1>7, AppendWalInv
<1>8. CASE WalFails
  BY <1>8, WalFailsInv
<1>9. CASE RecordScoped \/ RecordAlias
  BY <1>9, RecordScopedInv, RecordAliasInv
<1>10. CASE RecordScopedFails \/ RecordAliasFails
  BY <1>10, RecordFailsInv
<1>11. CASE SaveState
  BY <1>11, SaveStateInv
<1>12. CASE Restart
  BY <1>12, RestartInv
<1>13. QED
  BY <1>1, <1>2, <1>3, <1>4, <1>5, <1>6, <1>7, <1>8, <1>9, <1>10, <1>11,
     <1>12 DEF Next

LEMMA InvAlways == Spec => []Inv
BY InitInv, NextInv, PTL DEF Spec

-----------------------------------------------------------------------------
(* Theorems *)

\* Every variable of the write process keeps its type.
THEOREM TypeCorrect == Spec => []TypeOK
<1>1. Inv => TypeOK
  BY DEF Inv
<1>2. QED BY <1>1, InvAlways, PTL

\* A handler runs a second time for a command only when a fault paid for it:
\* M.route never re-runs a command because a message was resent, duplicated,
\* reordered or outlived its nonce.
THEOREM RerunsArePaidFor == Spec => []RerunNeedsFault
<1>1. Inv => RerunNeedsFault
  BY DEF Inv, Paid, RerunNeedsFault, TypeOK
<1>2. QED BY <1>1, InvAlways, PTL

\* No gateway is given the outcome of another command that carries the same
\* request id.
THEOREM RepliesAreOwn == Spec => []ReplyIsOwnOutcome
<1>1. Inv => ReplyIsOwnOutcome
  BY DEF Inv, Answers, ReplyIsOwnOutcome
<1>2. QED BY <1>1, InvAlways, PTL

\* A reply that a step adds is stamped with the current boot.
LEMMA NewRepliesAreCurrent ==
    [Next]_vars => \A r \in replies' : r \in replies \/ r.boot = boots'
<1> SUFFICES ASSUME [Next]_vars
             PROVE  \A r \in replies' : r \in replies \/ r.boot = boots'
  OBVIOUS
<1>1. CASE UNCHANGED vars
  BY <1>1 DEF vars
<1>2. CASE \E m \in nonces : NonceLapses(m)
  BY <1>2 DEF NonceLapses
<1>3. ASSUME NEW m \in Messages, Replay(m)
      PROVE  \A r \in replies' : r \in replies \/ r.boot = boots'
  BY <1>3 DEF Replay, Reply
<1>4. ASSUME NEW m \in Messages, RejectByRate(m) \/ Accept(m)
      PROVE  \A r \in replies' : r \in replies \/ r.boot = boots'
  BY <1>4 DEF RejectByRate, Accept
<1>5. ASSUME NEW m \in Messages, HandlerThrows(m)
      PROVE  \A r \in replies' : r \in replies \/ r.boot = boots'
  BY <1>5 DEF HandlerThrows, Reply
<1>6. CASE AppendWal \/ RecordScoped \/ RecordAlias \/ Restart
  BY <1>6 DEF AppendWal, RecordScoped, RecordAlias, Restart
<1>7. CASE WalFails
  BY <1>7 DEF WalFails, Finish, Reply
<1>8. CASE RecordScopedFails \/ RecordAliasFails
  BY <1>8 DEF RecordScopedFails, RecordAliasFails, RecordFails, Finish, Reply
<1>9. CASE SaveState
  BY <1>9 DEF SaveState, Finish, Reply
<1>10. QED
  BY <1>1, <1>2, <1>3, <1>4, <1>5, <1>6, <1>7, <1>8, <1>9 DEF Next

\* Between two restarts, all replies of M.route that report an outcome of one
\* command report the same run.
THEOREM AnswersAgree == Spec => []OneAnswerPerBoot
<1>1. Init => OneAnswerPerBoot
  BY DEF Init, OneAnswerPerBoot, Outcomes
<1>2. Inv' /\ OneAnswerPerBoot /\ [Next]_vars => OneAnswerPerBoot'
  <2> SUFFICES ASSUME Inv', OneAnswerPerBoot, [Next]_vars,
                      NEW c \in Commands,
                      NEW r1 \in Outcomes(c)', NEW r2 \in Outcomes(c)',
                      r1.boot = r2.boot
               PROVE  r1.run = r2.run
    BY DEF OneAnswerPerBoot
  <2>1. /\ r1 \in replies' /\ r1.cmd = c /\ r1.answer \in Commands
        /\ r2 \in replies' /\ r2.cmd = c /\ r2.answer \in Commands
    BY DEF Outcomes
  <2>2. CASE r1.boot = boots'
    <3>1. Answers'
      BY DEF Inv
    <3>2. ASSUME NEW r \in {r1, r2}
          PROVE  registry'[c] = [by |-> c, run |-> r.run]
      <4>1. r \in replies' /\ r.cmd = c /\ r.answer \in Commands
            /\ r.boot = boots'
        BY <2>1, <2>2
      <4>2. QED BY <3>1, <4>1 DEF Answers
    <3>3. [by |-> c, run |-> r1.run] = [by |-> c, run |-> r2.run]
      BY <3>2
    <3>4. [by |-> c, run |-> r1.run].run = [by |-> c, run |-> r2.run].run
      BY <3>3
    <3>5. QED BY <3>4
  <2>3. CASE r1.boot # boots'
    <3>1. r1 \in Outcomes(c) /\ r2 \in Outcomes(c)
      BY <2>1, <2>3, NewRepliesAreCurrent DEF Outcomes
    <3>2. QED BY <3>1 DEF OneAnswerPerBoot
  <2>4. QED BY <2>2, <2>3
<1>3. QED BY <1>1, <1>2, InvAlways, PTL DEF Spec

-----------------------------------------------------------------------------
(* WriteCommand implements CommandLedger *)

\* The answers the ledger sees after a step.
LEMMA AnsweredAfter ==
    ASSUME NEW r, replies' = replies \cup {r}
    PROVE  Answered' = IF r.answer \in Commands
                         THEN Answered \cup {<<r.cmd, r.run>>}
                         ELSE Answered
BY DEF Answered

\* A step that keeps the registry, the run in progress, the counters and the
\* reported outcomes leaves the ledger as it is.
LEMMA LedgerStutters ==
    ASSUME LedgerOutcome' = LedgerOutcome, Answered' = Answered,
           UNCHANGED <<runs, faults>>
    PROVE  UNCHANGED Ledger!vars
BY DEF Ledger!vars

\* The ledger forgets the outcomes of some commands, or none.
LEMMA LedgerForgets ==
    ASSUME \A c \in Commands : LedgerOutcome'[c] \in {LedgerOutcome[c], None},
           runs \in [Commands -> Nat],
           UNCHANGED runs, faults' = faults + 1, Answered' = Answered
    PROVE  Ledger!Next
<1> DEFINE lost == {c \in Commands : LedgerOutcome'[c] = None}
<1>1. LedgerOutcome' = [c \in Commands |-> IF c \in lost THEN None
                                            ELSE LedgerOutcome[c]]
  BY DEF LedgerOutcome
<1>2. runs' = [c \in Commands |-> IF c \in {} THEN runs[c] + 1 ELSE runs[c]]
  OBVIOUS
<1>3. Ledger!Fault(lost, {})
  BY <1>1, <1>2 DEF Ledger!Fault
<1>4. lost \in SUBSET Commands /\ {} \in SUBSET Commands
  OBVIOUS
<1>5. QED BY <1>3, <1>4 DEF Ledger!Next

\* An answer that reports the command's entry is an answer of the ledger.
LEMMA ReplayAnswers ==
    ASSUME Inv, NEW m \in Messages, Replay(m)
    PROVE  Ledger!Next
<1> DEFINE c == CommandOf[m]
<1>1. c \in Commands /\ c \in Keys
  BY MessageAssumption
<1>2. /\ Lookup(c) = registry[c] /\ registry[c] # None
      /\ registry[c].by = c /\ registry[c].run \in Nat
  BY <1>1, LookupIsScopedEntry DEF Inv, Replay
<1>3. pc = "idle"
  BY DEF Replay
<1>4. LedgerOutcome[c] = registry[c].run /\ registry[c].run # None
  BY <1>1, <1>2, <1>3, KeyAssumption DEF LedgerOutcome
<1>5. LedgerOutcome' = LedgerOutcome
  BY DEF LedgerOutcome, Replay, process
<1>6. replies' = replies \cup {Reply(c, c, registry[c].run)}
  BY <1>2 DEF Replay
<1>7. Answered' = Answered \cup {<<c, registry[c].run>>}
  <2>1. Answered' = IF Reply(c, c, registry[c].run).answer \in Commands
                    THEN Answered \cup {<<Reply(c, c, registry[c].run).cmd,
                                          Reply(c, c, registry[c].run).run>>}
                    ELSE Answered
    BY <1>6, AnsweredAfter
  <2>2. QED BY <2>1, <1>1 DEF Reply
<1>8. Ledger!Answer(c)
  BY <1>4, <1>5, <1>7 DEF Ledger!Answer, Replay
<1>9. QED BY <1>1, <1>8 DEF Ledger!Next

\* A handler that returns enters its command in the ledger.
LEMMA AcceptRuns ==
    ASSUME Inv, NEW m \in Messages, Accept(m)
    PROVE  Ledger!Next
<1> DEFINE c == CommandOf[m]
<1>1. c \in Commands /\ c \in Keys
  BY MessageAssumption
<1>2. pc = "idle" /\ registry[c] = None
  BY <1>1, LookupIsScopedEntry DEF Inv, Accept, Admit
<1>3. LedgerOutcome[c] = None
  BY <1>1, <1>2 DEF LedgerOutcome
<1>4. /\ registry' = registry /\ pc' = "wal" /\ cur' = c
      /\ resp' = runs[c] + 1
  BY DEF Accept
<1>5. LedgerOutcome' = [LedgerOutcome EXCEPT ![c] = runs[c] + 1]
  BY <1>1, <1>2, <1>4 DEF LedgerOutcome
<1>6. Answered' = Answered
  BY DEF Answered, Accept
<1>7. Ledger!Run(c)
  BY <1>3, <1>5, <1>6 DEF Ledger!Run, Accept
<1>8. QED BY <1>1, <1>7 DEF Ledger!Next

\* A handler that throws has run and reaches no ledger.
LEMMA ThrowInterrupts ==
    ASSUME Inv, NEW m \in Messages, HandlerThrows(m)
    PROVE  Ledger!Next
<1> DEFINE c == CommandOf[m]
<1>1. c \in Commands /\ c \in Keys
  BY MessageAssumption
<1>2. pc = "idle" /\ registry[c] = None
  BY <1>1, LookupIsScopedEntry DEF Inv, HandlerThrows, Admit
<1>3. LedgerOutcome[c] = None
  BY <1>1, <1>2 DEF LedgerOutcome
<1>4. LedgerOutcome' = [d \in Commands |-> IF d \in {} THEN None
                                            ELSE LedgerOutcome[d]]
  BY DEF LedgerOutcome, HandlerThrows, process
<1>5. replies' = replies \cup {Reply(c, Failed, runs[c] + 1)}
  BY DEF HandlerThrows
<1>6. Answered' = Answered
  <2>1. Reply(c, Failed, runs[c] + 1).answer \notin Commands
    BY KeyAssumption DEF Reply, Failed
  <2>2. QED BY <2>1, <1>5, AnsweredAfter
<1>7. runs' = [d \in Commands |-> IF d \in {c} THEN runs[d] + 1 ELSE runs[d]]
  BY <1>1 DEF HandlerThrows, Inv, TypeOK
<1>8. Ledger!Fault({}, {c})
  BY <1>3, <1>4, <1>6, <1>7 DEF Ledger!Fault, HandlerThrows
<1>9. {} \in SUBSET Commands /\ {c} \in SUBSET Commands
  BY <1>1
<1>10. QED BY <1>8, <1>9 DEF Ledger!Next

\* A failure after the handler is answered without reporting an outcome.
LEMMA FailureReportsNothing ==
    ASSUME Finish(Failed)
    PROVE  Answered' = Answered
<1>1. Reply(cur, Failed, resp).answer \notin Commands
  BY KeyAssumption DEF Reply, Failed
<1>2. QED BY <1>1, AnsweredAfter DEF Finish

LEMMA FailuresForget ==
    ASSUME Inv, Inv',
           \/ WalFails
           \/ RecordScopedFails \/ RecordAliasFails
    PROVE  Ledger!Next
<1> SUFFICES ASSUME TRUE
             PROVE  /\ \A c \in Commands :
                         LedgerOutcome'[c] \in {LedgerOutcome[c], None}
                    /\ UNCHANGED runs /\ faults' = faults + 1
                    /\ Answered' = Answered
  BY LedgerForgets DEF Inv, TypeOK
<1>1. CASE WalFails
  <2>1. Answered' = Answered
    BY <1>1, FailureReportsNothing DEF WalFails
  <2>2. pc = "wal" /\ registry' = registry /\ pc' = "idle"
    BY <1>1 DEF WalFails, Finish
  <2>3. registry[cur] = None
    BY <2>2 DEF Inv, Progress
  <2>4. \A c \in Commands : LedgerOutcome'[c] \in {LedgerOutcome[c], None}
    BY <2>2, <2>3 DEF LedgerOutcome
  <2>5. QED BY <1>1, <2>1, <2>4 DEF WalFails
<1>2. CASE RecordScopedFails
  <2>1. Answered' = Answered
    BY <1>2, FailureReportsNothing DEF RecordScopedFails, RecordFails
  <2>2. /\ pc = "idem" /\ pc' = "idle" /\ cur \in Commands
        /\ registry' = [registry EXCEPT ![cur] = [by |-> cur, run |-> resp]]
    BY <1>2 DEF RecordScopedFails, RecordFails, Finish, Inv, TypeOK
  <2>3. registry \in Store /\ [by |-> cur, run |-> resp] # None
    BY <2>2, KeyAssumption DEF Inv, TypeOK
  <2>4. \A c \in Commands : LedgerOutcome'[c] \in {LedgerOutcome[c], None}
    BY <2>2, <2>3 DEF LedgerOutcome, Store
  <2>5. QED BY <1>2, <2>1, <2>4 DEF RecordScopedFails, RecordFails
<1>3. CASE RecordAliasFails
  <2>1. Answered' = Answered
    BY <1>3, FailureReportsNothing DEF RecordAliasFails, RecordFails
  <2>2. /\ pc = "alias" /\ pc' = "idle" /\ cur \in Commands
        /\ registry' = [registry EXCEPT ![RequestIdOf[cur]] =
                                           [by |-> cur, run |-> resp]]
    BY <1>3 DEF RecordAliasFails, RecordFails, Finish, Inv, TypeOK
  <2>3. registry \in Store /\ RequestIdOf[cur] \notin Commands
    BY <2>2, KeyAssumption, RequestIdAssumption DEF Inv, TypeOK
  <2>4. \A c \in Commands : LedgerOutcome'[c] \in {LedgerOutcome[c], None}
    BY <2>2, <2>3 DEF LedgerOutcome, Store
  <2>5. QED BY <1>3, <2>1, <2>4 DEF RecordAliasFails, RecordFails
<1>4. QED BY <1>1, <1>2, <1>3

\* A restart forgets every outcome the registry does not get back.
LEMMA RestartForgets ==
    ASSUME Inv, Inv', Restart
    PROVE  Ledger!Next
<1>1. idemFile = None => idemSnap = None
  BY DEF Inv, Registry
<1>2. pc' = "idle" /\ registry' = EmptyStore
  BY <1>1 DEF Restart, LoadRegistry
<1>3. \A c \in Commands : LedgerOutcome'[c] = None
  BY <1>2 DEF LedgerOutcome, EmptyStore
<1>4. Answered' = Answered
  BY DEF Answered, Restart
<1>5. QED BY <1>3, <1>4, LedgerForgets DEF Restart, Inv, TypeOK

\* The answer after SaveState reports the entry of the command.
LEMMA SaveAnswers ==
    ASSUME Inv, SaveState
    PROVE  Ledger!Next
<1>1. pc = "save" /\ cur \in Commands /\ cur \in Keys
  BY DEF SaveState, Inv, TypeOK
<1>2. registry[cur] = [by |-> cur, run |-> resp] /\ resp \in Nat
  BY <1>1 DEF Inv, Progress, TypeOK
<1>3. LedgerOutcome[cur] = resp /\ resp # None
  BY <1>1, <1>2, KeyAssumption DEF LedgerOutcome
<1>4. LedgerOutcome' = LedgerOutcome
  BY <1>1 DEF LedgerOutcome, SaveState, Finish
<1>5. replies' = replies \cup {Reply(cur, cur, resp)}
  BY DEF SaveState, Finish
<1>6. Answered' = Answered \cup {<<cur, resp>>}
  <2>1. Answered' = IF Reply(cur, cur, resp).answer \in Commands
                    THEN Answered \cup {<<Reply(cur, cur, resp).cmd,
                                          Reply(cur, cur, resp).run>>}
                    ELSE Answered
    BY <1>5, AnsweredAfter
  <2>2. QED BY <2>1, <1>1 DEF Reply
<1>7. Ledger!Answer(cur)
  BY <1>3, <1>4, <1>6 DEF Ledger!Answer, SaveState
<1>8. QED BY <1>1, <1>7 DEF Ledger!Next

\* The other steps are inside the process: the ledger sees nothing, or that
\* something was lost.
LEMMA OtherSteps ==
    ASSUME Inv,
           \/ UNCHANGED vars
           \/ \E m \in nonces : NonceLapses(m)
           \/ \E m \in Messages : RejectByRate(m)
           \/ AppendWal \/ RecordScoped \/ RecordAlias
    PROVE  [Ledger!Next]_(Ledger!vars)
<1>1. ASSUME LedgerOutcome' = LedgerOutcome, UNCHANGED <<runs, replies>>,
             faults' \in {faults, faults + 1}
      PROVE  [Ledger!Next]_(Ledger!vars)
  <2>1. Answered' = Answered
    BY <1>1 DEF Answered
  <2>2. CASE faults' = faults
    BY <1>1, <2>1, <2>2, LedgerStutters
  <2>3. CASE faults' = faults + 1
    BY <1>1, <2>1, <2>3, LedgerForgets DEF Inv, TypeOK
  <2>4. QED BY <1>1, <2>2, <2>3
<1>2. CASE \/ UNCHANGED vars
           \/ \E m \in nonces : NonceLapses(m)
           \/ \E m \in Messages : RejectByRate(m)
  <2>1. UNCHANGED <<pc, cur, resp, registry, runs, faults, replies>>
    BY <1>2 DEF vars, NonceLapses, RejectByRate, process
  <2>2. LedgerOutcome' = LedgerOutcome
    BY <2>1 DEF LedgerOutcome
  <2>3. QED BY <1>1, <2>1, <2>2
<1>3. CASE AppendWal
  <2>1. LedgerOutcome' = LedgerOutcome
    BY <1>3 DEF LedgerOutcome, AppendWal
  <2>2. QED BY <1>1, <1>3, <2>1 DEF AppendWal
<1>4. CASE RecordScoped
  <2>1. /\ pc = "idem" /\ pc' = "alias" /\ cur \in Commands
        /\ registry' = [registry EXCEPT ![cur] = [by |-> cur, run |-> resp]]
    BY <1>4 DEF RecordScoped, Record, Inv, TypeOK
  <2>2. /\ registry \in Store /\ resp \in Nat
        /\ [by |-> cur, run |-> resp] # None
    BY <2>1, KeyAssumption DEF Inv, TypeOK
  <2>3. \A c \in Commands : LedgerOutcome'[c] = LedgerOutcome[c]
    BY <1>4, <2>1, <2>2 DEF LedgerOutcome, Store, RecordScoped
  <2>4. LedgerOutcome' = LedgerOutcome
    BY <2>3 DEF LedgerOutcome
  <2>5. QED BY <1>1, <1>4, <2>4 DEF RecordScoped, Record
<1>5. CASE RecordAlias
  <2>1. /\ pc = "alias" /\ pc' = "save" /\ cur \in Commands
        /\ registry' = [registry EXCEPT ![RequestIdOf[cur]] =
                                           [by |-> cur, run |-> resp]]
    BY <1>5 DEF RecordAlias, Record, Inv, TypeOK
  <2>2. registry \in Store /\ RequestIdOf[cur] \notin Commands
    BY <2>1, KeyAssumption, RequestIdAssumption DEF Inv, TypeOK
  <2>3. \A c \in Commands : LedgerOutcome'[c] = LedgerOutcome[c]
    BY <2>1, <2>2 DEF LedgerOutcome, Store
  <2>4. LedgerOutcome' = LedgerOutcome
    BY <2>3 DEF LedgerOutcome
  <2>5. QED BY <1>1, <1>5, <2>4 DEF RecordAlias, Record
<1>6. QED BY <1>2, <1>3, <1>4, <1>5

\* The process starts as an empty ledger, and each of its steps is a step of
\* the ledger or leaves the ledger as it is.
THEOREM ImplementsLedger == Spec => LedgerSpec
<1>1. Init => Ledger!Init
  BY DEF Init, Ledger!Init, LedgerOutcome, Answered, EmptyStore
<1>2. Inv /\ Inv' /\ [Next]_vars => [Ledger!Next]_(Ledger!vars)
  <2> SUFFICES ASSUME Inv, Inv', [Next]_vars
               PROVE  [Ledger!Next]_(Ledger!vars)
    OBVIOUS
  <2>1. CASE \E m \in Messages : Replay(m)
    BY <2>1, ReplayAnswers
  <2>2. CASE \E m \in Messages : Accept(m)
    BY <2>2, AcceptRuns
  <2>3. CASE \E m \in Messages : HandlerThrows(m)
    BY <2>3, ThrowInterrupts
  <2>4. CASE \/ WalFails
             \/ RecordScopedFails \/ RecordAliasFails
    BY <2>4, FailuresForget
  <2>5. CASE Restart
    BY <2>5, RestartForgets
  <2>6. CASE SaveState
    BY <2>6, SaveAnswers
  <2>7. CASE \/ UNCHANGED vars
             \/ \E m \in nonces : NonceLapses(m)
             \/ \E m \in Messages : RejectByRate(m)
             \/ AppendWal \/ RecordScoped \/ RecordAlias
    BY <2>7, OtherSteps
  <2>8. QED
    BY <2>1, <2>2, <2>3, <2>4, <2>5, <2>6, <2>7 DEF Next
<1>3. QED BY <1>1, <1>2, InvAlways, PTL DEF Spec, LedgerSpec, Ledger!Spec

-----------------------------------------------------------------------------
(* What may be in the outbox without being in the log *)

\* The event of the run in progress, for which the log line is still to come.
Pending == IF pc = "wal" THEN {<<cur, resp>>} ELSE {}

Unlogged == (events \ wal) \ Pending

\* Each unlogged event, but for the one of the run in progress, is paid for.
UnloggedInv == IsFiniteSet(events) /\ Cardinality(Unlogged) <= faults

\* A set that grows by one element at most, when a fault is counted, or not
\* at all.
LEMMA PaidByFault ==
    ASSUME NEW S, IsFiniteSet(S), NEW T, NEW x, NEW n \in Nat, Cardinality(S) <= n,
           T \subseteq S \cup {x}
    PROVE  /\ IsFiniteSet(T) /\ Cardinality(T) <= n + 1
           /\ T \subseteq S => Cardinality(T) <= n
<1>1. /\ IsFiniteSet(S \cup {x}) /\ Cardinality(S) \in Nat
      /\ Cardinality(S \cup {x}) \in {Cardinality(S), Cardinality(S) + 1}
  BY FS_AddElement, FS_CardinalityType
<1>2. /\ IsFiniteSet(T) /\ Cardinality(T) \in Nat
      /\ Cardinality(T) <= Cardinality(S \cup {x})
  BY <1>1, FS_Subset, FS_CardinalityType
<1>3. T \subseteq S => Cardinality(T) <= Cardinality(S)
  BY FS_Subset
<1> QED BY <1>1, <1>2, <1>3

\* Every event in the outbox that the log knows nothing of is due to a fault
\* of its own, or is that of the run in progress (the WAL comes after the
\* handler in M.route).
THEOREM UnloggedIsPaidFor == Spec => []UnloggedEventNeedsFault
<1>1. Init => UnloggedInv
  <2> SUFFICES ASSUME Init PROVE UnloggedInv
    OBVIOUS
  <2>1. events = {} /\ Unlogged = {} /\ faults = 0
    BY DEF Init, Unlogged
  <2> QED BY <2>1, FS_EmptySet DEF UnloggedInv
<1>2. Inv /\ UnloggedInv /\ [Next]_vars => UnloggedInv'
  <2> SUFFICES ASSUME Inv, UnloggedInv, [Next]_vars PROVE UnloggedInv'
    OBVIOUS
  <2>1. /\ faults \in Nat /\ IsFiniteSet(events) /\ IsFiniteSet(Unlogged)
        /\ Cardinality(Unlogged) <= faults
    BY FS_Subset DEF Inv, TypeOK, UnloggedInv, Unlogged
  <2>2. ASSUME IsFiniteSet(events'), NEW x, Unlogged' \subseteq Unlogged \cup {x},
               \/ faults' = faults + 1
               \/ faults' = faults /\ Unlogged' \subseteq Unlogged
        PROVE  UnloggedInv'
    <3>1. /\ Cardinality(Unlogged') <= faults + 1
          /\ Unlogged' \subseteq Unlogged => Cardinality(Unlogged') <= faults
      BY <2>1, <2>2, PaidByFault
    <3>2. Cardinality(Unlogged') <= faults'
      BY <2>2, <3>1
    <3> QED BY <2>2, <3>2 DEF UnloggedInv
  <2>3. ASSUME UNCHANGED <<events, wal, pc, cur, resp, faults>> PROVE UnloggedInv'
    BY <2>3 DEF UnloggedInv, Unlogged, Pending
  <2>4. CASE UNCHANGED vars
    BY <2>3, <2>4 DEF vars
  <2>5. CASE \E m \in nonces : NonceLapses(m)
    BY <2>3, <2>5 DEF NonceLapses, process, files
  <2>6. CASE \E m \in Messages : Replay(m) \/ RejectByRate(m)
    BY <2>3, <2>6 DEF Replay, RejectByRate, process, files
  <2>7. ASSUME NEW m \in Messages, Accept(m) PROVE UnloggedInv'
    <3> DEFINE x == <<CommandOf[m], runs[CommandOf[m]] + 1>>
    <3>1. /\ pc = "idle" /\ pc' = "wal" /\ <<cur', resp'>> = x
          /\ events' \subseteq events \cup {x} /\ wal' = wal /\ faults' = faults
      BY <2>7 DEF Accept, Admit, Effect, HandlerMaySave, NoEffect
    <3> HIDE DEF x
    <3>2. IsFiniteSet(events')
      BY <2>1, <3>1, FS_AddElement, FS_Subset
    <3>3. Unlogged' \subseteq Unlogged
      BY <3>1 DEF Unlogged, Pending
    <3> QED BY <2>2, <3>1, <3>2, <3>3
  <2>8. ASSUME NEW m \in Messages, HandlerThrows(m) PROVE UnloggedInv'
    <3> DEFINE x == <<CommandOf[m], runs[CommandOf[m]] + 1>>
    <3>1. /\ pc = "idle" /\ pc' = pc
          /\ events' \subseteq events \cup {x} /\ wal' = wal /\ faults' = faults + 1
      BY <2>8 DEF HandlerThrows, Admit, Effect, HandlerMaySave, NoEffect, process
    <3> HIDE DEF x
    <3>2. IsFiniteSet(events')
      BY <2>1, <3>1, FS_AddElement, FS_Subset
    <3>3. Unlogged' \subseteq Unlogged \cup {x}
      BY <3>1 DEF Unlogged, Pending
    <3> QED BY <2>2, <3>1, <3>2, <3>3
  <2>9. CASE AppendWal
    <3>1. /\ pc = "wal" /\ pc' = "idem" /\ events' = events
          /\ \/ wal' = wal \cup {<<cur, resp>>} /\ faults' = faults
             \/ wal' = wal /\ faults' = faults + 1
      BY <2>9 DEF AppendWal
    <3>2. Unlogged' \subseteq Unlogged \cup {<<cur, resp>>}
      BY <3>1 DEF Unlogged, Pending
    <3>3. faults' = faults => Unlogged' \subseteq Unlogged
      BY <2>1, <3>1 DEF Unlogged, Pending
    <3> QED BY <2>1, <2>2, <3>1, <3>2, <3>3
  <2>10. CASE WalFails \/ Restart
    <3>1. /\ pc' = "idle" /\ UNCHANGED <<events, wal>> /\ faults' = faults + 1
      BY <2>10 DEF WalFails, Restart, Finish, files
    <3>2. Unlogged' \subseteq Unlogged \cup {<<cur, resp>>}
      BY <3>1 DEF Unlogged, Pending
    <3> QED BY <2>1, <2>2, <3>1, <3>2
  <2>11. CASE RecordScoped \/ RecordAlias \/ SaveState
    <3>1. /\ pc # "wal" /\ pc' # "wal" /\ UNCHANGED <<events, wal>>
          /\ faults' = faults \/ faults' = faults + 1
      BY <2>11 DEF RecordScoped, RecordAlias, Record, SaveState, Finish
    <3>2. Unlogged' = Unlogged
      BY <3>1 DEF Unlogged, Pending
    <3> QED BY <2>1, <2>2, <3>1, <3>2
  <2>12. CASE RecordScopedFails \/ RecordAliasFails
    <3>1. /\ pc # "wal" /\ pc' # "wal" /\ UNCHANGED <<events, wal>>
          /\ faults' = faults + 1
      BY <2>12 DEF RecordScopedFails, RecordAliasFails, RecordFails, Finish, files
    <3>2. Unlogged' = Unlogged
      BY <3>1 DEF Unlogged, Pending
    <3> QED BY <2>1, <2>2, <3>1, <3>2
  <2> QED BY <2>4, <2>5, <2>6, <2>7, <2>8, <2>9, <2>10, <2>11, <2>12 DEF Next
<1>3. Inv /\ UnloggedInv => UnloggedEventNeedsFault
  <2> SUFFICES ASSUME Inv, UnloggedInv PROVE UnloggedEventNeedsFault
    OBVIOUS
  <2>1. /\ faults \in Nat /\ IsFiniteSet(Unlogged) /\ Cardinality(Unlogged) <= faults
    BY FS_Subset DEF Inv, TypeOK, UnloggedInv, Unlogged
  <2>2. CASE pc = "wal"
    <3>1. events \ wal \subseteq Unlogged \cup {<<cur, resp>>}
      BY DEF Unlogged, Pending
    <3>2. Cardinality(events \ wal) <= faults + 1
      BY <2>1, <3>1, PaidByFault
    <3> QED BY <2>2, <3>2 DEF UnloggedEventNeedsFault
  <2>3. CASE pc # "wal"
    <3>1. events \ wal = Unlogged
      BY <2>3 DEF Unlogged, Pending
    <3> QED BY <2>1, <2>3, <3>1 DEF UnloggedEventNeedsFault
  <2> QED BY <2>2, <2>3
<1> QED BY <1>1, <1>2, <1>3, InvAlways, PTL DEF Spec

-----------------------------------------------------------------------------
(* What may be reported without being in the log *)

\* The outcomes the process has reported or may still report: those of the
\* registry, and that of the run in progress once its line is behind it.
Entries == {e \in Commands \X Nat : registry[e[1]] = [by |-> e[1], run |-> e[2]]}
Reportable == Answered \cup Entries
                       \cup (IF pc \in {"idem", "alias", "save"} THEN {<<cur, resp>>} ELSE {})

LinesLost == Reportable \ wal

LoggedInv == IsFiniteSet(LinesLost) /\ Cardinality(LinesLost) <= faults

\* An outcome M.route reports is in the write-ahead log, but for one per fault:
\* the line is written before the entry and before the answer, and a command
\* whose line is known to have failed is not entered.
THEOREM UnloggedAnswersArePaidFor == Spec => []UnloggedAnswerNeedsFault
<1>1. Init => LoggedInv
  <2> SUFFICES ASSUME Init PROVE LoggedInv
    OBVIOUS
  <2>1. ASSUME NEW e \in Entries PROVE FALSE
    <3>1. /\ e[1] \in Commands /\ e[2] \in Nat
          /\ registry[e[1]] = [by |-> e[1], run |-> e[2]]
      BY DEF Entries
    <3>2. [by |-> e[1], run |-> e[2]] \in [by : Commands, run : Nat]
      BY <3>1
    <3>3. registry[e[1]] = None
      BY <3>1 DEF Init, EmptyStore
    <3> QED BY <3>1, <3>2, <3>3, KeyAssumption
  <2>2. LinesLost = {} /\ faults = 0
    BY <2>1 DEF Init, LinesLost, Reportable, Answered
  <2> QED BY <2>2, FS_EmptySet DEF LoggedInv
<1>2. Inv /\ LoggedInv /\ [Next]_vars => LoggedInv'
  <2> SUFFICES ASSUME Inv, LoggedInv, [Next]_vars PROVE LoggedInv'
    OBVIOUS
  <2> DEFINE run == <<cur, resp>>
  <2>1. faults \in Nat
    BY DEF Inv, TypeOK
  <2>2. ASSUME NEW x, LinesLost' \subseteq LinesLost \cup {x},
               \/ faults' = faults + 1
               \/ faults' = faults /\ LinesLost' \subseteq LinesLost
        PROVE  LoggedInv'
    <3>1. IsFiniteSet(LinesLost) /\ Cardinality(LinesLost) <= faults
      BY DEF LoggedInv
    <3>2. /\ IsFiniteSet(LinesLost') /\ Cardinality(LinesLost') <= faults + 1
          /\ LinesLost' \subseteq LinesLost => Cardinality(LinesLost') <= faults
      BY <2>1, <2>2, <3>1, PaidByFault
    <3> QED BY <2>2, <3>2 DEF LoggedInv
  <2>3. ASSUME Reportable' \subseteq Reportable, wal' = wal,
               faults' \in {faults, faults + 1}
        PROVE  LoggedInv'
    <3>1. LinesLost' \subseteq LinesLost
      BY <2>3 DEF LinesLost
    <3> QED BY <2>2, <2>3, <3>1
  <2>4. ASSUME UNCHANGED <<replies, registry, pc, cur, resp, wal, faults>> PROVE LoggedInv'
    BY <2>4 DEF LoggedInv, LinesLost, Reportable, Answered, Entries
  <2>5. CASE \/ UNCHANGED vars
             \/ \E m \in nonces : NonceLapses(m)
             \/ \E m \in Messages : RejectByRate(m)
    BY <2>4, <2>5 DEF vars, NonceLapses, RejectByRate, process, files
  <2>6. ASSUME NEW m \in Messages, Replay(m) PROVE LoggedInv'
    <3> DEFINE c == CommandOf[m]
               e == registry[c]
    <3>1. c \in Commands /\ c \in Keys
      BY MessageAssumption
    <3>2. /\ e # None /\ e.by = c /\ e.run \in Nat
          /\ replies' = replies \cup {Reply(c, c, e.run)}
      BY <2>6, <3>1, LookupIsScopedEntry DEF Inv, Replay
    <3>3. e \in Outcome
      BY <3>1, <3>2 DEF Inv, TypeOK, Store
    <3>4. registry[c] = [by |-> c, run |-> e.run]
      BY <3>2, <3>3 DEF Outcome
    <3>5. <<c, e.run>> \in Entries
      BY <3>1, <3>2, <3>4 DEF Entries
    <3>6. Answered' = Answered \cup {<<c, e.run>>}
      <4>1. Answered' = IF Reply(c, c, e.run).answer \in Commands
                        THEN Answered \cup {<<Reply(c, c, e.run).cmd, Reply(c, c, e.run).run>>}
                        ELSE Answered
        BY <3>2, AnsweredAfter
      <4> QED BY <3>1, <4>1 DEF Reply
    <3>7. UNCHANGED <<registry, pc, cur, resp, wal, faults>>
      BY <2>6 DEF Replay, process, files
    <3>8. Entries' = Entries
      BY <3>7 DEF Entries
    <3> QED BY <2>3, <3>5, <3>6, <3>7, <3>8 DEF Reportable
  <2>7. ASSUME NEW m \in Messages, Accept(m) \/ HandlerThrows(m) PROVE LoggedInv'
    <3>1. /\ pc = "idle" /\ pc' \in {"idle", "wal"}
          /\ faults' \in {faults, faults + 1} /\ UNCHANGED <<registry, wal>>
      BY <2>7 DEF Accept, HandlerThrows, Admit, process
    <3>2. Answered' = Answered
      <4>1. CASE Accept(m)
        BY <4>1 DEF Accept, Answered
      <4>2. CASE HandlerThrows(m)
        <5> DEFINE r == Reply(CommandOf[m], Failed, runs[CommandOf[m]] + 1)
        <5>1. replies' = replies \cup {r} /\ r.answer \notin Commands
          BY <4>2, KeyAssumption DEF HandlerThrows, Reply, Failed
        <5> QED BY <5>1, AnsweredAfter
      <4> QED BY <2>7, <4>1, <4>2
    <3>3. Reportable' \subseteq Reportable
      BY <3>1, <3>2 DEF Reportable, Entries
    <3> QED BY <2>3, <3>1, <3>3
  <2>8. CASE AppendWal
    <3>1. /\ pc = "wal" /\ pc' = "idem" /\ UNCHANGED <<registry, replies, cur, resp>>
          /\ \/ wal' = wal \cup {run} /\ faults' = faults
             \/ wal' = wal /\ faults' = faults + 1
      BY <2>8 DEF AppendWal
    <3>2. Answered' = Answered /\ Entries' = Entries
      BY <3>1 DEF Answered, Entries
    <3>3. Reportable' = Reportable \cup {run}
      BY <3>1, <3>2 DEF Reportable
    <3> HIDE DEF run
    <3>4. LinesLost' \subseteq LinesLost \cup {run}
      BY <3>1, <3>3 DEF LinesLost
    <3>5. wal' = wal \cup {run} => LinesLost' \subseteq LinesLost
      BY <3>3 DEF LinesLost
    <3> QED BY <2>2, <3>1, <3>4, <3>5
  <2>9. CASE WalFails \/ RecordScopedFails \/ RecordAliasFails \/ RecordScoped \/ RecordAlias
    <3>1. /\ wal' = wal /\ faults' \in {faults, faults + 1}
          /\ \/ pc' = "idle" /\ Finish(Failed)
             \/ pc' # "idle" /\ UNCHANGED <<replies, cur, resp>> /\ pc \in {"idem", "alias"}
      BY <2>9 DEF WalFails, RecordScopedFails, RecordAliasFails, RecordFails, Finish,
                  RecordScoped, RecordAlias, Record, files
    <3>2. Answered' = Answered
      BY <3>1, FailureReportsNothing DEF Answered
    <3>3. \/ registry' = registry
          \/ /\ pc \in {"idem", "alias"}
             /\ registry'[cur] = [by |-> cur, run |-> resp] /\ resp \in Nat
             /\ \A c \in Commands \ {cur} : registry'[c] = registry[c]
      <4>1. CASE WalFails
        BY <4>1 DEF WalFails
      <4>2. CASE RecordScopedFails \/ RecordScoped
        BY <4>2, EntryKeepsRegistry DEF RecordScopedFails, RecordScoped, RecordFails, Record, Inv, TypeOK
      <4>3. CASE RecordAliasFails \/ RecordAlias
        BY <4>3, EntryKeepsRegistry DEF RecordAliasFails, RecordAlias, RecordFails, Record, Inv, TypeOK
      <4> QED BY <2>9, <4>1, <4>2, <4>3
    <3>4. Entries' \subseteq Entries \cup (IF pc \in {"idem", "alias"} THEN {run} ELSE {})
      <4> SUFFICES ASSUME NEW e \in Entries', e \notin Entries
                   PROVE  pc \in {"idem", "alias"} /\ e = run
        OBVIOUS
      <4>1. /\ e \in Commands \X Nat /\ registry'[e[1]] = [by |-> e[1], run |-> e[2]]
            /\ registry[e[1]] # [by |-> e[1], run |-> e[2]]
        BY DEF Entries
      <4>2. pc \in {"idem", "alias"} /\ e[1] = cur
        BY <3>3, <4>1
      <4>3. [by |-> cur, run |-> resp] = [by |-> e[1], run |-> e[2]]
        BY <3>3, <4>1, <4>2
      <4>4. [by |-> cur, run |-> resp].run = [by |-> e[1], run |-> e[2]].run
        BY <4>3
      <4> QED BY <4>1, <4>2, <4>4
    <3>5. Reportable' \subseteq Reportable
      BY <3>1, <3>2, <3>4 DEF Reportable
    <3> QED BY <2>3, <3>1, <3>5
  <2>10. CASE SaveState
    <3>1. /\ pc = "save" /\ pc' = "idle" /\ UNCHANGED <<registry, wal, faults>>
          /\ replies' = replies \cup {Reply(cur, cur, resp)}
      BY <2>10 DEF SaveState, Finish
    <3>2. Answered' \subseteq Answered \cup {run}
      <4>1. Answered' = IF Reply(cur, cur, resp).answer \in Commands
                        THEN Answered \cup {<<Reply(cur, cur, resp).cmd,
                                              Reply(cur, cur, resp).run>>}
                        ELSE Answered
        BY <3>1, AnsweredAfter
      <4> QED BY <4>1 DEF Reply
    <3>3. Reportable' \subseteq Reportable
      BY <3>1, <3>2 DEF Reportable, Entries
    <3> QED BY <2>3, <3>1, <3>3
  <2>11. CASE Restart
    <3>1. /\ pc' = "idle" /\ registry' = EmptyStore /\ faults' = faults + 1
          /\ UNCHANGED <<wal, replies>>
      BY <2>11, LoadsNothing DEF Restart
    <3>2. ASSUME NEW e \in Entries' PROVE FALSE
      <4>1. e \in Commands \X Nat /\ registry'[e[1]] = [by |-> e[1], run |-> e[2]]
        BY DEF Entries
      <4>2. registry'[e[1]] = None
        BY <3>1, <4>1 DEF EmptyStore
      <4>3. [by |-> e[1], run |-> e[2]] \in [by : Commands, run : Nat]
        BY <4>1
      <4> QED BY <4>1, <4>2, <4>3, KeyAssumption
    <3>3. Reportable' \subseteq Reportable
      BY <3>1, <3>2 DEF Reportable, Answered
    <3> QED BY <2>3, <3>1, <3>3
  <2> QED BY <2>5, <2>6, <2>7, <2>8, <2>9, <2>10, <2>11 DEF Next
<1>3. Inv /\ LoggedInv => UnloggedAnswerNeedsFault
  <2> SUFFICES ASSUME Inv, LoggedInv PROVE UnloggedAnswerNeedsFault
    OBVIOUS
  <2>1. Answered \ wal \subseteq LinesLost
    BY DEF LinesLost, Reportable
  <2>2. /\ Cardinality(Answered \ wal) <= Cardinality(LinesLost)
        /\ Cardinality(Answered \ wal) \in Nat /\ Cardinality(LinesLost) \in Nat
    BY <2>1, FS_Subset, FS_CardinalityType DEF LoggedInv
  <2> QED BY <2>2 DEF LoggedInv, UnloggedAnswerNeedsFault, Inv, TypeOK
<1> QED BY <1>1, <1>2, <1>3, InvAlways, PTL DEF Spec

-----------------------------------------------------------------------------
(* What the saved state table can be explained by *)

\* The effect of the run in progress, whose entry is still to come.
Due == IF pc \in {"wal", "idem"} THEN {<<cur, resp>>} ELSE {}

Entered(e) == registry[e[1]] = [by |-> e[1], run |-> e[2]]
InFile(e) == idemFile # None /\ idemFile[e[1]] = [by |-> e[1], run |-> e[2]]

\* Effects of earlier runs that are not in the registry, or not in its file.
Unentered == {e \in mem : ~Entered(e)} \ Due
Unfiled == {e \in mem : ~InFile(e)} \ Due

\* Until the process is restarted each of them is paid for by a fault, as long
\* as the file can be read at all; the registry repairs the file when it is
\* written again.
SavedInv ==
    boots = 0 =>
        /\ snap \subseteq mem /\ IsFiniteSet(mem)
        /\ Cardinality(Unentered) <= faults
        /\ idemFile # Torn => Cardinality(Unfiled) <= faults

\* A step that makes at most one effect wanting, and counts a fault then.
LEMMA SavedStep ==
    ASSUME Inv, SavedInv, boots = 0, IsFiniteSet(mem'), snap' \subseteq mem',
           faults' = faults \/ faults' = faults + 1,
           NEW x,
           Unentered' \subseteq Unentered \cup {x},
           faults' = faults => Unentered' \subseteq Unentered,
           idemFile' # Torn =>
               \/ Unfiled' = Unentered'
               \/ /\ idemFile # Torn
                  /\ Unfiled' \subseteq Unfiled \cup {x}
                  /\ faults' = faults => Unfiled' \subseteq Unfiled
    PROVE  SavedInv'
<1>1. /\ faults \in Nat /\ IsFiniteSet(Unentered) /\ IsFiniteSet(Unfiled)
      /\ Cardinality(Unentered) <= faults
  BY FS_Subset DEF Inv, TypeOK, SavedInv, Unentered, Unfiled
<1>2. Cardinality(Unentered') <= faults'
  <2>1. /\ Cardinality(Unentered') <= faults + 1
        /\ Unentered' \subseteq Unentered => Cardinality(Unentered') <= faults
    BY <1>1, PaidByFault
  <2> QED BY <2>1
<1>3. idemFile' # Torn => Cardinality(Unfiled') <= faults'
  <2> SUFFICES ASSUME idemFile' # Torn, Unfiled' # Unentered'
               PROVE  Cardinality(Unfiled') <= faults'
    BY <1>2
  <2>1. Cardinality(Unfiled) <= faults /\ Unfiled' \subseteq Unfiled \cup {x}
    BY DEF SavedInv
  <2>2. /\ Cardinality(Unfiled') <= faults + 1
        /\ Unfiled' \subseteq Unfiled => Cardinality(Unfiled') <= faults
    BY <1>1, <2>1, PaidByFault
  <2> QED BY <2>2
<1> QED BY <1>2, <1>3 DEF SavedInv

\* Until the process is restarted, a saved effect whose outcome is not in the
\* registry file is due to a fault, one effect per fault, or is that of the
\* command being run: M.route records before it saves, and a handler that saves
\* on its own saves one effect ahead of the file.
THEOREM UnrecordedSavesArePaidFor == Spec => []UnrecordedSaveNeedsFault
<1>1. Init => SavedInv
  <2> SUFFICES ASSUME Init PROVE SavedInv
    OBVIOUS
  <2>1. mem = {} /\ snap = {} /\ faults = 0 /\ Unentered = {} /\ Unfiled = {}
    BY DEF Init, Unentered, Unfiled
  <2> QED BY <2>1, FS_EmptySet DEF SavedInv
<1>2. Inv /\ SavedInv /\ [Next]_vars => SavedInv'
  <2> SUFFICES ASSUME Inv, SavedInv, [Next]_vars, boots' = 0 PROVE SavedInv'
    BY DEF SavedInv
  <2> DEFINE run == <<cur, resp>>
  <2>0. /\ boots \in Nat /\ faults \in Nat /\ registry \in Store
        /\ mem \subseteq Commands \X Nat
    BY DEF Inv, TypeOK
  <2>1. ASSUME UNCHANGED <<registry, idemFile, mem, snap, pc, cur, resp, boots, faults>>
        PROVE  SavedInv'
    BY <2>1 DEF SavedInv, Unentered, Unfiled, Entered, InFile, Due
  <2>2. CASE \/ UNCHANGED vars
             \/ \E m \in nonces : NonceLapses(m)
             \/ \E m \in Messages : Replay(m) \/ RejectByRate(m)
    BY <2>1, <2>2 DEF vars, NonceLapses, Replay, RejectByRate, process, files
  <2>3. ASSUME boots = 0 PROVE IsFiniteSet(mem) /\ snap \subseteq mem
    BY <2>3 DEF SavedInv
  <2>4. ASSUME NEW m \in Messages, Accept(m) \/ HandlerThrows(m) PROVE SavedInv'
    <3> DEFINE x == <<CommandOf[m], runs[CommandOf[m]] + 1>>
    <3>1. /\ pc = "idle"
          /\ \/ pc' = "wal" /\ <<cur', resp'>> = x /\ faults' = faults
             \/ pc' = "idle" /\ faults' = faults + 1
          /\ mem' = mem \cup {x} \/ mem' = mem
          /\ snap' = snap \/ snap' = mem'
          /\ UNCHANGED <<registry, idemFile, boots>>
      BY <2>4 DEF Accept, HandlerThrows, Admit, Effect, HandlerMaySave, NoEffect, process
    <3> HIDE DEF x
    <3>2. boots = 0 /\ IsFiniteSet(mem') /\ snap' \subseteq mem'
      BY <2>3, <3>1, FS_AddElement
    <3>3. /\ Unentered' \subseteq Unentered \cup {x}
          /\ faults' = faults => Unentered' \subseteq Unentered
      BY <2>0, <3>1 DEF Unentered, Entered, Due
    <3>4. /\ Unfiled' \subseteq Unfiled \cup {x}
          /\ faults' = faults => Unfiled' \subseteq Unfiled
      BY <2>0, <3>1 DEF Unfiled, InFile, Due
    <3> QED BY <3>1, <3>2, <3>3, <3>4, SavedStep
  <2>5. CASE AppendWal
    <3>1. /\ pc = "wal" /\ pc' = "idem"
          /\ faults' = faults \/ faults' = faults + 1
          /\ UNCHANGED <<registry, idemFile, mem, snap, cur, resp, boots>>
      BY <2>5 DEF AppendWal
    <3>2. Due' = Due
      BY <3>1 DEF Due
    <3>3. Unentered' = Unentered
      BY <3>1, <3>2 DEF Unentered, Entered
    <3>4. Unfiled' = Unfiled
      BY <3>1, <3>2 DEF Unfiled, InFile
    <3> QED BY <2>3, <3>1, <3>3, <3>4, SavedStep
  <2>6. CASE WalFails
    <3>1. /\ pc = "wal" /\ pc' = "idle" /\ faults' = faults + 1
          /\ UNCHANGED <<registry, idemFile, mem, snap, boots>>
      BY <2>6 DEF WalFails, Finish, files
    <3>2. Unentered' \subseteq Unentered \cup {run}
      BY <3>1 DEF Unentered, Entered, Due
    <3>3. Unfiled' \subseteq Unfiled \cup {run}
      BY <3>1 DEF Unfiled, InFile, Due
    <3> HIDE DEF run
    <3> QED BY <2>0, <2>3, <3>1, <3>2, <3>3, SavedStep
  <2>7. CASE RecordScoped \/ RecordAlias \/ RecordScopedFails \/ RecordAliasFails
    <3>1. PICK key :
             /\ \/ pc = "idem" /\ key = cur
                \/ pc = "alias" /\ key = RequestIdOf[cur]
             /\ registry' = [registry EXCEPT ![key] = [by |-> cur, run |-> resp]]
             /\ \/ idemFile' = registry' /\ faults' = faults
                \/ idemFile' = Torn /\ faults' = faults + 1
                \/ idemFile' = idemFile /\ faults' = faults + 1
             /\ pc' \notin {"wal", "idem"}
             /\ UNCHANGED <<mem, snap, boots>>
      BY <2>7 DEF RecordScoped, RecordAlias, Record, RecordScopedFails, RecordAliasFails,
                  RecordFails, Finish, files
    <3>2. /\ registry' \in Store
          /\ cur \in Commands /\ registry'[cur] = [by |-> cur, run |-> resp]
          /\ \A c \in Commands : registry[c] # None => registry'[c] = registry[c]
          /\ \A c \in Commands \ {cur} : registry'[c] = registry[c]
      BY <3>1, EntryKeepsRegistry
    <3>3. registry' # None /\ Due' = {}
      BY <3>1, <3>2, StoreAssumption DEF Due
    <3>4. ASSUME NEW e \in mem, Entered(e) PROVE Entered(e)'
      <4>1. /\ e[1] \in Commands /\ e[2] \in Nat
            /\ registry[e[1]] = [by |-> e[1], run |-> e[2]]
        BY <2>0, <3>4 DEF Entered
      <4>2. [by |-> e[1], run |-> e[2]] \in [by : Commands, run : Nat]
        BY <4>1
      <4>3. registry[e[1]] # None
        BY <4>1, <4>2, KeyAssumption
      <4> QED BY <3>2, <4>1, <4>3 DEF Entered
    <3>5. ASSUME NEW e \in mem, e = run PROVE Entered(e)'
      BY <3>2, <3>5 DEF Entered
    <3>6. Unentered' \subseteq Unentered
      <4> SUFFICES ASSUME NEW e \in mem, ~Entered(e)' PROVE ~Entered(e) /\ e \notin Due
        BY <3>1 DEF Unentered
      <4>1. ~Entered(e)
        BY <3>4
      <4>2. e # run
        BY <3>5
      <4> HIDE DEF run
      <4>3. Due \subseteq {run}
        BY DEF Due, run
      <4> QED BY <4>1, <4>2, <4>3
    <3>7. CASE idemFile' = registry'
      <4>1. Unfiled' = Unentered'
        BY <3>3, <3>7 DEF Unfiled, Unentered, InFile, Entered
      <4> QED BY <2>0, <2>3, <3>1, <3>6, <4>1, SavedStep
    <3>8. CASE idemFile' = Torn /\ faults' = faults + 1
      BY <2>0, <2>3, <3>1, <3>6, <3>8, SavedStep
    <3>9. CASE idemFile' = idemFile /\ faults' = faults + 1
      <4>1. Unfiled' \subseteq Unfiled \cup {run}
        BY <3>1, <3>9 DEF Unfiled, InFile, Due
      <4> HIDE DEF run
      <4> QED BY <2>0, <2>3, <3>1, <3>6, <3>9, <4>1, SavedStep
    <3> QED BY <3>1, <3>7, <3>8, <3>9
  <2>8. CASE SaveState
    <3>1. /\ pc = "save" /\ pc' = "idle"
          /\ snap' = mem \/ snap' = snap
          /\ UNCHANGED <<registry, idemFile, mem, boots, faults>>
      BY <2>8 DEF SaveState, Finish
    <3>2. Due' = Due
      BY <3>1 DEF Due
    <3>3. Unentered' = Unentered
      BY <3>1, <3>2 DEF Unentered, Entered
    <3>4. Unfiled' = Unfiled
      BY <3>1, <3>2 DEF Unfiled, InFile
    <3> QED BY <2>3, <3>1, <3>3, <3>4, SavedStep
  <2>9. CASE Restart
    BY <2>0, <2>9 DEF Restart
  <2> QED BY <2>2, <2>4, <2>5, <2>6, <2>7, <2>8, <2>9 DEF Next
<1>3. Inv /\ SavedInv => UnrecordedSaveNeedsFault
  <2> SUFFICES ASSUME Inv, SavedInv, boots = 0, idemFile # Torn
               PROVE  Cardinality(Unrecorded) <=
                          faults + (IF pc \in {"wal", "idem"} THEN 1 ELSE 0)
    BY DEF UnrecordedSaveNeedsFault
  <2>1. /\ faults \in Nat /\ IsFiniteSet(Unfiled) /\ Cardinality(Unfiled) <= faults
        /\ snap \subseteq mem
    BY FS_Subset DEF Inv, TypeOK, SavedInv, Unfiled
  <2>2. Unrecorded \subseteq Unfiled \cup Due
    BY <2>1 DEF Unrecorded, Unfiled, InFile
  <2>3. CASE pc \in {"wal", "idem"}
    <3>1. Unrecorded \subseteq Unfiled \cup {<<cur, resp>>}
      BY <2>2, <2>3 DEF Due
    <3>2. Cardinality(Unrecorded) <= faults + 1
      BY <2>1, <3>1, PaidByFault
    <3> QED BY <2>3, <3>2
  <2>4. CASE pc \notin {"wal", "idem"}
    <3>1. Unrecorded \subseteq Unfiled
      BY <2>2, <2>4 DEF Due
    <3>2. Cardinality(Unrecorded) <= faults
      BY <2>1, <3>1, PaidByFault
    <3> QED BY <2>1, <2>4, <3>2
  <2> QED BY <2>3, <2>4
<1> QED BY <1>1, <1>2, <1>3, InvAlways, PTL DEF Spec

=============================================================================
