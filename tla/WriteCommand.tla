---------------------------- MODULE WriteCommand ----------------------------
(***************************************************************************)
(* The write command process (ao/write/process.lua, M.route), from the     *)
(* delivery of a signed command to the answer, with the files it writes on *)
(* the way.                                                                *)
(*                                                                         *)
(* The process is single threaded: it takes one message and runs it to the *)
(* end.  The steps below are separate because the process can die, or a    *)
(* write can fail, between any two of them:                                *)
(*                                                                         *)
(*   Accept            checks, registry lookup, nonce, rate limits, handler*)
(*   AppendWal         the WAL line                                        *)
(*   RecordScoped      the registry entry under the scoped key + its file  *)
(*   RecordAlias       the registry entry under the bare request id        *)
(*   SaveState         the write_state snapshot, and the answer            *)
(*                                                                         *)
(* A command stands for one scoped idempotency key (request id, tenant,    *)
(* action); several commands may carry the same request id.  A message is  *)
(* one submission of a command under a nonce of its own.  Any message may  *)
(* be delivered at any time and any number of times: gateways resend, and  *)
(* the transport duplicates, delays and reorders.  Envelope, signature,    *)
(* policy, role and payload checks precede the registry; what they reject  *)
(* changes no state and is not in the model, and neither are the two       *)
(* refusals that change nothing modelled here: a nonce the cache knows,    *)
(* and the rate limit that is checked before the nonce.                    *)
(*                                                                         *)
(* A write is buffered: what the code looks at is the result of f:write,   *)
(* never that of f:flush and f:close, so that on a full disk it may fail   *)
(* without anybody noticing.  Handlers may save the state table themselves *)
(* (enqueue_webhook_retry, RunWebhookRetries).                             *)
(*                                                                         *)
(* Configuration modelled: ops/env.prod.example (registry, WAL, outbox and *)
(* state directory on disk, nonce cache in memory only).                   *)
(***************************************************************************)
EXTENDS Naturals, FiniteSets

CONSTANTS Commands,    \* logical commands
          RequestIds,  \* request ids
          RequestIdOf, \* command -> the request id it carries
          Messages,    \* submissions, each under its own nonce
          CommandOf,   \* message -> the command it submits
          None,        \* no value
          Torn,        \* a registry file that does not parse
          MaxFaults    \* bound on the number of faults in a behaviour

ASSUME RequestIdAssumption == RequestIdOf \in [Commands -> RequestIds]
ASSUME MessageAssumption == CommandOf \in [Messages -> Commands]
\* That no request id is the scoped key of a command is a convention of the
\* gateways: a scoped key is built from segments with their lengths, and a
\* request id is any text.
ASSUME KeyAssumption == /\ Commands \cap RequestIds = {}
                        /\ "FAILED" \notin Commands
                        /\ None \notin Commands \cup Nat
                        /\ None \notin [by : Commands, run : Nat]
ASSUME FaultAssumption == MaxFaults \in Nat

VARIABLES pc,        \* where the process is in M.route
          cur,       \* the command it is running, or None
          resp,      \* the run whose response it holds
          registry,  \* idempotency store in memory: key -> outcome or None
          idemFile,  \* WRITE_IDEM_PATH: the store as last renamed into place
          idemSnap,  \* WRITE_STATE_DIR/idempotency.json
          nonces,    \* messages whose nonce the cache would refuse
          wal,       \* WAL lines, as <<command, run>>
          events,    \* events put in the outbox file, as <<command, run>>
          mem,       \* runs whose effect is in the state table
          snap,      \* the state table as saved in WRITE_STATE_DIR
          runs,      \* how often each command's handler ran (history)
          replies,   \* replies given once a handler had run (history)
          boots,     \* restarts so far
          faults     \* faults so far

process == <<pc, cur, resp>>
files   == <<idemFile, idemSnap, wal, events, snap>>
vars == <<pc, cur, resp, registry, idemFile, idemSnap, nonces, wal, events,
          mem, snap, runs, replies, boots, faults>>

Keys == Commands \cup RequestIds

\* A recorded response: which command's handler produced it, in which run.
\* The scope of an alias (_idem_scope) is the command that recorded it.
Outcome == [by : Commands, run : Nat \ {0}]
Store == [Keys -> Outcome \cup {None}]

ASSUME StoreAssumption == None \notin Store /\ Torn \notin Store \cup {None}

EmptyStore == [k \in Keys |-> None]

\* The answer to a run whose outcome is not reported: HANDLER_CRASH or
\* SERVER_ERROR.
Failed == "FAILED"

Reply(c, answer, run) ==
    [cmd |-> c, answer |-> answer, run |-> run, boot |-> boots]

TypeOK ==
    /\ pc \in {"idle", "wal", "idem", "alias", "save"}
    /\ cur \in Commands \cup {None}
    /\ (pc # "idle") => (cur \in Commands)
    /\ resp \in Nat
    /\ registry \in Store
    /\ idemFile \in Store \cup {None, Torn}
    /\ idemSnap \in Store \cup {None}
    /\ nonces \subseteq Messages
    /\ wal \subseteq Commands \X Nat
    /\ events \subseteq Commands \X Nat
    /\ mem \subseteq Commands \X Nat
    /\ snap \subseteq Commands \X Nat
    /\ runs \in [Commands -> Nat]
    /\ replies \subseteq [cmd : Commands,
                          answer : Commands \cup {Failed},
                          run : Nat, boot : Nat]
    /\ boots \in Nat
    /\ faults \in Nat

Init ==
    /\ pc = "idle" /\ cur = None /\ resp = 0
    /\ registry = EmptyStore /\ idemFile = None /\ idemSnap = None
    /\ nonces = {}
    /\ wal = {} /\ events = {} /\ mem = {} /\ snap = {}
    /\ runs = [c \in Commands |-> 0]
    /\ replies = {}
    /\ boots = 0 /\ faults = 0

-----------------------------------------------------------------------------
(* The nonce cache *)

\* The nonce of an old message leaves the cache: its TTL passed or the cache
\* was trimmed (NonceGuard models when).  It is looked up between commands.
NonceLapses(m) ==
    /\ pc = "idle"
    /\ nonces' = nonces \ {m}
    /\ UNCHANGED <<process, registry, files, mem, runs, replies, boots, faults>>

-----------------------------------------------------------------------------
(* M.route up to and including the handler *)

\* Mutant: the alias is served to whoever asks.
AcceptAliasUnscoped(stored, c) == stored

\* An alias is served only to the command that recorded it.
AcceptAlias(stored, c) ==
    IF stored # None /\ stored.by = c THEN stored ELSE None

\* Mutant: only the bare request id is looked up.
LookupAliasOnly(c) == AcceptAlias(registry[RequestIdOf[c]], c)

Lookup(c) ==
    IF registry[c] # None THEN registry[c]
                          ELSE AcceptAlias(registry[RequestIdOf[c]], c)

\* The registry holds an outcome: it is the reply, and nothing else happens.
Replay(m) ==
    LET c == CommandOf[m] IN
    /\ pc = "idle"
    /\ Lookup(c) # None
    /\ replies' = replies \cup {Reply(c, Lookup(c).by, Lookup(c).run)}
    /\ UNCHANGED <<process, registry, nonces, files, mem, runs, boots, faults>>

\* Mutant: a fresh nonce is enough, the registry is not asked.
AdmitByNonce(m) ==
    /\ pc = "idle"
    /\ m \notin nonces
    /\ nonces' = nonces \cup {m}

\* The command is new and its nonce fresh; require_nonce enters the nonce.
Admit(m) ==
    /\ pc = "idle"
    /\ Lookup(CommandOf[m]) = None
    /\ m \notin nonces
    /\ nonces' = nonces \cup {m}

\* check_rate_limit, which comes after the nonce, refuses: the message has
\* used up its nonce and the command has not run.
RejectByRate(m) ==
    /\ Admit(m)
    /\ UNCHANGED <<process, registry, files, mem, runs, replies, boots, faults>>

\* enqueue_webhook_retry and RunWebhookRetries save the state table from within
\* the handler, ahead of the log and of the registry.
HandlerMaySave == snap' \in {snap, mem'}

\* What a handler does when it succeeds: it changes the state table, and most
\* put an event in the outbox, whose file is rewritten at once.
Effect(c) ==
    /\ mem' = mem \cup {<<c, runs[c] + 1>>}
    /\ events' \in {events, events \cup {<<c, runs[c] + 1>>}}
    /\ HandlerMaySave

NoEffect == UNCHANGED <<mem, events, snap>>

\* The handler returns, with an OK response and an effect, or with an ERROR
\* response and none; either is a response the registry will hold.
Accept(m) ==
    LET c == CommandOf[m] IN
    /\ Admit(m)
    /\ Effect(c) \/ NoEffect
    /\ runs' = [runs EXCEPT ![c] = @ + 1]
    /\ pc' = "wal" /\ cur' = c /\ resp' = runs[c] + 1
    /\ UNCHANGED <<registry, idemFile, idemSnap, wal, replies, boots, faults>>

\* The handler throws, before or after it had its effect; pcall in
\* handle_write_message turns that into a HANDLER_CRASH reply.
HandlerThrows(m) ==
    LET c == CommandOf[m] IN
    /\ Admit(m) /\ faults < MaxFaults
    /\ Effect(c) \/ NoEffect
    /\ runs' = [runs EXCEPT ![c] = @ + 1]
    /\ replies' = replies \cup {Reply(c, Failed, runs[c] + 1)}
    /\ faults' = faults + 1
    /\ UNCHANGED <<process, registry, idemFile, idemSnap, wal, boots>>

-----------------------------------------------------------------------------
(* M.route after the handler *)

\* Mutant: the command is dropped but the step is not reset.
FinishMidway(answer) ==
    /\ replies' = replies \cup {Reply(cur, answer, resp)}
    /\ cur' = None /\ resp' = 0
    /\ UNCHANGED pc

\* The process answers and is ready for the next message.
Finish(answer) ==
    /\ replies' = replies \cup {Reply(cur, answer, resp)}
    /\ pc' = "idle" /\ cur' = None /\ resp' = 0

\* Mutant: the line is left out, and nothing had to fail for it.
AppendWalSkipped ==
    /\ pc = "wal"
    /\ pc' = "idem"
    /\ UNCHANGED <<cur, resp, registry, idemFile, idemSnap, nonces, wal, events,
                   mem, snap, runs, replies, boots, faults>>

\* The line is in the file, or f:write took it and the disk did not.
AppendWal ==
    /\ pc = "wal"
    /\ \/ wal' = wal \cup {<<cur, resp>>} /\ UNCHANGED faults
       \/ faults < MaxFaults /\ faults' = faults + 1 /\ UNCHANGED wal
    /\ pc' = "idem"
    /\ UNCHANGED <<cur, resp, registry, idemFile, idemSnap, nonces, events,
                   mem, snap, runs, replies, boots>>

\* The WAL cannot be written (SERVER_ERROR), or the command or the response
\* cannot be encoded (cjson throws: HANDLER_CRASH).
WalFails ==
    /\ pc = "wal" /\ faults < MaxFaults
    /\ Finish(Failed)
    /\ faults' = faults + 1
    /\ UNCHANGED <<registry, nonces, files, mem, runs, boots>>

\* Mutant: the store is written before the entry is in it.
RecordEarly(key) ==
    /\ registry' = [registry EXCEPT ![key] = [by |-> cur, run |-> resp]]
    /\ idemFile' = registry
    /\ idemSnap' = registry'
    /\ UNCHANGED faults

\* idem.record: the entry in memory, then the whole store to its file by
\* rename, then the snapshot in the state directory.  A disk that fills up
\* below f:write leaves a file that is cut off, and that is renamed too.
Record(key) ==
    /\ registry' = [registry EXCEPT ![key] = [by |-> cur, run |-> resp]]
    /\ idemSnap' = registry'
    /\ \/ idemFile' = registry' /\ UNCHANGED faults
       \/ faults < MaxFaults /\ faults' = faults + 1 /\ idemFile' = Torn

\* The entry stays in memory although the file could not be written.
RecordFails(key) ==
    /\ faults < MaxFaults
    /\ registry' = [registry EXCEPT ![key] = [by |-> cur, run |-> resp]]
    /\ Finish(Failed)
    /\ faults' = faults + 1
    /\ UNCHANGED <<files, nonces, mem, runs, boots>>

RecordScoped ==
    /\ pc = "idem"
    /\ Record(cur)
    /\ pc' = "alias"
    /\ UNCHANGED <<cur, resp, nonces, wal, events, mem, snap, runs, replies, boots>>

RecordScopedFails == pc = "idem" /\ RecordFails(cur)

RecordAlias ==
    /\ pc = "alias"
    /\ Record(RequestIdOf[cur])
    /\ pc' = "save"
    /\ UNCHANGED <<cur, resp, nonces, wal, events, mem, snap, runs, replies, boots>>

RecordAliasFails == pc = "alias" /\ RecordFails(RequestIdOf[cur])

\* persist.save writes the state table, or fails without a word; either way
\* the gateway gets the response.
SaveState ==
    /\ pc = "save"
    /\ snap' \in {mem, snap}
    /\ Finish(cur)
    /\ UNCHANGED <<registry, idemFile, idemSnap, nonces, wal, events, mem,
                   runs, boots, faults>>

-----------------------------------------------------------------------------
(* Restarts *)

\* Idem.load: a readable WRITE_IDEM_PATH is merged into the key-value store
\* and then looked for under the key "idempotency", where it is not; the
\* snapshot of the state directory is read only when the file is absent.
LoadRegistry ==
    IF idemFile # None THEN EmptyStore
    ELSE IF idemSnap # None THEN idemSnap
    ELSE EmptyStore

\* persist.save truncates the file before it writes it: death in SaveState
\* can leave the old table, the new one, or a file that does not parse, and
\* so can death in a handler that saves.
SnapshotsLeft ==
    CASE pc = "save" -> {snap, mem, {}}
      [] pc = "wal" -> {snap, {}}
      [] OTHER -> {snap}

\* The process dies where it is, or is restarted by an operator, and loads
\* what its files hold.  A registry file that does not parse makes the loader
\* throw, and the process does not come up.
Restart ==
    /\ faults < MaxFaults
    /\ idemFile # Torn
    /\ \E s \in SnapshotsLeft : snap' = s /\ mem' = s
    /\ registry' = LoadRegistry
    /\ nonces' = {}
    /\ pc' = "idle" /\ cur' = None /\ resp' = 0
    /\ boots' = boots + 1 /\ faults' = faults + 1
    /\ UNCHANGED <<idemFile, idemSnap, wal, events, runs, replies>>

-----------------------------------------------------------------------------

Next ==
    \/ \E m \in nonces : NonceLapses(m)
    \/ \E m \in Messages :
          Replay(m) \/ RejectByRate(m) \/ Accept(m) \/ HandlerThrows(m)
    \/ AppendWal \/ WalFails
    \/ RecordScoped \/ RecordScopedFails
    \/ RecordAlias \/ RecordAliasFails
    \/ SaveState
    \/ Restart

Spec == Init /\ [][Next]_vars

-----------------------------------------------------------------------------
(* Properties *)

Outcomes(c) == {r \in replies : r.cmd = c /\ r.answer \in Commands}

\* A command's handler runs again only because of a fault: every run beyond
\* the first is paid for by a restart, a write that failed or a handler that
\* threw.  Resent, duplicated and reordered messages and lapsed nonces never
\* run it again.
RerunNeedsFault == \A c \in Commands : runs[c] <= 1 + faults

\* A gateway is never given the outcome of another command that happens to
\* carry the same request id (the alias scope check of M.route).
ReplyIsOwnOutcome == \A r \in replies : r.answer \in Commands => r.answer = r.cmd

\* Between two restarts a command has one outcome: however often it is
\* submitted, every reply that reports an outcome reports the same run.
OneAnswerPerBoot ==
    \A c \in Commands : \A r1, r2 \in Outcomes(c) :
        r1.boot = r2.boot => r1.run = r2.run

Answered == {<<r.cmd, r.run>> : r \in {x \in replies : x.answer \in Commands}}

\* An outcome reported to a gateway is on record in the write-ahead log, but
\* for one per fault: a line whose loss the process did not notice.
UnloggedAnswerNeedsFault == Cardinality(Answered \ wal) <= faults

\* An event in the outbox that the log knows nothing of is there because of a
\* fault, one event per fault, or belongs to the command being run.
UnloggedEventNeedsFault ==
    Cardinality(events \ wal) <= faults + (IF pc = "wal" THEN 1 ELSE 0)

\* The files are written in an order that keeps them explainable: until the
\* process is restarted, an effect in the saved state table whose outcome is
\* not in the registry file is there because of a fault, one effect per fault,
\* or belongs to the command being run, whose handler saved it.
Unrecorded == {e \in snap : idemFile = None \/ idemFile[e[1]] # [by |-> e[1], run |-> e[2]]}

UnrecordedSaveNeedsFault ==
    (boots = 0 /\ idemFile # Torn) =>
        Cardinality(Unrecorded) <= faults + (IF pc \in {"wal", "idem"} THEN 1 ELSE 0)

\* What the process promises: it implements the ledger of CommandLedger, in
\* which a command is entered when its handler returns.
LedgerOutcome ==
    [c \in Commands |-> IF cur = c /\ pc \in {"wal", "idem"} THEN resp
                        ELSE IF registry[c] # None THEN registry[c].run
                        ELSE None]

Ledger == INSTANCE CommandLedger WITH outcome <- LedgerOutcome,
                                      answered <- Answered

LedgerSpec == Ledger!Spec

-----------------------------------------------------------------------------
(* A statement of the documentation the code does not keep *)

\* README.md: WRITE_IDEM_PATH persists idempotent responses across restarts,
\* so an outcome in that file is the one a resent command gets.
DurableOutcomeIsServed ==
    (pc = "idle" /\ idemFile \notin {None, Torn}) =>
        \A c \in Commands : idemFile[c] # None => registry[c] = idemFile[c]

=============================================================================
