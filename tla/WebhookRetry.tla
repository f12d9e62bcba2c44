---------------------------- MODULE WebhookRetry ----------------------------
(***************************************************************************)
(* The intake of PSP webhooks (ao/write/process.lua): ProviderWebhook and  *)
(* handle_psp_webhook, the replay cache, the circuit breaker of the        *)
(* provider, the retry queue and the dead-letter queue, and                *)
(* RunWebhookRetries, which an operator or a timer calls.                  *)
(*                                                                         *)
(* A hook is one event of one provider (one replay key).  The provider may *)
(* deliver it more than once, each delivery being a command with its own   *)
(* timestamp; its payment may become known only later; its verification    *)
(* may find it good, bad, or the provider out of reach.  What applying it  *)
(* does to the payment is not modelled here, only that it was applied.     *)
(*                                                                         *)
(* The replay cache is shared with the events of other providers and of    *)
(* ProviderShippingWebhook; of these only their entries matter here.       *)
(*                                                                         *)
(* Time is relative: a job counts down to its nextAttempt, and timestamps  *)
(* are ages, below 0 when the gateway's clock is ahead and cut off at      *)
(* SeenTTL, past which the code does not tell them apart.  A fresh command *)
(* is at most Drift off (auth.lua refuses it otherwise).                   *)
(***************************************************************************)
EXTENDS Integers, Sequences, SequencesExt, FiniteSets, FiniteSetsExt

CONSTANTS Hooks,         \* events of one provider
          Others,        \* events of other providers, and of shipments
          RetryMax,      \* WRITE_WEBHOOK_RETRY_MAX
          RetryBase,     \* WRITE_WEBHOOK_RETRY_BASE_SECONDS
          MaxQueue,      \* WRITE_WEBHOOK_RETRY_MAX_QUEUE
          SeenTTL,       \* WRITE_WEBHOOK_SEEN_TTL = WRITE_WEBHOOK_REPLAY_WINDOW
          SeenMax,       \* WRITE_WEBHOOK_SEEN_MAX
          Drift,         \* WRITE_MAX_CLOCK_SKEW
          Threshold,     \* WRITE_PSP_BREAKER_THRESHOLD
          Cooldown,      \* WRITE_PSP_BREAKER_COOLDOWN
          None,          \* no value
          MaxDeliveries, \* bound on the number of deliveries
          MaxCrashes     \* bound on the number of crashes

ASSUME RetryAssumption ==
    /\ {RetryMax, RetryBase, MaxQueue, SeenTTL, SeenMax, Threshold, Cooldown} \subseteq Nat \ {0}
    /\ Drift \in 0..SeenTTL
    /\ MaxDeliveries \in Nat /\ MaxCrashes \in Nat
    /\ None \notin Int
    /\ Hooks \cap Others = {}

VARIABLES epoch,      \* does the gateway send timestamps as epoch seconds?
          st,         \* the state table
          snap,       \* the state table as saved in WRITE_STATE_DIR
          running,    \* is RunWebhookRetries running?
          batch,      \* the jobs it has not looked at yet
          exposed,    \* hooks of jobs that snap may not hold (history)
          deliveries, \* hook -> how often it was delivered (history)
          scheduled,  \* hooks answered RETRY_SCHEDULED (history)
          crashes,    \* crashes so far
          lost        \* hooks of jobs that a crash lost (history)

vars == <<epoch, st, snap, running, batch, exposed, deliveries, scheduled, crashes, lost>>

Backoff(attempt) == RetryBase * 2 ^ (attempt - 1)

Age == -Drift..SeenTTL

Keys == Hooks \cup Others

Job == [hook : Hooks, attempts : 1..RetryMax,
        wait : 0..Backoff(RetryMax), age : Age]

State == [queue : Seq(Job),                       \* webhook_retry
          dlq : [Hooks -> Nat],                   \* entries of dlq
          seen : [Keys -> Age \cup {None}],       \* webhook_seen: age of ts
          tracked : SUBSET Hooks,                 \* hooks whose payment exists
          fails : 0..Threshold,                   \* psp_breakers: count
          open : 0..Cooldown,                     \* psp_breakers: time left
          since : [Hooks -> 0..SeenTTL \cup {None}],
            \* time since the hook was applied (history)
          bare : SUBSET Hooks,
            \* hooks last applied by a retry whose command was older than
            \* Drift, or whose entry the cache dropped for want of space
            \* (history)
          again : SUBSET (Hooks \X (0..SeenTTL))]
            \* hooks, not bare, applied again within SeenTTL, and the time
            \* since they had been applied (history)

TypeOK ==
    /\ epoch \in BOOLEAN
    /\ st \in State
    /\ snap \in State
    /\ running \in BOOLEAN
    /\ batch \in Seq(Job)
    /\ exposed \subseteq Hooks /\ scheduled \subseteq Hooks
    /\ deliveries \in [Hooks -> Nat]
    /\ crashes \in 0..MaxCrashes
    /\ lost \subseteq Hooks

Fresh == [queue |-> <<>>, dlq |-> [h \in Hooks |-> 0],
          seen |-> [k \in Keys |-> None], tracked |-> {},
          fails |-> 0, open |-> 0,
          since |-> [h \in Hooks |-> None], bare |-> {}, again |-> {}]

Init ==
    /\ epoch \in BOOLEAN
    /\ st = Fresh /\ snap = Fresh
    /\ running = FALSE /\ batch = <<>> /\ exposed = {}
    /\ deliveries = [h \in Hooks |-> 0]
    /\ scheduled = {} /\ crashes = 0 /\ lost = {}

-----------------------------------------------------------------------------
(* Time *)

Older(age) == IF age = None THEN None ELSE Min({age + 1, SeenTTL})

Sooner(n) == IF n = 0 THEN 0 ELSE n - 1

\* An entry of the replay cache goes when its age reaches SeenTTL (the code
\* removes it when it next looks at the cache).
Aged(s) ==
    [s EXCEPT
        !.queue = [i \in DOMAIN s.queue |->
                      [s.queue[i] EXCEPT !.wait = Sooner(@), !.age = Older(@)]],
        !.seen = [k \in Keys |-> IF Older(s.seen[k]) = SeenTTL THEN None
                                 ELSE Older(s.seen[k])],
        !.open = Sooner(@),
        !.since = [h \in Hooks |-> Older(s.since[h])]]

Tick ==
    /\ ~running
    /\ st' = Aged(st)
    /\ snap' = Aged(snap)
    /\ UNCHANGED <<running, batch, exposed, deliveries, scheduled, epoch, crashes, lost>>

-----------------------------------------------------------------------------
(* The handler *)

\* Mutant: the attempts are not counted.
EnqueueForever(s, h, age, attempt) ==
    IF Len(s.queue) >= MaxQueue
      THEN [s EXCEPT !.dlq[h] = @ + 1]
      ELSE [s EXCEPT !.queue = Append(@, [hook |-> h, attempts |-> 1,
                                          wait |-> Backoff(1), age |-> age])]

\* Mutant: one attempt too many.
EnqueueOnceMore(s, h, age, attempt) ==
    IF attempt > RetryMax + 1 \/ Len(s.queue) >= MaxQueue
      THEN [s EXCEPT !.dlq[h] = @ + 1]
      ELSE [s EXCEPT !.queue = Append(@, [hook |-> h, attempts |-> attempt,
                                          wait |-> Backoff(attempt),
                                          age |-> age])]

\* enqueue_webhook_retry
Enqueue(s, h, age, attempt) ==
    IF attempt > RetryMax \/ Len(s.queue) >= MaxQueue
      THEN [s EXCEPT !.dlq[h] = @ + 1]
      ELSE [s EXCEPT !.queue = Append(@, [hook |-> h, attempts |-> attempt,
                                          wait |-> Backoff(attempt),
                                          age |-> age])]

\* breaker_note.  The count stays at Threshold once it is there: at or above
\* it, each failure opens the breaker again.
Note(s, success) ==
    IF success
      THEN [s EXCEPT !.fails = 0, !.open = 0]
      ELSE LET count == Min({s.fails + 1, Threshold}) IN
           [s EXCEPT !.fails = count,
                     !.open = IF count = Threshold THEN Cooldown ELSE @]

-----------------------------------------------------------------------------
(* The replay cache *)

\* The age an entry gets: that of the command's timestamp, or none when
\* tonumber cannot read it (ISO 8601).
SeenAge(age) == IF epoch THEN age ELSE 0

\* webhook_seen_recent: an entry dated in the future counts as of now, the
\* command does not.  Window and TTL are the same, as they are by default.
Recent(s, k, age) ==
    /\ s.seen[k] # None
    /\ Max({s.seen[k], 0}) - SeenAge(age) <= SeenTTL

\* mark_webhook_seen; an entry that is too old is pruned at once.
Marked(s, k, age) ==
    [s.seen EXCEPT ![k] = IF SeenAge(age) < SeenTTL THEN SeenAge(age) ELSE None]

Entries(seen) == {k \in Keys : seen[k] # None}

\* What trim_webhook_seen may drop when the cache holds more than SeenMax
\* entries: the oldest, of entries of one age any.
Trims(seen) ==
    {gone \in SUBSET Entries(seen) :
        /\ Cardinality(gone) = Max({Cardinality(Entries(seen)) - SeenMax, 0})
        /\ \A k \in gone, l \in Entries(seen) \ gone :
              Max({seen[k], 0}) >= Max({seen[l], 0})}

Without(seen, gone) == [k \in Keys |-> IF k \in gone THEN None ELSE seen[k]]

-----------------------------------------------------------------------------
(* The handler, continued *)

\* The history of an application of h.
Noted(s, h, age, gone) ==
    [s EXCEPT !.since[h] = 0,
              !.bare = (@ \ {x \in {h} : SeenAge(age) <= Drift})
                       \cup {x \in {h} : SeenAge(age) > Drift}
                       \cup (gone \cap Hooks),
              !.again = IF s.since[h] \in {None, SeenTTL} \/ h \in s.bare THEN @
                        ELSE @ \cup {<<h, s.since[h]>>}]

\* Mutant: the hook is applied but not marked as seen.
ApplyUnmarked(s, h, age, gone) == Noted(s, h, age, {})

\* The payment is updated and the hook marked as seen; the cache drops gone.
Apply(s, h, age, gone) ==
    [Noted(s, h, age, gone) EXCEPT !.seen = Without(Marked(s, h, age), gone)]

\* What handle_psp_webhook can come to: the breaker, the replay cache, the
\* verification, in this order.
Answers(s, h, age) ==
    IF s.open > 0 THEN {"OPEN"}
    ELSE IF Recent(s, h, age) THEN {"REPLAY"}
    ELSE {"UNAUTHORIZED", "UNAVAILABLE", "VERIFIED"}

\* The state after ProviderWebhook on a command that has been tried `tried`
\* times before; schedule_retry puts it in the queue.
Handled(s, h, age, tried, answer, gone) ==
    CASE answer \in {"REPLAY", "UNAUTHORIZED"} -> s
      [] answer = "OPEN" -> Enqueue(s, h, age, tried + 1)
      [] answer = "UNAVAILABLE" -> Enqueue(Note(s, FALSE), h, age, tried + 1)
      [] answer = "VERIFIED" ->
            IF h \in s.tracked THEN Apply(Note(s, TRUE), h, age, gone)
                               ELSE Enqueue(Note(s, TRUE), h, age, tried + 1)

Succeeds(s, h, answer) == answer = "VERIFIED" /\ h \in s.tracked

-----------------------------------------------------------------------------
(* Commands *)

\* The ages of the timestamp of a command that auth.lua lets in.
Offsets == IF epoch THEN -Drift..Drift ELSE {0}

\* Mutant: the state table is not saved after a command that failed.
DeliverUnsaved(h) ==
    /\ ~running
    /\ FoldFunction(+, 0, deliveries) < MaxDeliveries
    /\ deliveries' = [deliveries EXCEPT ![h] = @ + 1]
    /\ \E age \in Offsets :
       \E answer \in Answers(st, h, age), gone \in Trims(Marked(st, h, age)) :
          st' = Handled(st, h, age, 0, answer, gone)
    /\ scheduled' = IF st'.queue = st.queue /\ st'.dlq = st.dlq
                      THEN scheduled ELSE scheduled \cup {h}
    /\ UNCHANGED <<snap, running, batch, exposed, epoch, crashes, lost>>

\* A ProviderWebhook command; M.route saves the state table after it.
Deliver(h) ==
    /\ ~running
    /\ FoldFunction(+, 0, deliveries) < MaxDeliveries
    /\ deliveries' = [deliveries EXCEPT ![h] = @ + 1]
    /\ \E age \in Offsets :
       \E answer \in Answers(st, h, age), gone \in Trims(Marked(st, h, age)) :
          st' = Handled(st, h, age, 0, answer, gone)
    /\ snap' = st'
    /\ scheduled' = IF st'.queue = st.queue /\ st'.dlq = st.dlq
                      THEN scheduled ELSE scheduled \cup {h}
    /\ UNCHANGED <<running, batch, exposed, epoch, crashes, lost>>

\* A hook of another provider, or of a shipment, is applied and marked.
OtherHook(o) ==
    /\ ~running
    /\ \E age \in Offsets :
       /\ ~Recent(st, o, age)
       /\ \E gone \in Trims(Marked(st, o, age)) :
             st' = [st EXCEPT !.seen = Without(Marked(st, o, age), gone),
                              !.bare = @ \cup (gone \cap Hooks)]
    /\ snap' = st'
    /\ UNCHANGED <<running, batch, exposed, deliveries, scheduled, epoch, crashes, lost>>

\* CreatePaymentIntent (or an import) makes the payment of h known.
Track(h) ==
    /\ ~running
    /\ h \notin st.tracked
    /\ st' = [st EXCEPT !.tracked = @ \cup {h}]
    /\ snap' = st'
    /\ UNCHANGED <<running, batch, exposed, deliveries, scheduled, epoch, crashes, lost>>

\* RunWebhookRetries takes the whole queue.
RunStart ==
    /\ ~running
    /\ st.queue # <<>>
    /\ running' = TRUE
    /\ batch' = st.queue
    /\ st' = [st EXCEPT !.queue = <<>>]
    /\ UNCHANGED <<snap, exposed, deliveries, scheduled, epoch, crashes, lost>>

\* A job that is not due goes back, whatever the size of the queue.
PutBack ==
    /\ batch # <<>> /\ Head(batch).wait > 0
    /\ st' = [st EXCEPT !.queue = Append(@, Head(batch))]
    /\ batch' = Tail(batch)
    /\ UNCHANGED <<snap, running, exposed, deliveries, scheduled, epoch, crashes, lost>>

HooksIn(jobs) == {job.hook : job \in ToSet(jobs)}

\* A due job is handled.  When that does not succeed RunWebhookRetries puts
\* the command in the queue, whether or not schedule_retry has done so
\* already.  Whatever enters the queue is saved at once, without the jobs
\* that are still in the batch.
Retry ==
    /\ batch # <<>> /\ Head(batch).wait = 0
    /\ LET job == Head(batch) IN
       \E answer \in Answers(st, job.hook, job.age),
          gone \in Trims(Marked(st, job.hook, job.age)) :
          LET after == Handled(st, job.hook, job.age, job.attempts, answer, gone)
          IN  /\ st' = IF Succeeds(st, job.hook, answer) THEN after
                       ELSE Enqueue(after, job.hook, job.age, job.attempts + 1)
              /\ snap' = CASE Len(st'.queue) > Len(after.queue) -> st'
                           [] Len(st'.queue) = Len(after.queue)
                              /\ Len(after.queue) > Len(st.queue) -> after
                           [] OTHER -> snap
    /\ batch' = Tail(batch)
    /\ exposed' = IF Len(st'.queue) > Len(st.queue) THEN HooksIn(Tail(batch))
                  ELSE exposed
    /\ UNCHANGED <<running, deliveries, scheduled, epoch, crashes, lost>>

RunEnd ==
    /\ running /\ batch = <<>>
    /\ running' = FALSE /\ exposed' = {}
    /\ snap' = st
    /\ UNCHANGED <<st, batch, deliveries, scheduled, epoch, crashes, lost>>

\* The process dies, in a run or between commands, and loads its snapshot.
CrashSaved ==
    /\ crashes < MaxCrashes
    /\ crashes' = crashes + 1
    /\ st' = snap
    /\ lost' = lost \cup exposed
    /\ running' = FALSE /\ batch' = <<>> /\ exposed' = {}
    /\ UNCHANGED <<snap, epoch, deliveries, scheduled>>

\* The process dies while persist.save writes the snapshot: the file it has
\* truncated holds no state, and the process starts from an empty one.
CrashTorn ==
    /\ crashes < MaxCrashes
    /\ crashes' = crashes + 1
    /\ st' = Fresh /\ snap' = Fresh
    /\ lost' = Hooks
    /\ running' = FALSE /\ batch' = <<>> /\ exposed' = {}
    /\ UNCHANGED <<epoch, deliveries, scheduled>>

Next ==
    \/ Tick
    \/ \E h \in Hooks : Deliver(h) \/ Track(h)
    \/ \E o \in Others : OtherHook(o)
    \/ RunStart \/ PutBack \/ Retry \/ RunEnd
    \/ CrashSaved \/ CrashTorn

\* The clock runs, also when runs follow each other without a pause, and
\* RunWebhookRetries is called again and again (docs/runbooks/retry.md).
Fairness == /\ SF_vars(Tick)
            /\ WF_vars(RunStart) /\ WF_vars(PutBack) /\ WF_vars(Retry)
            /\ WF_vars(RunEnd)

Spec == Init /\ [][Next]_vars /\ Fairness

-----------------------------------------------------------------------------
(* Properties *)

Jobs == st.queue \o batch

\* A hook the provider was told will be retried is in the queue, in the
\* dead-letter queue or applied.  Only a crash loses it, and only if the crash
\* tears the snapshot, or comes in a run after a failed retry has saved the
\* state table without the jobs the run still had to look at.
NothingLost ==
    \A h \in scheduled \ lost :
        \/ \E job \in ToSet(Jobs) : job.hook = h
        \/ st.dlq[h] > 0
        \/ st.since[h] # None

\* Once applied by a command no older than Drift, a hook whose entry is not
\* dropped for want of space is applied again only if the timestamps are epoch
\* seconds, and then not before SeenTTL - 2 * Drift has passed: the entry may
\* be dated by Drift too old, and the second command by Drift too new.
DedupedIfPrompt ==
    \A e \in st.again : epoch /\ e[2] > SeenTTL - 2 * Drift

\* The entries of the dead-letter queue that may still come of the jobs of h:
\* a job may leave two jobs behind, each with one more attempt.
Heirs(jobs, h) ==
    {e \in (DOMAIN jobs) \X (1..2 ^ RetryMax) :
        LET job == jobs[e[1]] IN
        job.hook = h /\ e[2] <= 2 ^ (RetryMax + 1 - job.attempts)}

\* The cost of a delivery is bounded: no more than 2^RetryMax entries of the
\* dead-letter queue can come of it.
AmplificationBounded ==
    \A h \in Hooks :
        Cardinality(Heirs(Jobs, h)) + st.dlq[h] <= deliveries[h] * 2 ^ RetryMax

\* docs/runbooks/retry.md: running the retries again and again empties the
\* queue.
QueueDrains == <>[](st.queue = <<>> /\ batch = <<>>)

==================================================
