------------------------- MODULE WebhookRetry_proofs -------------------------
(***************************************************************************)
(* Proofs about WebhookRetry: its state has its type, no scheduled hook is *)
(* lost, a hook applied promptly is not applied again, and the cost of a   *)
(* delivery is bounded.                                                    *)
(*                                                                         *)
(* The invariants speak of a state table, st or snap, that is a parameter  *)
(* of their lemmas: a crash turns the saved table into the current one, so *)
(* whatever must hold of st must hold of snap too.                         *)
(***************************************************************************)
EXTENDS WebhookRetry, SequenceTheorems, FiniteSetTheorems, TLAPS

-----------------------------------------------------------------------------
(* Powers of two, counted as sets of subsets. *)

\* 2^n is the number of subsets of 1..n.
LEMMA PowerIsCount ==
    ASSUME NEW n \in Nat
    PROVE  /\ IsFiniteSet(SUBSET (1..n))
           /\ Cardinality(SUBSET (1..n)) = 2 ^ n
           /\ 2 ^ n \in Nat
<1>1. IsFiniteSet(1..n) /\ Cardinality(1..n) = n
  BY FS_Interval
<1>2. IsFiniteSet(SUBSET (1..n)) /\ Cardinality(SUBSET (1..n)) = 2 ^ Cardinality(1..n)
  BY <1>1, FS_SUBSET
<1>3. 2 ^ Cardinality(1..n) = 2 ^ n
  BY <1>1, Zenon
<1>4. Cardinality(SUBSET (1..n)) = 2 ^ n
  BY <1>2, <1>3, Zenon
<1>5. Cardinality(SUBSET (1..n)) \in Nat
  BY <1>2, FS_CardinalityType
<1> QED  BY <1>2, <1>4, <1>5, Zenon

LEMMA PowerMonotonic ==
    ASSUME NEW m \in Nat, NEW n \in Nat, m <= n
    PROVE  2 ^ m <= 2 ^ n
<1>1. SUBSET (1..m) \subseteq SUBSET (1..n)
  BY SMT
<1>2. Cardinality(SUBSET (1..m)) <= Cardinality(SUBSET (1..n))
  BY <1>1, PowerIsCount, FS_Subset
<1>3. Cardinality(SUBSET (1..m)) = 2 ^ m /\ Cardinality(SUBSET (1..n)) = 2 ^ n
  BY PowerIsCount
<1> QED  BY <1>2, <1>3, Zenon

LEMMA PowerOfZero == 2 ^ 0 = 1
<1>1. SUBSET (1..0) = {{}}
  BY SMT
<1>2. Cardinality({{}}) = 1
  BY FS_Singleton
<1>3. Cardinality(SUBSET (1..0)) = 2 ^ 0
  BY PowerIsCount
<1> QED  BY <1>1, <1>2, <1>3, Zenon

\* The subsets of 1..(n+1) are those of 1..n, with and without n+1.
LEMMA PowerDoubles ==
    ASSUME NEW n \in Nat
    PROVE  2 ^ (n + 1) = 2 ^ n + 2 ^ n
<1> DEFINE Low == SUBSET (1..n)
           High == {S \cup {n + 1} : S \in Low}
           F == [S \in Low |-> S \cup {n + 1}]
<1>1. IsFiniteSet(Low) /\ Cardinality(Low) = 2 ^ n /\ 2 ^ n \in Nat
  BY PowerIsCount
<1>2. F \in Bijection(Low, High)
  <2>1. F \in Surjection(Low, High)
    BY DEF Surjection
  <2>2. \A S, T \in Low : F[S] = F[T] => S = T
    <3> SUFFICES ASSUME NEW S \in Low, NEW T \in Low, S \cup {n + 1} = T \cup {n + 1}
                 PROVE  S = T
      OBVIOUS
    <3>1. n + 1 \notin S /\ n + 1 \notin T
      BY SMT
    <3> QED  BY <3>1
  <2> QED  BY <2>1, <2>2 DEF Bijection, Injection, Surjection, IsInjective
<1>3. IsFiniteSet(High) /\ Cardinality(High) = 2 ^ n
  BY <1>1, <1>2, FS_Bijection, Zenon DEF ExistsBijection
<1>4. SUBSET (1..(n + 1)) = Low \cup High
  <2>1. Low \cup High \subseteq SUBSET (1..(n + 1))
    <3>1. ASSUME NEW S \in Low
          PROVE  S \subseteq 1..(n + 1) /\ S \cup {n + 1} \subseteq 1..(n + 1)
      BY SMT
    <3> QED  BY <3>1
  <2>2. ASSUME NEW S \in SUBSET (1..(n + 1)), S \notin Low
        PROVE  S \in High
    <3>1. n + 1 \in S
      BY <2>2
    <3>2. S \ {n + 1} \in Low
      BY <2>2
    <3>3. S = (S \ {n + 1}) \cup {n + 1}
      BY <3>1
    <3> QED  BY <3>2, <3>3, Zenon
  <2> QED  BY <2>1, <2>2, Zenon
<1>5. Low \cap High = {}
  BY SMT
<1>6. Cardinality(Low \cup High) = 2 ^ n + 2 ^ n
  <2>1. Cardinality(Low \cup High) = Cardinality(Low) + Cardinality(High) - Cardinality({})
    <3> HIDE DEF Low, High
    <3> QED  BY <1>1, <1>3, <1>5, FS_Union
  <2> HIDE DEF Low, High
  <2> DEFINE p == 2 ^ n
  <2>2. p \in Nat /\ Cardinality(Low) = p /\ Cardinality(High) = p
    BY <1>1, <1>3, Zenon
  <2> HIDE DEF p
  <2>3. Cardinality(Low \cup High) = p + p
    BY <2>1, <2>2, FS_EmptySet
  <2> QED  BY <2>3, Zenon DEF p
<1>7. Cardinality(SUBSET (1..(n + 1))) = 2 ^ (n + 1)
  <2>1. n + 1 \in Nat
    OBVIOUS
  <2> QED  BY <2>1, PowerIsCount
<1> QED  BY <1>4, <1>6, <1>7, Zenon

-----------------------------------------------------------------------------
(* The operators of the handler keep the state table in its type. *)

LEMMA Minimum ==
    ASSUME NEW a \in Int, NEW b \in Int
    PROVE  Min({a, b}) = IF a <= b THEN a ELSE b
BY DEF Min

LEMMA Maximum ==
    ASSUME NEW a \in Int, NEW b \in Int
    PROVE  Max({a, b}) = IF a >= b THEN a ELSE b
BY DEF Max

LEMMA AgeIsInt ==
    ASSUME NEW a \in Age
    PROVE  a \in Int /\ a # None /\ -Drift <= a /\ a <= SeenTTL
BY RetryAssumption DEF Age

LEMMA OlderAge ==
    ASSUME NEW a \in Age \cup {None}
    PROVE  /\ Older(a) \in Age \cup {None}
           /\ Older(a) = None <=> a = None
           /\ a # None => Older(a) = IF a < SeenTTL THEN a + 1 ELSE SeenTTL
           /\ a \in 0..SeenTTL => Older(a) \in 0..SeenTTL
<1>1. CASE a = None
  <2>1. a \notin 0..SeenTTL
    BY <1>1, RetryAssumption
  <2> QED  BY <1>1, <2>1 DEF Older
<1>2. CASE a # None
  <2>1. /\ a \in Int /\ a + 1 \in Int /\ SeenTTL \in Nat /\ None \notin Int
        /\ -Drift <= a /\ a <= SeenTTL /\ Drift \in Nat
    BY <1>2, AgeIsInt, RetryAssumption
  <2>2. Min({a + 1, SeenTTL}) = IF a + 1 <= SeenTTL THEN a + 1 ELSE SeenTTL
    BY <2>1, Minimum
  <2>3. Older(a) = IF a < SeenTTL THEN a + 1 ELSE SeenTTL
    BY <1>2, <2>1, <2>2 DEF Older
  <2>4. Older(a) \in Age /\ Older(a) # None
    BY <2>1, <2>3 DEF Age
  <2> QED  BY <1>2, <2>1, <2>3, <2>4
<1> QED  BY <1>1, <1>2

\* The waits stay within that of the last attempt.
LEMMA BackoffBound ==
    ASSUME NEW n \in 1..RetryMax
    PROVE  Backoff(n) \in 0..Backoff(RetryMax)
<1>1. n - 1 \in Nat /\ RetryMax - 1 \in Nat /\ n - 1 <= RetryMax - 1 /\ RetryBase \in Nat
  BY RetryAssumption
<1>2. 2 ^ (n - 1) <= 2 ^ (RetryMax - 1)
  BY <1>1, PowerMonotonic
<1>3. 2 ^ (n - 1) \in Nat /\ 2 ^ (RetryMax - 1) \in Nat
  BY <1>1, PowerIsCount
<1> DEFINE p == 2 ^ (n - 1)
           q == 2 ^ (RetryMax - 1)
<1>4. RetryBase * p \in 0..(RetryBase * q)
  <2>1. p \in Nat /\ q \in Nat /\ p <= q /\ RetryBase \in Nat
    BY <1>1, <1>2, <1>3
  <2> HIDE DEF p, q
  <2> QED  BY <2>1
<1> QED  BY <1>4 DEF Backoff

\* What enqueue_webhook_retry puts in the queue.
Entry(h, age, attempt) ==
    [hook |-> h, attempts |-> attempt, wait |-> Backoff(attempt), age |-> age]

LEMMA EntryType ==
    ASSUME NEW h \in Hooks, NEW age \in Age, NEW attempt \in 1..RetryMax
    PROVE  Entry(h, age, attempt) \in Job
<1>1. Backoff(attempt) \in 0..Backoff(RetryMax)
  BY BackoffBound
<1> QED  BY <1>1 DEF Entry, Job, Age

\* Enqueue adds one entry, to the queue or to the dead-letter queue.
LEMMA EnqueueEffect ==
    ASSUME NEW s \in State, NEW h \in Hooks, NEW age \in Age,
           NEW attempt \in 1..(RetryMax + 1)
    PROVE  LET t == Enqueue(s, h, age, attempt) IN
           /\ t \in State
           /\ t.seen = s.seen /\ t.tracked = s.tracked
           /\ t.since = s.since /\ t.bare = s.bare /\ t.again = s.again
           /\ \/ t.queue = s.queue /\ t.dlq = [s.dlq EXCEPT ![h] = @ + 1]
              \/ /\ attempt <= RetryMax
                 /\ t.queue = Append(s.queue, Entry(h, age, attempt))
                 /\ t.dlq = s.dlq
<1> DEFINE t == Enqueue(s, h, age, attempt)
<1>1. CASE attempt > RetryMax \/ Len(s.queue) >= MaxQueue
  <2>1. t = [s EXCEPT !.dlq = [s.dlq EXCEPT ![h] = @ + 1]]
    BY <1>1 DEF Enqueue, State
  <2>2. [s.dlq EXCEPT ![h] = @ + 1] \in [Hooks -> Nat]
    BY DEF State
  <2> DEFINE d == [s.dlq EXCEPT ![h] = @ + 1]
  <2>3. t = [s EXCEPT !.dlq = d] /\ d \in [Hooks -> Nat]
    BY <2>1, <2>2
  <2> HIDE DEF t, d
  <2>4. /\ t \in State /\ t.dlq = d /\ t.queue = s.queue
        /\ t.seen = s.seen /\ t.tracked = s.tracked
        /\ t.since = s.since /\ t.bare = s.bare /\ t.again = s.again
    BY <2>3 DEF State
  <2> QED  BY <2>4 DEF t, d
<1>2. CASE ~(attempt > RetryMax \/ Len(s.queue) >= MaxQueue)
  <2>1. t = [s EXCEPT !.queue = Append(s.queue, Entry(h, age, attempt))]
    BY <1>2 DEF Enqueue, Entry
  <2>2. attempt \in 1..RetryMax
    BY <1>2, RetryAssumption
  <2>3. Append(s.queue, Entry(h, age, attempt)) \in Seq(Job)
    BY <2>2, EntryType, AppendProperties DEF State
  <2> DEFINE q == Append(s.queue, Entry(h, age, attempt))
  <2>4. t = [s EXCEPT !.queue = q] /\ q \in Seq(Job)
    BY <2>1, <2>3
  <2> HIDE DEF t, q
  <2>5. /\ t \in State /\ t.queue = q /\ t.dlq = s.dlq
        /\ t.seen = s.seen /\ t.tracked = s.tracked
        /\ t.since = s.since /\ t.bare = s.bare /\ t.again = s.again
    BY <2>4 DEF State
  <2> QED  BY <2>2, <2>5 DEF t, q
<1> QED  BY <1>1, <1>2

\* Two state tables that differ in the circuit breaker only.
SameButBreaker(s, t) ==
    /\ t.queue = s.queue /\ t.dlq = s.dlq
    /\ t.seen = s.seen /\ t.tracked = s.tracked
    /\ t.since = s.since /\ t.bare = s.bare /\ t.again = s.again

LEMMA NoteEffect ==
    ASSUME NEW s \in State, NEW success \in BOOLEAN
    PROVE  Note(s, success) \in State /\ SameButBreaker(s, Note(s, success))
<1>1. CASE success
  <2>1. Note(s, success) = [s EXCEPT !.fails = 0, !.open = 0]
    BY <1>1 DEF Note
  <2>2. 0 \in 0..Threshold /\ 0 \in 0..Cooldown
    BY RetryAssumption
  <2> QED  BY <2>1, <2>2 DEF State, SameButBreaker
<1>2. CASE ~success
  <2> DEFINE count == Min({s.fails + 1, Threshold})
  <2>1. count \in 0..Threshold
    <3>1. s.fails + 1 \in Nat /\ Threshold \in Nat
      BY RetryAssumption DEF State
    <3> QED  BY <3>1, Minimum
  <2>2. Note(s, success)
          = [s EXCEPT !.fails = count,
                      !.open = IF count = Threshold THEN Cooldown ELSE s.open]
    BY <1>2 DEF Note
  <2> HIDE DEF count
  <2>3. (IF count = Threshold THEN Cooldown ELSE s.open) \in 0..Cooldown
    BY RetryAssumption DEF State
  <2> QED  BY <2>1, <2>2, <2>3 DEF State, SameButBreaker
<1> QED  BY <1>1, <1>2

LEMMA SeenAgeType ==
    ASSUME NEW age \in Age
    PROVE  SeenAge(age) \in Age /\ (~epoch => SeenAge(age) = 0)
<1>1. 0 \in Age
  BY RetryAssumption DEF Age
<1> QED  BY <1>1 DEF SeenAge

\* The replay cache once k is marked and gone dropped.
LEMMA CacheType ==
    ASSUME NEW s \in State, NEW k \in Keys, NEW age \in Age, NEW gone \in SUBSET Keys
    PROVE  LET seen == Without(Marked(s, k, age), gone) IN
           /\ seen \in [Keys -> Age \cup {None}]
           /\ \A x \in Keys :
                 seen[x] = IF x \in gone THEN None
                           ELSE IF x # k THEN s.seen[x]
                           ELSE IF SeenAge(age) < SeenTTL THEN SeenAge(age) ELSE None
<1> DEFINE entry == IF SeenAge(age) < SeenTTL THEN SeenAge(age) ELSE None
           marked == [s.seen EXCEPT ![k] = entry]
<1>1. entry \in Age \cup {None}
  BY SeenAgeType
<1>2. s.seen \in [Keys -> Age \cup {None}]
  BY DEF State
<1> HIDE DEF entry
<1>3. /\ marked \in [Keys -> Age \cup {None}]
      /\ \A x \in Keys : marked[x] = IF x = k THEN entry ELSE s.seen[x]
  BY <1>1, <1>2
<1>4. Marked(s, k, age) = marked
  BY DEF Marked, entry
<1> HIDE DEF marked
<1>5. Without(Marked(s, k, age), gone) = [x \in Keys |-> IF x \in gone THEN None ELSE marked[x]]
  BY <1>4 DEF Without
<1> QED  BY <1>3, <1>5 DEF entry

\* What an application changes.
Applied(s, t, h, age, gone) ==
    /\ t.queue = s.queue /\ t.dlq = s.dlq
    /\ t.seen = Without(Marked(s, h, age), gone)
    /\ \A g \in Hooks : t.since[g] = IF g = h THEN 0 ELSE s.since[g]
    /\ \A g \in Hooks : g \notin t.bare =>
          IF g = h THEN g \notin gone /\ SeenAge(age) <= Drift
          ELSE g \notin gone /\ g \notin s.bare
    /\ t.again = IF s.since[h] \in {None, SeenTTL} \/ h \in s.bare THEN s.again
                 ELSE s.again \cup {<<h, s.since[h]>>}

LEMMA ApplyEffect ==
    ASSUME NEW s \in State, NEW h \in Hooks, NEW age \in Age, NEW gone \in SUBSET Keys
    PROVE  /\ Apply(s, h, age, gone) \in State
           /\ Applied(s, Apply(s, h, age, gone), h, age, gone)
<1> DEFINE seen == Without(Marked(s, h, age), gone)
           since == [s.since EXCEPT ![h] = 0]
           bare == (s.bare \ {x \in {h} : SeenAge(age) <= Drift})
                     \cup {x \in {h} : SeenAge(age) > Drift}
                     \cup (gone \cap Hooks)
           again == IF s.since[h] \in {None, SeenTTL} \/ h \in s.bare THEN s.again
                    ELSE s.again \cup {<<h, s.since[h]>>}
<1>1. Apply(s, h, age, gone)
        = [s EXCEPT !.seen = seen, !.since = since, !.bare = bare, !.again = again]
  <2>1. Noted(s, h, age, gone)
          = [s EXCEPT !.since = since, !.bare = bare, !.again = again]
    BY DEF Noted, State
  <2> HIDE DEF seen, since, bare, again
  <2> QED  BY <2>1 DEF Apply, State, seen
<1>2. h \in Keys
  BY DEF Keys
<1>3. seen \in [Keys -> Age \cup {None}]
  BY <1>2, CacheType
<1>4. since \in [Hooks -> 0..SeenTTL \cup {None}]
  BY RetryAssumption DEF State
<1>5. bare \in SUBSET Hooks
  BY DEF State
<1>6. again \in SUBSET (Hooks \X (0..SeenTTL))
  <2>1. s.since[h] = None \/ s.since[h] \in 0..SeenTTL
    BY DEF State
  <2>2. s.again \subseteq Hooks \X (0..SeenTTL)
    BY DEF State
  <2> QED  BY <2>1, <2>2
<1>7. \A g \in Hooks : since[g] = IF g = h THEN 0 ELSE s.since[g]
  BY DEF State
<1>8. \A g \in Hooks : g \notin bare =>
         IF g = h THEN g \notin gone /\ SeenAge(age) <= Drift
         ELSE g \notin gone /\ g \notin s.bare
  <2>1. SeenAge(age) <= Drift \/ SeenAge(age) > Drift
    BY SeenAgeType, AgeIsInt, RetryAssumption
  <2> QED  BY <2>1
<1> HIDE DEF seen, since, bare, again
<1>9. /\ Apply(s, h, age, gone) \in State
      /\ Apply(s, h, age, gone).queue = s.queue /\ Apply(s, h, age, gone).dlq = s.dlq
      /\ Apply(s, h, age, gone).seen = seen /\ Apply(s, h, age, gone).since = since
      /\ Apply(s, h, age, gone).bare = bare /\ Apply(s, h, age, gone).again = again
  BY <1>1, <1>3, <1>4, <1>5, <1>6 DEF State
<1> QED  BY <1>7, <1>8, <1>9 DEF seen, again, Applied

\* The three things ProviderWebhook can come to: nothing, a job, a payment
\* that is updated.
LEMMA HandledCases ==
    ASSUME NEW s \in State, NEW h \in Hooks, NEW age \in Age,
           NEW tried \in 0..RetryMax, NEW answer \in Answers(s, h, age), NEW gone \in SUBSET Keys
    PROVE  LET t == Handled(s, h, age, tried, answer, gone) IN
           \/ t = s /\ ~Succeeds(s, h, answer)
           \/ /\ ~Succeeds(s, h, answer)
              /\ \E n \in State : /\ SameButBreaker(s, n)
                                  /\ t = Enqueue(n, h, age, tried + 1)
           \/ /\ Succeeds(s, h, answer) /\ ~Recent(s, h, age)
              /\ \E n \in State : /\ SameButBreaker(s, n)
                                  /\ t = Apply(n, h, age, gone)
<1> DEFINE t == Handled(s, h, age, tried, answer, gone)
<1>1. answer \in {"OPEN", "REPLAY", "UNAUTHORIZED", "UNAVAILABLE", "VERIFIED"}
  BY DEF Answers
<1>2. SameButBreaker(s, s)
  BY DEF SameButBreaker
<1>3. CASE answer \in {"REPLAY", "UNAUTHORIZED"}
  BY <1>3 DEF Handled, Succeeds
<1>4. CASE answer = "OPEN"
  <2>1. t = Enqueue(s, h, age, tried + 1)
    BY <1>4 DEF Handled
  <2>2. ~Succeeds(s, h, answer)
    BY <1>4 DEF Succeeds
  <2> QED  BY <1>2, <2>1, <2>2
<1>5. CASE answer = "UNAVAILABLE"
  <2>1. t = Enqueue(Note(s, FALSE), h, age, tried + 1)
    BY <1>5 DEF Handled
  <2>2. ~Succeeds(s, h, answer)
    BY <1>5 DEF Succeeds
  <2>3. Note(s, FALSE) \in State /\ SameButBreaker(s, Note(s, FALSE))
    BY NoteEffect
  <2> QED  BY <2>1, <2>2, <2>3
<1>6. CASE answer = "VERIFIED"
  <2>1. ~Recent(s, h, age)
    BY <1>6 DEF Answers
  <2>2. Note(s, TRUE) \in State /\ SameButBreaker(s, Note(s, TRUE))
    BY NoteEffect
  <2>3. CASE h \in s.tracked
    <3>1. t = Apply(Note(s, TRUE), h, age, gone) /\ Succeeds(s, h, answer)
      BY <1>6, <2>3 DEF Handled, Succeeds
    <3> QED  BY <2>1, <2>2, <3>1
  <2>4. CASE h \notin s.tracked
    <3>1. t = Enqueue(Note(s, TRUE), h, age, tried + 1) /\ ~Succeeds(s, h, answer)
      BY <1>6, <2>4 DEF Handled, Succeeds
    <3> QED  BY <2>2, <3>1
  <2> QED  BY <2>3, <2>4
<1> QED  BY <1>1, <1>3, <1>4, <1>5, <1>6

LEMMA HandledType ==
    ASSUME NEW s \in State, NEW h \in Hooks, NEW age \in Age,
           NEW tried \in 0..RetryMax, NEW answer \in Answers(s, h, age), NEW gone \in SUBSET Keys
    PROVE  Handled(s, h, age, tried, answer, gone) \in State
<1>1. tried + 1 \in 1..(RetryMax + 1)
  BY RetryAssumption
<1> DEFINE t == Handled(s, h, age, tried, answer, gone)
<1>2. CASE t = s
  BY <1>2
<1>3. CASE \E n \in State : t = Enqueue(n, h, age, tried + 1)
  BY <1>1, <1>3, EnqueueEffect
<1>4. CASE \E n \in State : t = Apply(n, h, age, gone)
  <2>1. PICK n \in State : t = Apply(n, h, age, gone)
    BY <1>4
  <2>2. Apply(n, h, age, gone) \in State
    BY ApplyEffect
  <2> QED  BY <2>1, <2>2, Zenon
<1> HIDE DEF t
<1>5. t = s \/ (\E n \in State : t = Enqueue(n, h, age, tried + 1))
            \/ (\E n \in State : t = Apply(n, h, age, gone))
  BY HandledCases DEF t
<1> QED  BY <1>2, <1>3, <1>4, <1>5 DEF t

\* A job that has aged.
AgedJob(job) == [job EXCEPT !.wait = Sooner(@), !.age = Older(@)]

LEMMA AgedJobType ==
    ASSUME NEW job \in Job
    PROVE  /\ AgedJob(job) \in Job
           /\ AgedJob(job).hook = job.hook /\ AgedJob(job).attempts = job.attempts
<1> DEFINE w == Sooner(job.wait)
           a == Older(job.age)
<1>1. w \in 0..Backoff(RetryMax)
  <2>1. RetryMax \in 1..RetryMax
    BY RetryAssumption
  <2>2. Backoff(RetryMax) \in Nat
    BY <2>1, BackoffBound
  <2>3. job.wait \in 0..Backoff(RetryMax)
    BY DEF Job
  <2> QED  BY <2>2, <2>3 DEF Sooner
<1>2. a \in Age
  <2>1. job.age \in Age /\ job.age # None
    BY AgeIsInt DEF Job
  <2> QED  BY <2>1, OlderAge
<1>3. AgedJob(job) = [job EXCEPT !.wait = w, !.age = a]
  BY DEF AgedJob
<1> HIDE DEF w, a
<1> QED  BY <1>1, <1>2, <1>3 DEF Job

LEMMA AgedEffect ==
    ASSUME NEW s \in State
    PROVE  LET t == Aged(s) IN
           /\ t \in State
           /\ Len(t.queue) = Len(s.queue)
           /\ \A i \in 1..Len(s.queue) : t.queue[i] = AgedJob(s.queue[i])
           /\ t.dlq = s.dlq /\ t.tracked = s.tracked
           /\ t.bare = s.bare /\ t.again = s.again
           /\ \A k \in Keys : t.seen[k] = IF Older(s.seen[k]) = SeenTTL THEN None
                                         ELSE Older(s.seen[k])
           /\ \A h \in Hooks : t.since[h] = Older(s.since[h])
<1> DEFINE queue == [i \in DOMAIN s.queue |->
                        [s.queue[i] EXCEPT !.wait = Sooner(@), !.age = Older(@)]]
           seen == [k \in Keys |-> IF Older(s.seen[k]) = SeenTTL THEN None
                                   ELSE Older(s.seen[k])]
           open == Sooner(s.open)
           since == [h \in Hooks |-> Older(s.since[h])]
<1>1. Aged(s) = [s EXCEPT !.queue = queue, !.seen = seen, !.open = open, !.since = since]
  BY DEF Aged
<1>2. /\ queue \in Seq(Job) /\ Len(queue) = Len(s.queue)
      /\ \A i \in 1..Len(s.queue) : queue[i] = AgedJob(s.queue[i])
  <2>1. s.queue \in Seq(Job)
    BY DEF State
  <2>2. Len(s.queue) \in Nat /\ DOMAIN s.queue = 1..Len(s.queue)
    BY <2>1
  <2>3. \A i \in 1..Len(s.queue) : s.queue[i] \in Job
    BY <2>1
  <2>4. queue = [i \in 1..Len(s.queue) |-> AgedJob(s.queue[i])]
    BY <2>2 DEF AgedJob
  <2>5. queue \in [1..Len(s.queue) -> Job]
    BY <2>3, <2>4, AgedJobType
  <2> HIDE DEF queue
  <2>6. queue \in Seq(Job)
    BY <2>2, <2>5, SeqDef
  <2>7. Len(queue) = Len(s.queue)
    BY <2>2, <2>5, <2>6, LenProperties
  <2> QED  BY <2>4, <2>6, <2>7
<1>3. seen \in [Keys -> Age \cup {None}]
  BY OlderAge DEF State
<1>4. open \in 0..Cooldown
  BY RetryAssumption DEF State, Sooner
<1>5. since \in [Hooks -> 0..SeenTTL \cup {None}]
  <2>1. \A h \in Hooks : s.since[h] \in 0..SeenTTL \cup {None}
    BY DEF State
  <2>2. 0..SeenTTL \subseteq Age
    BY RetryAssumption DEF Age
  <2>3. \A h \in Hooks : Older(s.since[h]) \in 0..SeenTTL \cup {None}
    BY <2>1, <2>2, OlderAge
  <2> QED  BY <2>3
<1> DEFINE t == Aged(s)
<1>6. /\ \A k \in Keys : seen[k] = IF Older(s.seen[k]) = SeenTTL THEN None
                                   ELSE Older(s.seen[k])
      /\ \A h \in Hooks : since[h] = Older(s.since[h])
  OBVIOUS
<1> HIDE DEF queue, seen, open, since
<1>7. /\ t \in State
      /\ t.queue = queue /\ t.dlq = s.dlq /\ t.seen = seen
      /\ t.tracked = s.tracked /\ t.since = since
      /\ t.bare = s.bare /\ t.again = s.again
  BY <1>1, <1>2, <1>3, <1>4, <1>5 DEF State
<1> QED  BY <1>2, <1>6, <1>7

-----------------------------------------------------------------------------
(* The state has its type. *)

LEMMA FreshType == Fresh \in State
<1>1. <<>> \in Seq(Job)
  BY EmptySeq
<1>2. 0 \in 0..Threshold /\ 0 \in 0..Cooldown
  BY RetryAssumption
<1>3. [h \in Hooks |-> 0] \in [Hooks -> Nat]
  OBVIOUS
<1>4. [k \in Keys |-> None] \in [Keys -> Age \cup {None}]
  OBVIOUS
<1>5. [h \in Hooks |-> None] \in [Hooks -> 0..SeenTTL \cup {None}]
  OBVIOUS
<1> QED  BY <1>1, <1>2, <1>3, <1>4, <1>5 DEF Fresh, State

LEMMA InitType == Init => TypeOK
<1> SUFFICES ASSUME Init PROVE TypeOK
  OBVIOUS
<1>1. batch \in Seq(Job)
  BY EmptySeq DEF Init
<1>2. deliveries \in [Hooks -> Nat] /\ crashes \in 0..MaxCrashes
  BY RetryAssumption DEF Init
<1> QED  BY <1>1, <1>2, FreshType DEF Init, TypeOK

\* The job a run looks at.
LEMMA HeadOfBatch ==
    ASSUME TypeOK, batch # <<>>
    PROVE  /\ Head(batch) \in Job /\ Tail(batch) \in Seq(Job)
           /\ Head(batch).hook \in Hooks /\ Head(batch).age \in Age
           /\ Head(batch).attempts \in 1..RetryMax
           /\ Head(batch).attempts \in 0..RetryMax
           /\ Head(batch).attempts + 1 \in 1..(RetryMax + 1)
<1>1. Head(batch) \in Job /\ Tail(batch) \in Seq(Job)
  BY HeadTailProperties DEF TypeOK
<1>2. /\ Head(batch).hook \in Hooks /\ Head(batch).age \in Age
      /\ Head(batch).attempts \in 1..RetryMax
  BY <1>1 DEF Job
<1>3. RetryMax \in Nat
  BY RetryAssumption
<1> QED  BY <1>1, <1>2, <1>3

LEMMA PutBackState ==
    ASSUME TypeOK, PutBack
    PROVE  /\ st' \in State
           /\ st'.queue = Append(st.queue, Head(batch))
           /\ st'.dlq = st.dlq /\ st'.seen = st.seen /\ st'.since = st.since
           /\ st'.bare = st.bare /\ st'.again = st.again
<1> DEFINE q == Append(st.queue, Head(batch))
<1>1. q \in Seq(Job)
  BY HeadOfBatch, AppendProperties DEF PutBack, TypeOK, State
<1>2. st' = [st EXCEPT !.queue = q] /\ st \in State
  BY DEF PutBack, TypeOK
<1> HIDE DEF q
<1>3. /\ st' \in State /\ st'.queue = q
      /\ st'.dlq = st.dlq /\ st'.seen = st.seen /\ st'.since = st.since
      /\ st'.bare = st.bare /\ st'.again = st.again
  BY <1>1, <1>2 DEF State
<1> QED  BY <1>3 DEF q

LEMMA RunStartState ==
    ASSUME TypeOK, RunStart
    PROVE  /\ st' \in State
           /\ st'.queue = <<>>
           /\ st'.dlq = st.dlq /\ st'.seen = st.seen /\ st'.since = st.since
           /\ st'.bare = st.bare /\ st'.again = st.again
<1>1. <<>> \in Seq(Job)
  BY EmptySeq
<1>2. st' = [st EXCEPT !.queue = <<>>] /\ st \in State
  BY DEF RunStart, TypeOK
<1> QED  BY <1>1, <1>2 DEF State

LEMMA TrackState ==
    ASSUME TypeOK, NEW h \in Hooks, Track(h)
    PROVE  /\ st' \in State
           /\ st'.queue = st.queue
           /\ st'.dlq = st.dlq /\ st'.seen = st.seen /\ st'.since = st.since
           /\ st'.bare = st.bare /\ st'.again = st.again
<1>1. st' = [st EXCEPT !.tracked = st.tracked \cup {h}] /\ st \in State
  BY DEF Track, TypeOK, State
<1> QED  BY <1>1 DEF State

LEMMA OffsetsAreAges == Offsets \subseteq Age
BY RetryAssumption DEF Offsets, Age

LEMMA EnqueueGrows ==
    ASSUME NEW s \in State, NEW h \in Hooks, NEW age \in Age,
           NEW attempt \in 1..(RetryMax + 1)
    PROVE  Len(Enqueue(s, h, age, attempt).queue) >= Len(s.queue)
<1> DEFINE t == Enqueue(s, h, age, attempt)
<1>1. s.queue \in Seq(Job) /\ Len(s.queue) \in Nat
  BY LenProperties DEF State
<1>2. CASE t.queue = s.queue
  BY <1>1, <1>2
<1>3. CASE attempt <= RetryMax /\ t.queue = Append(s.queue, Entry(h, age, attempt))
  <2>1. Entry(h, age, attempt) \in Job
    BY <1>3, EntryType, RetryAssumption
  <2>2. Len(Append(s.queue, Entry(h, age, attempt))) = Len(s.queue) + 1
    BY <1>1, <2>1, AppendProperties
  <2> QED  BY <1>1, <1>3, <2>2
<1> QED  BY <1>2, <1>3, EnqueueEffect

LEMMA HandledGrows ==
    ASSUME NEW s \in State, NEW h \in Hooks, NEW age \in Age,
           NEW tried \in 0..RetryMax, NEW answer \in Answers(s, h, age), NEW gone \in SUBSET Keys
    PROVE  Len(Handled(s, h, age, tried, answer, gone).queue) >= Len(s.queue)
<1> DEFINE t == Handled(s, h, age, tried, answer, gone)
<1> SUFFICES Len(t.queue) >= Len(s.queue)
  OBVIOUS
<1>1. tried + 1 \in 1..(RetryMax + 1) /\ Len(s.queue) \in Nat
  BY RetryAssumption, LenProperties DEF State
<1>2. CASE t = s
  BY <1>1, <1>2
<1>3. CASE \E n \in State : SameButBreaker(s, n) /\ t = Enqueue(n, h, age, tried + 1)
  <2>1. PICK n \in State : SameButBreaker(s, n) /\ t = Enqueue(n, h, age, tried + 1)
    BY <1>3
  <2>2. Len(Enqueue(n, h, age, tried + 1).queue) >= Len(n.queue)
    BY <1>1, EnqueueGrows
  <2> HIDE DEF t
  <2>3. n.queue = s.queue
    BY <2>1 DEF SameButBreaker
  <2> QED  BY <2>1, <2>2, <2>3, Zenon
<1>4. CASE \E n \in State : SameButBreaker(s, n) /\ t = Apply(n, h, age, gone)
  <2>1. PICK n \in State : SameButBreaker(s, n) /\ t = Apply(n, h, age, gone)
    BY <1>4
  <2>2. Applied(n, Apply(n, h, age, gone), h, age, gone)
    BY ApplyEffect
  <2> HIDE DEF t
  <2> QED  BY <1>1, <2>1, <2>2 DEF SameButBreaker, Applied
<1> HIDE DEF t
<1>5. \/ t = s
      \/ \E n \in State : SameButBreaker(s, n) /\ t = Enqueue(n, h, age, tried + 1)
      \/ \E n \in State : SameButBreaker(s, n) /\ t = Apply(n, h, age, gone)
  BY HandledCases DEF t
<1> QED  BY <1>2, <1>3, <1>4, <1>5 DEF t

LEMMA OtherHookState ==
    ASSUME TypeOK, NEW o \in Others, OtherHook(o)
    PROVE  /\ st' \in State
           /\ st'.queue = st.queue /\ st'.dlq = st.dlq
           /\ st'.since = st.since /\ st'.again = st.again
           /\ \A h \in Hooks : h \notin st'.bare => h \notin st.bare /\ st'.seen[h] = st.seen[h]
<1>1. PICK age \in Offsets, gone \in SUBSET Keys :
         st' = [st EXCEPT !.seen = Without(Marked(st, o, age), gone),
                          !.bare = @ \cup (gone \cap Hooks)]
  <2>1. PICK age \in Offsets :
          \E gone \in Trims(Marked(st, o, age)) :
             st' = [st EXCEPT !.seen = Without(Marked(st, o, age), gone),
                              !.bare = @ \cup (gone \cap Hooks)]
    BY DEF OtherHook
  <2>2. Trims(Marked(st, o, age)) \subseteq SUBSET Keys
    BY DEF Trims, Entries
  <2> QED  BY <2>1, <2>2
<1>2. age \in Age
  BY <1>1, OffsetsAreAges
<1>3. o \in Keys /\ Hooks \subseteq Keys /\ o \notin Hooks
  BY RetryAssumption DEF Keys
<1> DEFINE seen == Without(Marked(st, o, age), gone)
           bare == st.bare \cup (gone \cap Hooks)
<1>4. st \in State
  BY DEF TypeOK
<1>5. /\ seen \in [Keys -> Age \cup {None}]
      /\ \A h \in Hooks : h \notin gone => seen[h] = st.seen[h]
  BY <1>2, <1>3, <1>4, CacheType
<1>6. bare \subseteq Hooks
  BY <1>4 DEF State
<1>7. st' = [st EXCEPT !.seen = seen, !.bare = bare]
  BY <1>1, <1>4 DEF State
<1>8. \A h \in Hooks : h \notin bare => h \notin st.bare /\ h \notin gone
  OBVIOUS
<1> HIDE DEF seen, bare
<1> QED  BY <1>4, <1>5, <1>6, <1>7, <1>8 DEF State

\* What a delivery does, with the names its proofs use.
LEMMA DeliverParts ==
    ASSUME TypeOK, NEW h \in Hooks, Deliver(h)
    PROVE  \E age \in Age : \E answer \in Answers(st, h, age), gone \in SUBSET Keys :
              st' = Handled(st, h, age, 0, answer, gone) /\ st' \in State
<1>0. PICK age \in Offsets :
         \E answer \in Answers(st, h, age), gone \in Trims(Marked(st, h, age)) :
            st' = Handled(st, h, age, 0, answer, gone)
  BY DEF Deliver
<1>1. PICK answer \in Answers(st, h, age), gone \in Trims(Marked(st, h, age)) :
         st' = Handled(st, h, age, 0, answer, gone)
  BY <1>0
<1>2. age \in Age /\ 0 \in 0..RetryMax
  BY OffsetsAreAges, RetryAssumption
<1>3. gone \in SUBSET Keys
  BY DEF Trims, Entries
<1>4. st' \in State
  BY <1>1, <1>2, <1>3, HandledType DEF TypeOK
<1> QED  BY <1>1, <1>2, <1>3, <1>4

\* What a retry does, with the names its proofs use.
LEMMA RetryParts ==
    ASSUME TypeOK, Retry
    PROVE  LET job == Head(batch) IN
           \E answer \in Answers(st, job.hook, job.age), gone \in SUBSET Keys, after \in State :
              /\ after = Handled(st, job.hook, job.age, job.attempts, answer, gone)
              /\ \/ Succeeds(st, job.hook, answer) /\ st' = after
                 \/ /\ ~Succeeds(st, job.hook, answer)
                    /\ st' = Enqueue(after, job.hook, job.age, job.attempts + 1)
              /\ st' \in State
              /\ \/ snap' = st' /\ exposed' = HooksIn(Tail(batch))
                 \/ /\ snap' = after /\ after.queue # st.queue
                    /\ exposed' = HooksIn(Tail(batch))
                 \/ snap' = snap /\ exposed' = exposed
<1> DEFINE job == Head(batch)
<1>1. batch # <<>>
  BY DEF Retry
<1>2. st \in State
  BY DEF TypeOK
<1>3. PICK answer \in Answers(st, job.hook, job.age), gone \in Trims(Marked(st, job.hook, job.age)) :
        LET after == Handled(st, job.hook, job.age, job.attempts, answer, gone)
        IN  /\ st' = IF Succeeds(st, job.hook, answer) THEN after
                     ELSE Enqueue(after, job.hook, job.age, job.attempts + 1)
            /\ snap' = CASE Len(st'.queue) > Len(after.queue) -> st'
                         [] Len(st'.queue) = Len(after.queue)
                            /\ Len(after.queue) > Len(st.queue) -> after
                         [] OTHER -> snap
  BY DEF Retry
<1> DEFINE after == Handled(st, job.hook, job.age, job.attempts, answer, gone)
<1>5. gone \in SUBSET Keys
  BY DEF Trims, Entries
<1>4. after \in State
  BY <1>1, <1>2, <1>5, HeadOfBatch, HandledType
<1>6. st' = after \/ st' = Enqueue(after, job.hook, job.age, job.attempts + 1)
  BY <1>3
<1>7. st' \in State /\ Len(st'.queue) >= Len(after.queue) /\ Len(after.queue) >= Len(st.queue)
  <2>1. job.hook \in Hooks /\ job.age \in Age /\ job.attempts \in 0..RetryMax
        /\ job.attempts + 1 \in 1..(RetryMax + 1)
    BY <1>1, HeadOfBatch
  <2>2. Len(after.queue) >= Len(st.queue)
    BY <1>2, <1>5, <2>1, HandledGrows
  <2> HIDE DEF after, job
  <2>3. CASE st' = after
    BY <1>4, <2>2, <2>3 DEF State
  <2>4. CASE st' = Enqueue(after, job.hook, job.age, job.attempts + 1)
    BY <1>4, <2>1, <2>2, <2>4, EnqueueEffect, EnqueueGrows
  <2> QED  BY <1>6, <2>3, <2>4
<1>8. exposed' = IF Len(st'.queue) > Len(st.queue) THEN HooksIn(Tail(batch)) ELSE exposed
  BY DEF Retry
<1>9. /\ Len(st'.queue) \in Nat /\ Len(after.queue) \in Nat /\ Len(st.queue) \in Nat
  BY <1>2, <1>4, <1>7, LenProperties DEF State
<1>10. \/ snap' = st' /\ exposed' = HooksIn(Tail(batch))
       \/ /\ snap' = after /\ after.queue # st.queue
          /\ exposed' = HooksIn(Tail(batch))
       \/ snap' = snap /\ exposed' = exposed
  <2>1. CASE Len(st'.queue) > Len(after.queue)
    <3>1. snap' = st'
      BY <1>3, <2>1
    <3> QED  BY <1>7, <1>8, <1>9, <2>1, <3>1
  <2>2. CASE Len(st'.queue) = Len(after.queue) /\ Len(after.queue) > Len(st.queue)
    <3>1. snap' = after
      BY <1>3, <1>9, <2>2
    <3> QED  BY <1>8, <1>9, <2>2, <3>1
  <2>3. CASE ~(Len(st'.queue) > Len(after.queue)) /\ ~(Len(st'.queue) = Len(after.queue)
                                                     /\ Len(after.queue) > Len(st.queue))
    <3>1. snap' = snap
      BY <1>3, <2>3
    <3> QED  BY <1>7, <1>8, <1>9, <2>3, <3>1
  <2> QED  BY <2>1, <2>2, <2>3
<1> QED  BY <1>3, <1>4, <1>5, <1>7, <1>10

LEMMA HooksInType ==
    ASSUME NEW jobs \in Seq(Job)
    PROVE  HooksIn(jobs) \subseteq Hooks
<1>1. ToSet(jobs) \subseteq Job
  BY DEF ToSet
<1> QED  BY <1>1 DEF HooksIn, Job

LEMMA NextType == TypeOK /\ [Next]_vars => TypeOK'
<1> SUFFICES ASSUME TypeOK, [Next]_vars
             PROVE  TypeOK'
  OBVIOUS
<1> USE DEF TypeOK
<1>1. CASE Tick
  BY <1>1, AgedEffect DEF Tick
<1>2. ASSUME NEW h \in Hooks, Deliver(h)
      PROVE  TypeOK'
  <2>1. st' \in State
    BY <1>2, DeliverParts
  <2>2. deliveries' \in [Hooks -> Nat]
    <3>1. deliveries' = [deliveries EXCEPT ![h] = @ + 1]
      BY <1>2, Zenon DEF Deliver
    <3> QED  BY <3>1
  <2>3. scheduled' \subseteq Hooks
    BY <1>2 DEF Deliver
  <2> QED  BY <1>2, <2>1, <2>2, <2>3 DEF Deliver
<1>3. ASSUME NEW h \in Hooks, Track(h)
      PROVE  TypeOK'
  BY <1>3, TrackState DEF Track
<1>4. CASE RunStart
  <2>1. st.queue \in Seq(Job)
    BY DEF State
  <2>2. st' \in State
    BY <1>4, RunStartState
  <2> QED  BY <1>4, <2>1, <2>2 DEF RunStart
<1>5. CASE PutBack
  BY <1>5, PutBackState, HeadOfBatch DEF PutBack
<1>6. CASE Retry
  <2>1. batch' \in Seq(Job) /\ HooksIn(Tail(batch)) \subseteq Hooks
    <3>1. batch # <<>> /\ batch' = Tail(batch)
      BY <1>6 DEF Retry
    <3> QED  BY <3>1, HeadOfBatch, HooksInType
  <2>2. st' \in State /\ snap' \in State /\ exposed' \subseteq Hooks
    BY <1>6, <2>1, RetryParts
  <2> QED  BY <1>6, <2>1, <2>2 DEF Retry
<1>7. CASE RunEnd
  BY <1>7 DEF RunEnd
<1>8. CASE CrashSaved \/ CrashTorn
  <2>1. <<>> \in Seq(Job)
    BY EmptySeq
  <2>2. crashes' \in 0..MaxCrashes
    BY <1>8, RetryAssumption DEF CrashSaved, CrashTorn
  <2> QED  BY <1>8, <2>1, <2>2, FreshType DEF CrashSaved, CrashTorn
<1>9. ASSUME NEW o \in Others, OtherHook(o)
      PROVE  TypeOK'
  BY <1>9, OtherHookState DEF OtherHook
<1>10. CASE UNCHANGED vars
  BY <1>10 DEF vars
<1> QED  BY <1>1, <1>2, <1>3, <1>4, <1>5, <1>6, <1>7, <1>8, <1>9, <1>10 DEF Next

\* The state always has its type: no wait is longer than that of the last
\* attempt and no job has more attempts than WRITE_WEBHOOK_RETRY_MAX.
THEOREM TypeCorrect == Spec => []TypeOK
<1> QED  BY InitType, NextType, PTL DEF Spec

-----------------------------------------------------------------------------
(* Nothing that was scheduled is lost. *)

HasJob(jobs, h) == \E i \in 1..Len(jobs) : jobs[i].hook = h

\* The state table keeps h: in the queue, dead or applied.
Held(s, h) == HasJob(s.queue, h) \/ s.dlq[h] > 0 \/ s.since[h] # None

LEMMA HasJobAppend ==
    ASSUME NEW q \in Seq(Job), NEW job \in Job, NEW h
    PROVE  HasJob(Append(q, job), h) <=> HasJob(q, h) \/ job.hook = h
<1> DEFINE r == Append(q, job)
<1>1. /\ Len(r) = Len(q) + 1 /\ r[Len(q) + 1] = job
      /\ \A i \in 1..Len(q) : r[i] = q[i]
      /\ Len(q) \in Nat
  BY AppendProperties, LenProperties
<1> HIDE DEF r
<1>2. HasJob(r, h) <=> HasJob(q, h) \/ job.hook = h
  BY <1>1 DEF HasJob
<1> QED  BY <1>2 DEF r

LEMMA HasJobTail ==
    ASSUME NEW q \in Seq(Job), q # <<>>, NEW h
    PROVE  HasJob(q, h) <=> HasJob(Tail(q), h) \/ Head(q).hook = h
<1> DEFINE r == Tail(q)
<1>1. /\ Len(q) \in Nat /\ Len(q) > 0 /\ Len(r) = Len(q) - 1
      /\ \A i \in 1..Len(r) : r[i] = q[i + 1]
      /\ Head(q) = q[1]
  BY HeadTailProperties, EmptySeq
<1> HIDE DEF r
<1>2. ASSUME HasJob(q, h) PROVE HasJob(r, h) \/ Head(q).hook = h
  <2>1. PICK i \in 1..Len(q) : q[i].hook = h
    BY <1>2 DEF HasJob
  <2>2. CASE i = 1
    BY <1>1, <2>1, <2>2
  <2>3. CASE i # 1
    <3>1. i - 1 \in 1..Len(r) /\ r[i - 1] = q[i]
      BY <1>1, <2>3
    <3> QED  BY <2>1, <3>1 DEF HasJob
  <2> QED  BY <2>2, <2>3
<1>3. ASSUME HasJob(r, h) PROVE HasJob(q, h)
  <2>1. PICK i \in 1..Len(r) : r[i].hook = h
    BY <1>3 DEF HasJob
  <2>2. i + 1 \in 1..Len(q) /\ q[i + 1].hook = h
    BY <1>1, <2>1
  <2> QED  BY <2>2 DEF HasJob
<1>4. ASSUME Head(q).hook = h PROVE HasJob(q, h)
  BY <1>1, <1>4 DEF HasJob
<1>5. HasJob(q, h) <=> HasJob(r, h) \/ Head(q).hook = h
  BY <1>2, <1>3, <1>4
<1> QED  BY <1>5 DEF r

LEMMA EnqueueHeld ==
    ASSUME NEW s \in State, NEW h \in Hooks, NEW age \in Age,
           NEW attempt \in 1..(RetryMax + 1), NEW g \in Hooks
    PROVE  /\ Held(s, g) => Held(Enqueue(s, h, age, attempt), g)
           /\ Held(Enqueue(s, h, age, attempt), h)
<1> DEFINE t == Enqueue(s, h, age, attempt)
           job == Entry(h, age, attempt)
<1>1. t.since = s.since
  BY EnqueueEffect
<1>2. CASE t.queue = s.queue /\ t.dlq = [s.dlq EXCEPT ![h] = @ + 1]
  <2> HIDE DEF t
  <2>1. s.dlq \in [Hooks -> Nat]
    BY DEF State
  <2>2. t.dlq[g] >= s.dlq[g] /\ t.dlq[h] > 0
    BY <1>2, <2>1
  <2>3. s.dlq[g] \in Nat /\ t.dlq[g] \in Nat
    BY <1>2, <2>1
  <2>4. (Held(s, g) => Held(t, g)) /\ Held(t, h)
    BY <1>1, <1>2, <2>2, <2>3 DEF Held
  <2> QED  BY <2>4 DEF t
<1>3. CASE attempt <= RetryMax /\ t.queue = Append(s.queue, job) /\ t.dlq = s.dlq
  <2>1. attempt \in 1..RetryMax
    BY <1>3, RetryAssumption
  <2>2. job \in Job /\ job.hook = h
    BY <2>1, EntryType DEF Entry
  <2>3. s.queue \in Seq(Job)
    BY DEF State
  <2> HIDE DEF t, job
  <2>4. \A k \in {g, h} : HasJob(t.queue, k) <=> HasJob(s.queue, k) \/ h = k
    BY <1>3, <2>2, <2>3, HasJobAppend
  <2>5. (Held(s, g) => Held(t, g)) /\ Held(t, h)
    BY <1>1, <1>3, <2>4 DEF Held
  <2> QED  BY <2>5 DEF t
<1>4. \/ t.queue = s.queue /\ t.dlq = [s.dlq EXCEPT ![h] = @ + 1]
      \/ attempt <= RetryMax /\ t.queue = Append(s.queue, job) /\ t.dlq = s.dlq
  BY EnqueueEffect
<1> QED  BY <1>2, <1>3, <1>4, Zenon

LEMMA ApplyHeld ==
    ASSUME NEW s \in State, NEW h \in Hooks, NEW age \in Age, NEW g \in Hooks,
           NEW gone \in SUBSET Keys
    PROVE  /\ Held(s, g) => Held(Apply(s, h, age, gone), g)
           /\ Held(Apply(s, h, age, gone), h)
<1> DEFINE t == Apply(s, h, age, gone)
<1>0. Applied(s, t, h, age, gone)
  BY ApplyEffect
<1>1. t.queue = s.queue /\ t.dlq = s.dlq
      /\ \A k \in Hooks : t.since[k] = IF k = h THEN 0 ELSE s.since[k]
  <2> HIDE DEF t
  <2> QED  BY <1>0 DEF Applied
<1>2. 0 # None
  BY RetryAssumption
<1> HIDE DEF t
<1>3. t.since[h] # None /\ (s.since[g] # None => t.since[g] # None)
  BY <1>1, <1>2
<1>4. (Held(s, g) => Held(t, g)) /\ Held(t, h)
  BY <1>1, <1>3 DEF Held
<1> QED  BY <1>4 DEF t

LEMMA SameHeld ==
    ASSUME NEW s, NEW t, SameButBreaker(s, t), NEW h
    PROVE  Held(s, h) <=> Held(t, h)
BY DEF SameButBreaker, Held

\* ProviderWebhook drops no hook, and holds the one it is called for when it
\* changes the queues or succeeds.
LEMMA HandledHeld ==
    ASSUME NEW s \in State, NEW h \in Hooks, NEW age \in Age,
           NEW tried \in 0..RetryMax, NEW answer \in Answers(s, h, age),
           NEW gone \in SUBSET Keys, NEW g \in Hooks
    PROVE  LET t == Handled(s, h, age, tried, answer, gone) IN
           /\ Held(s, g) => Held(t, g)
           /\ Succeeds(s, h, answer) \/ t.queue # s.queue \/ t.dlq # s.dlq
                => Held(t, h)
<1> DEFINE t == Handled(s, h, age, tried, answer, gone)
<1>1. tried + 1 \in 1..(RetryMax + 1)
  BY RetryAssumption
<1>2. CASE t = s /\ ~Succeeds(s, h, answer)
  BY <1>2, Zenon
<1>3. CASE \E n \in State : SameButBreaker(s, n) /\ t = Enqueue(n, h, age, tried + 1)
  <2>1. PICK n \in State : SameButBreaker(s, n) /\ t = Enqueue(n, h, age, tried + 1)
    BY <1>3
  <2>2. Held(s, g) <=> Held(n, g)
    BY <2>1, SameHeld
  <2>3. (Held(n, g) => Held(t, g)) /\ Held(t, h)
    <3> HIDE DEF t
    <3>1. /\ Held(n, g) => Held(Enqueue(n, h, age, tried + 1), g)
          /\ Held(Enqueue(n, h, age, tried + 1), h)
      BY <1>1, EnqueueHeld
    <3> QED  BY <2>1, <3>1, Zenon
  <2> QED  BY <2>2, <2>3, Zenon
<1>4. CASE \E n \in State : SameButBreaker(s, n) /\ t = Apply(n, h, age, gone)
  <2>1. PICK n \in State : SameButBreaker(s, n) /\ t = Apply(n, h, age, gone)
    BY <1>4
  <2>2. Held(s, g) <=> Held(n, g)
    BY <2>1, SameHeld
  <2>3. (Held(n, g) => Held(t, g)) /\ Held(t, h)
    <3> HIDE DEF t
    <3>1. /\ Held(n, g) => Held(Apply(n, h, age, gone), g)
          /\ Held(Apply(n, h, age, gone), h)
      BY ApplyHeld
    <3> QED  BY <2>1, <3>1, Zenon
  <2> QED  BY <2>2, <2>3, Zenon
<1>5. \/ t = s /\ ~Succeeds(s, h, answer)
      \/ \E n \in State : SameButBreaker(s, n) /\ t = Enqueue(n, h, age, tried + 1)
      \/ \E n \in State : SameButBreaker(s, n) /\ t = Apply(n, h, age, gone)
  BY HandledCases
<1> QED  BY <1>2, <1>3, <1>4, <1>5, Zenon

LEMMA AgedHeld ==
    ASSUME NEW s \in State, NEW h \in Hooks, Held(s, h)
    PROVE  Held(Aged(s), h)
<1> DEFINE t == Aged(s)
<1>1. /\ Len(t.queue) = Len(s.queue)
      /\ \A i \in 1..Len(s.queue) : t.queue[i] = AgedJob(s.queue[i])
      /\ t.dlq = s.dlq /\ t.since[h] = Older(s.since[h])
  BY AgedEffect
<1>2. \A i \in 1..Len(s.queue) : s.queue[i] \in Job
  BY DEF State
<1>3. \A i \in 1..Len(s.queue) : t.queue[i].hook = s.queue[i].hook
  BY <1>1, <1>2, AgedJobType
<1>4. s.since[h] # None => t.since[h] # None
  <2>1. s.since[h] \in 0..SeenTTL \cup {None} /\ 0..SeenTTL \subseteq Age
    BY RetryAssumption DEF State, Age
  <2> QED  BY <1>1, <2>1, OlderAge
<1> HIDE DEF t
<1>5. Held(t, h)
  BY <1>1, <1>3, <1>4 DEF Held, HasJob
<1> QED  BY <1>5 DEF t

\* Between runs the saved table is the current one.
SavedBetweenRuns == ~running => batch = <<>> /\ exposed = {} /\ snap = st

StHeld == \A h \in scheduled \ lost : Held(st, h) \/ HasJob(batch, h)

\* What a crash falls back on.
SnapHeld == \A h \in scheduled \ (lost \cup exposed) : Held(snap, h)

HeldInv == TypeOK /\ SavedBetweenRuns /\ StHeld /\ SnapHeld

LEMMA InitHeld == Init => HeldInv
<1> SUFFICES ASSUME Init PROVE HeldInv
  OBVIOUS
<1>1. TypeOK
  BY InitType
<1>2. Len(batch) = 0
  BY EmptySeq DEF Init
<1> QED  BY <1>1, <1>2 DEF Init, HeldInv, SavedBetweenRuns, StHeld, SnapHeld

LEMMA TickHeld == HeldInv /\ Tick => HeldInv'
<1> SUFFICES ASSUME HeldInv, Tick PROVE HeldInv'
  OBVIOUS
<1> USE DEF HeldInv, Tick
<1>1. TypeOK'
  BY NextType DEF Next
<1>2. SavedBetweenRuns'
  BY DEF SavedBetweenRuns
<1>3. st \in State /\ snap \in State /\ scheduled \subseteq Hooks
  BY DEF TypeOK
<1>4. StHeld'
  <2> SUFFICES ASSUME NEW h \in scheduled \ lost
               PROVE  Held(Aged(st), h) \/ HasJob(batch, h)
    BY DEF StHeld
  <2> QED  BY <1>3, AgedHeld DEF StHeld
<1>5. SnapHeld'
  <2> SUFFICES ASSUME NEW h \in scheduled \ (lost \cup exposed)
               PROVE  Held(Aged(snap), h)
    BY DEF SnapHeld
  <2> QED  BY <1>3, AgedHeld DEF SnapHeld
<1> QED  BY <1>1, <1>2, <1>4, <1>5

LEMMA DeliverHeld == \A h \in Hooks : HeldInv /\ Deliver(h) => HeldInv'
<1> SUFFICES ASSUME NEW h \in Hooks, HeldInv, Deliver(h) PROVE HeldInv'
  OBVIOUS
<1>1. TypeOK'
  BY NextType DEF Next, HeldInv
<1>2. SavedBetweenRuns'
  BY DEF HeldInv, Deliver, SavedBetweenRuns
<1>3. st \in State /\ TypeOK /\ 0 \in 0..RetryMax /\ scheduled \subseteq Hooks
  BY RetryAssumption DEF HeldInv, TypeOK
<1>4. PICK age \in Age : \E answer \in Answers(st, h, age), gone \in SUBSET Keys :
         st' = Handled(st, h, age, 0, answer, gone)
  BY <1>3, DeliverParts
<1>40. PICK answer \in Answers(st, h, age), gone \in SUBSET Keys :
         st' = Handled(st, h, age, 0, answer, gone)
  BY <1>4
<1>5. \A g \in Hooks : Held(st, g) => Held(st', g)
  BY <1>3, <1>40, HandledHeld, Zenon
<1>6. st'.queue # st.queue \/ st'.dlq # st.dlq => Held(st', h)
  <2> DEFINE t == Handled(st, h, age, 0, answer, gone)
  <2>1. t.queue # st.queue \/ t.dlq # st.dlq => Held(t, h)
    BY <1>3, <1>40, HandledHeld, Zenon
  <2> QED  BY <1>40, <2>1, Zenon
<1>7. /\ \/ scheduled' = scheduled
         \/ scheduled' = scheduled \cup {h} /\ Held(st', h)
      /\ batch' = <<>> /\ exposed' = {} /\ lost' = lost /\ snap' = st' /\ ~running'
  BY <1>6 DEF Deliver, HeldInv, SavedBetweenRuns
<1>8. \A g \in scheduled \ lost : Held(st, g)
  <2>1. Len(batch) = 0
    BY EmptySeq DEF HeldInv, SavedBetweenRuns, Deliver
  <2> QED  BY <2>1 DEF HeldInv, StHeld, HasJob
<1>9. \A g \in scheduled' \ lost' : Held(st', g)
  BY <1>3, <1>5, <1>7, <1>8
<1>10. StHeld'
  BY <1>9 DEF StHeld
<1>11. SnapHeld'
  BY <1>7, <1>9 DEF SnapHeld
<1> QED  BY <1>1, <1>2, <1>10, <1>11 DEF HeldInv

LEMMA TrackHeld == \A h \in Hooks : HeldInv /\ Track(h) => HeldInv'
<1> SUFFICES ASSUME NEW h \in Hooks, HeldInv, Track(h) PROVE HeldInv'
  OBVIOUS
<1>1. TypeOK'
  BY NextType DEF Next, HeldInv
<1>2. SavedBetweenRuns'
  BY DEF HeldInv, Track, SavedBetweenRuns
<1>3. \A g : Held(st', g) <=> Held(st, g)
  BY TrackState DEF Held, HeldInv
<1>4. StHeld'
  BY <1>3 DEF HeldInv, StHeld, Track
<1>5. SnapHeld'
  <2>1. Len(batch) = 0 /\ snap' = st' /\ scheduled' = scheduled /\ lost' = lost
    BY EmptySeq DEF HeldInv, SavedBetweenRuns, Track
  <2> QED  BY <1>3, <2>1 DEF HeldInv, StHeld, SnapHeld, HasJob
<1> QED  BY <1>1, <1>2, <1>4, <1>5 DEF HeldInv

LEMMA OtherHookHeld == \A o \in Others : HeldInv /\ OtherHook(o) => HeldInv'
<1> SUFFICES ASSUME NEW o \in Others, HeldInv, OtherHook(o) PROVE HeldInv'
  OBVIOUS
<1>1. TypeOK'
  BY NextType DEF Next, HeldInv
<1>2. SavedBetweenRuns'
  BY DEF HeldInv, OtherHook, SavedBetweenRuns
<1>3. \A g : Held(st', g) <=> Held(st, g)
  BY OtherHookState DEF Held, HeldInv
<1>4. StHeld'
  BY <1>3 DEF HeldInv, StHeld, OtherHook
<1>5. SnapHeld'
  <2>1. Len(batch) = 0 /\ snap' = st' /\ scheduled' = scheduled /\ lost' = lost
    BY EmptySeq DEF HeldInv, SavedBetweenRuns, OtherHook
  <2> QED  BY <1>3, <2>1 DEF HeldInv, StHeld, SnapHeld, HasJob
<1> QED  BY <1>1, <1>2, <1>4, <1>5 DEF HeldInv

LEMMA RunStartHeld == HeldInv /\ RunStart => HeldInv'
<1> SUFFICES ASSUME HeldInv, RunStart PROVE HeldInv'
  OBVIOUS
<1>1. TypeOK'
  BY NextType DEF Next, HeldInv
<1>2. SavedBetweenRuns'
  BY DEF RunStart, SavedBetweenRuns
<1>4. /\ batch' = st.queue /\ scheduled' = scheduled /\ lost' = lost
      /\ snap' = snap /\ exposed' = exposed
  BY DEF RunStart
<1>5. Len(batch) = 0 /\ snap = st
  BY EmptySeq DEF HeldInv, SavedBetweenRuns, RunStart
<1>6. \A h : Held(st, h) => Held(st', h) \/ HasJob(batch', h)
  BY <1>4, RunStartState DEF Held, HeldInv
<1>7. StHeld'
  BY <1>4, <1>5, <1>6 DEF HeldInv, StHeld, HasJob
<1>8. SnapHeld'
  BY <1>4 DEF HeldInv, SnapHeld
<1> QED  BY <1>1, <1>2, <1>7, <1>8 DEF HeldInv

LEMMA InHooksIn ==
    ASSUME NEW jobs \in Seq(Job), NEW h, HasJob(jobs, h)
    PROVE  h \in HooksIn(jobs)
<1>1. PICK i \in 1..Len(jobs) : jobs[i].hook = h
  BY DEF HasJob
<1>2. i \in DOMAIN jobs
  BY <1>1, LenProperties
<1> QED  BY <1>1, <1>2 DEF HooksIn, ToSet

LEMMA PutBackHeld == HeldInv /\ PutBack => HeldInv'
<1> SUFFICES ASSUME HeldInv, PutBack PROVE HeldInv'
  OBVIOUS
<1>1. TypeOK'
  BY NextType DEF Next, HeldInv
<1>2. batch # <<>> /\ batch' = Tail(batch)
  BY DEF PutBack
<1>3. SavedBetweenRuns'
  BY <1>2 DEF PutBack, HeldInv, SavedBetweenRuns
<1>4. st.queue \in Seq(Job) /\ batch \in Seq(Job) /\ Head(batch) \in Job
  BY <1>2, HeadOfBatch DEF HeldInv, TypeOK, State
<1>5. ASSUME NEW h, Held(st, h) \/ HasJob(batch, h)
      PROVE  Held(st', h) \/ HasJob(batch', h)
  <2>1. HasJob(st'.queue, h) <=> HasJob(st.queue, h) \/ Head(batch).hook = h
    <3>1. st'.queue = Append(st.queue, Head(batch))
      BY PutBackState DEF HeldInv
    <3>2. HasJob(Append(st.queue, Head(batch)), h)
            <=> HasJob(st.queue, h) \/ Head(batch).hook = h
      BY <1>4, HasJobAppend
    <3> QED  BY <3>1, <3>2, Zenon
  <2>2. HasJob(batch, h) <=> HasJob(batch', h) \/ Head(batch).hook = h
    BY <1>2, <1>4, HasJobTail
  <2>3. st'.dlq = st.dlq /\ st'.since = st.since
    BY PutBackState DEF HeldInv
  <2> QED  BY <1>5, <2>1, <2>2, <2>3 DEF Held
<1>6. StHeld'
  BY <1>5 DEF HeldInv, StHeld, PutBack
<1>7. SnapHeld'
  BY DEF HeldInv, SnapHeld, PutBack
<1> QED  BY <1>1, <1>3, <1>6, <1>7 DEF HeldInv

\* A retry that saves the table leaves out the jobs still in the batch: their
\* hooks are exposed.
LEMMA RetryHeld == HeldInv /\ Retry => HeldInv'
<1> SUFFICES ASSUME HeldInv, Retry PROVE HeldInv'
  OBVIOUS
<1>1. TypeOK'
  BY NextType DEF Next, HeldInv
<1>2. batch # <<>> /\ batch' = Tail(batch)
  BY DEF Retry
<1>3. SavedBetweenRuns'
  BY <1>2 DEF Retry, HeldInv, SavedBetweenRuns
<1>4. st \in State /\ batch \in Seq(Job) /\ scheduled \subseteq Hooks /\ TypeOK
  BY DEF HeldInv, TypeOK
<1> DEFINE job == Head(batch)
<1>5. PICK answer \in Answers(st, job.hook, job.age), gone \in SUBSET Keys, after \in State :
        /\ after = Handled(st, job.hook, job.age, job.attempts, answer, gone)
        /\ \/ Succeeds(st, job.hook, answer) /\ st' = after
           \/ /\ ~Succeeds(st, job.hook, answer)
              /\ st' = Enqueue(after, job.hook, job.age, job.attempts + 1)
        /\ \/ snap' = st' /\ exposed' = HooksIn(Tail(batch))
           \/ /\ snap' = after /\ after.queue # st.queue
              /\ exposed' = HooksIn(Tail(batch))
           \/ snap' = snap /\ exposed' = exposed
  BY <1>4, RetryParts
<1>6. /\ job.hook \in Hooks /\ job.age \in Age /\ job.attempts \in 0..RetryMax
      /\ job.attempts + 1 \in 1..(RetryMax + 1) /\ Tail(batch) \in Seq(Job)
  BY <1>2, <1>4, HeadOfBatch
<1> HIDE DEF job
<1>7. /\ \A g \in Hooks : Held(st, g) => Held(after, g)
      /\ Succeeds(st, job.hook, answer) \/ after.queue # st.queue
           => Held(after, job.hook)
  <2> DEFINE t == Handled(st, job.hook, job.age, job.attempts, answer, gone)
  <2>1. /\ \A g \in Hooks : Held(st, g) => Held(t, g)
        /\ Succeeds(st, job.hook, answer) \/ t.queue # st.queue \/ t.dlq # st.dlq
             => Held(t, job.hook)
    BY <1>4, <1>5, <1>6, HandledHeld, Zenon
  <2>2. after = t
    BY <1>5
  <2> HIDE DEF t
  <2> QED  BY <2>1, <2>2, Zenon
<1>8. /\ \A g \in Hooks : Held(after, g) => Held(st', g)
      /\ Held(st', job.hook)
  <2>1. CASE Succeeds(st, job.hook, answer) /\ st' = after
    BY <1>7, <2>1, Zenon
  <2>2. CASE st' = Enqueue(after, job.hook, job.age, job.attempts + 1)
    <3> DEFINE t == Enqueue(after, job.hook, job.age, job.attempts + 1)
    <3>1. /\ \A g \in Hooks : Held(after, g) => Held(t, g)
          /\ Held(t, job.hook)
      BY <1>6, EnqueueHeld
    <3> QED  BY <2>2, <3>1, Zenon
  <2> QED  BY <1>5, <2>1, <2>2, Zenon
<1>9. \A h : HasJob(batch, h) <=> HasJob(batch', h) \/ job.hook = h
  BY <1>2, <1>4, HasJobTail DEF job
<1>10. scheduled' = scheduled /\ lost' = lost
  BY DEF Retry
<1>11. StHeld'
  <2> SUFFICES ASSUME NEW h \in scheduled \ lost
               PROVE  Held(st', h) \/ HasJob(batch', h)
    BY <1>10 DEF StHeld
  <2>1. Held(st, h) \/ HasJob(batch, h)
    BY DEF HeldInv, StHeld
  <2> QED  BY <1>4, <1>7, <1>8, <1>9, <2>1
<1>12. SnapHeld'
  <2> SUFFICES ASSUME NEW h \in scheduled \ (lost \cup exposed')
               PROVE  Held(snap', h)
    BY <1>10 DEF SnapHeld
  <2>1. h \in Hooks /\ (Held(st, h) \/ HasJob(batch, h))
    BY <1>4 DEF HeldInv, StHeld
  <2>2. CASE snap' = snap /\ exposed' = exposed
    BY <2>2 DEF HeldInv, SnapHeld
  <2>3. CASE exposed' = HooksIn(Tail(batch)) /\ (snap' = st' \/ (snap' = after /\ after.queue # st.queue))
    <3>1. ~HasJob(batch', h)
      BY <1>2, <1>6, <2>3, InHooksIn
    <3>2. Held(st, h) \/ job.hook = h
      BY <1>9, <2>1, <3>1
    <3> QED  BY <1>7, <1>8, <2>1, <2>3, <3>2, Zenon
  <2> QED  BY <1>5, <2>2, <2>3, Zenon
<1> QED  BY <1>1, <1>3, <1>11, <1>12 DEF HeldInv

LEMMA NextHeld == HeldInv /\ [Next]_vars => HeldInv'
<1> SUFFICES ASSUME HeldInv, [Next]_vars PROVE HeldInv'
  OBVIOUS
<1>1. CASE RunEnd
  <2>1. TypeOK'
    BY <1>1, NextType DEF Next, HeldInv
  <2>2. Len(batch) = 0
    BY <1>1, EmptySeq DEF RunEnd
  <2> QED  BY <1>1, <2>1, <2>2 DEF HeldInv, RunEnd, SavedBetweenRuns,
                                   StHeld, SnapHeld, HasJob
<1>2. CASE CrashSaved
  <2>1. TypeOK'
    BY <1>2, NextType DEF Next, HeldInv
  <2>2. Len(batch') = 0
    BY <1>2, EmptySeq DEF CrashSaved
  <2> QED  BY <1>2, <2>1, <2>2 DEF HeldInv, CrashSaved, SavedBetweenRuns,
                                   StHeld, SnapHeld
<1>4. CASE CrashTorn
  <2>1. TypeOK' /\ scheduled \subseteq Hooks
    BY <1>4, NextType DEF Next, HeldInv, TypeOK
  <2> QED  BY <1>4, <2>1 DEF HeldInv, CrashTorn, SavedBetweenRuns, StHeld, SnapHeld
<1>3. CASE UNCHANGED vars
  BY <1>3, NextType DEF vars, HeldInv, SavedBetweenRuns, StHeld, SnapHeld
<1> QED
  BY <1>1, <1>2, <1>3, <1>4, TickHeld, DeliverHeld, TrackHeld, OtherHookHeld,
     RunStartHeld, PutBackHeld, RetryHeld DEF Next

\* What is held is in the queue, in the batch, dead or applied.
LEMMA HeldImpliesNothingLost == HeldInv => NothingLost
<1> SUFFICES ASSUME HeldInv, NEW h \in scheduled \ lost
             PROVE  \/ \E job \in ToSet(Jobs) : job.hook = h
                    \/ st.dlq[h] > 0
                    \/ st.since[h] # None
  BY DEF NothingLost
<1>1. st.queue \in Seq(Job) /\ batch \in Seq(Job)
  BY DEF HeldInv, TypeOK, State
<1>2. /\ Jobs \in Seq(Job) /\ Len(Jobs) = Len(st.queue) + Len(batch)
      /\ \A i \in 1..(Len(st.queue) + Len(batch)) :
            Jobs[i] = IF i <= Len(st.queue) THEN st.queue[i]
                      ELSE batch[i - Len(st.queue)]
  BY <1>1, ConcatProperties DEF Jobs
<1>3. DOMAIN Jobs = 1..Len(Jobs) /\ Len(st.queue) \in Nat /\ Len(batch) \in Nat
  BY <1>1, <1>2, LenProperties
<1> HIDE DEF Jobs
<1>4. CASE HasJob(st.queue, h)
  <2>1. PICK i \in 1..Len(st.queue) : st.queue[i].hook = h
    BY <1>4 DEF HasJob
  <2>2. i \in DOMAIN Jobs /\ Jobs[i] = st.queue[i]
    BY <1>2, <1>3
  <2> QED  BY <2>1, <2>2 DEF ToSet
<1>5. CASE HasJob(batch, h)
  <2>1. PICK i \in 1..Len(batch) : batch[i].hook = h
    BY <1>5 DEF HasJob
  <2> DEFINE k == i + Len(st.queue)
  <2>2. k \in 1..(Len(st.queue) + Len(batch)) /\ ~(k <= Len(st.queue))
    BY <1>3
  <2>3. k - Len(st.queue) = i
    BY <1>3
  <2>4. Jobs[k] = batch[k - Len(st.queue)] /\ k \in DOMAIN Jobs
    <3> HIDE DEF k
    <3> QED  BY <1>2, <1>3, <2>2
  <2>5. Jobs[k].hook = h
    BY <2>1, <2>3, <2>4, Zenon
  <2> QED  BY <2>4, <2>5 DEF ToSet
<1>6. Held(st, h) \/ HasJob(batch, h)
  BY DEF HeldInv, StHeld
<1> QED  BY <1>4, <1>5, <1>6 DEF Held

\* A hook the provider was told will be retried is never dropped, whatever
\* the order of deliveries, runs and crashes; only a crash that tears the
\* snapshot loses it, or one in a run that has saved the table without it.
THEOREM ScheduledIsKept == Spec => []NothingLost
<1> QED  BY InitHeld, NextHeld, HeldImpliesNothingLost, PTL DEF Spec

-----------------------------------------------------------------------------
(* A hook applied promptly is not applied again. *)

\* What protects h while it is not bare: an entry dated at most Drift before
\* its application; one that has gone was too old to be there.
Protected(s, e, h) ==
    IF s.seen[h] = None
      THEN s.since[h] = SeenTTL \/ (e /\ s.since[h] > SeenTTL - 2 * Drift)
      ELSE s.seen[h] <= s.since[h] + (IF e THEN Drift ELSE 0)

AllProtected(s, e) ==
    \A h \in Hooks : h \notin s.bare /\ s.since[h] # None => Protected(s, e, h)

NotSoon(s, e) == \A x \in s.again : e /\ x[2] > SeenTTL - 2 * Drift

Deduped(s, e) == AllProtected(s, e) /\ NotSoon(s, e)

DedupInv == TypeOK /\ Deduped(st, epoch) /\ Deduped(snap, epoch)

\* Only the replay cache and the history of applications matter.
LEMMA SameDeduped ==
    ASSUME NEW s, NEW t, NEW e, Deduped(s, e),
           \A h \in Hooks : h \notin t.bare => h \notin s.bare /\ t.seen[h] = s.seen[h],
           t.since = s.since, t.again = s.again
    PROVE  Deduped(t, e)
BY DEF Deduped, AllProtected, Protected, NotSoon

\* The numbers of the state table.
LEMMA Numbers ==
    ASSUME NEW s \in State, NEW h \in Hooks
    PROVE  /\ SeenTTL \in Nat \ {0} /\ Drift \in 0..SeenTTL /\ None \notin Int
           /\ s.seen[h] \in Age \cup {None}
           /\ s.seen[h] # None => /\ s.seen[h] \in Int
                                  /\ s.seen[h] <= SeenTTL
           /\ s.since[h] \in 0..SeenTTL \cup {None}
           /\ s.since[h] # None => s.since[h] \in 0..SeenTTL
<1>1. h \in Keys
  BY DEF Keys
<1>2. s.seen[h] \in Age \cup {None} /\ s.since[h] \in 0..SeenTTL \cup {None}
  BY <1>1 DEF State
<1>3. SeenTTL \in Nat \ {0} /\ Drift \in 0..SeenTTL /\ None \notin Int
  BY RetryAssumption
<1>4. s.seen[h] # None => s.seen[h] \in Int /\ s.seen[h] <= SeenTTL
  BY <1>2, AgeIsInt
<1> QED  BY <1>2, <1>3, <1>4

\* An application that follows another within SeenTTL does so late enough.
LEMMA AgainLate ==
    ASSUME NEW s \in State, NEW h \in Hooks, NEW age \in Age,
           AllProtected(s, epoch), ~Recent(s, h, age),
           h \notin s.bare, s.since[h] # None, s.since[h] # SeenTTL
    PROVE  epoch /\ s.since[h] > SeenTTL - 2 * Drift
<1>1. Protected(s, epoch, h)
  BY DEF AllProtected
<1>2. /\ SeenTTL \in Nat /\ Drift \in 0..SeenTTL /\ s.since[h] \in 0..SeenTTL
      /\ s.seen[h] # None => s.seen[h] \in Int /\ s.seen[h] <= SeenTTL
  BY Numbers
<1>3. CASE s.seen[h] = None
  BY <1>1, <1>3 DEF Protected
<1>4. CASE s.seen[h] # None
  <2>1. SeenAge(age) \in Int /\ -Drift <= SeenAge(age) /\ (~epoch => SeenAge(age) = 0)
    BY SeenAgeType, AgeIsInt
  <2>2. Max({s.seen[h], 0}) = IF s.seen[h] >= 0 THEN s.seen[h] ELSE 0
    BY <1>2, <1>4, Maximum
  <2>3. ~(Max({s.seen[h], 0}) - SeenAge(age) <= SeenTTL)
    BY <1>4 DEF Recent
  <2>4. epoch
    BY <1>2, <1>4, <2>1, <2>2, <2>3
  <2>5. s.seen[h] <= s.since[h] + Drift
    BY <1>1, <1>4, <2>4 DEF Protected
  <2> QED  BY <1>2, <1>4, <2>1, <2>2, <2>3, <2>4, <2>5
<1> QED  BY <1>3, <1>4

LEMMA ApplyDeduped ==
    ASSUME NEW s \in State, NEW h \in Hooks, NEW age \in Age, NEW gone \in SUBSET Keys,
           Deduped(s, epoch), ~Recent(s, h, age)
    PROVE  Deduped(Apply(s, h, age, gone), epoch)
<1> DEFINE t == Apply(s, h, age, gone)
<1>0. Applied(s, t, h, age, gone)
  BY ApplyEffect
<1>1. /\ t.seen = Without(Marked(s, h, age), gone)
      /\ \A g \in Hooks : t.since[g] = IF g = h THEN 0 ELSE s.since[g]
      /\ \A g \in Hooks : g \notin t.bare =>
            IF g = h THEN g \notin gone /\ SeenAge(age) <= Drift
            ELSE g \notin gone /\ g \notin s.bare
      /\ t.again = IF s.since[h] \in {None, SeenTTL} \/ h \in s.bare THEN s.again
                   ELSE s.again \cup {<<h, s.since[h]>>}
  <2> HIDE DEF t
  <2> QED  BY <1>0 DEF Applied
<1>2. \A g \in Hooks :
         t.seen[g] = IF g \in gone THEN None
                     ELSE IF g # h THEN s.seen[g]
                     ELSE IF SeenAge(age) < SeenTTL THEN SeenAge(age) ELSE None
  <2>1. h \in Keys /\ Hooks \subseteq Keys
    BY DEF Keys
  <2> HIDE DEF t
  <2> QED  BY <1>1, <2>1, CacheType
<1>3. /\ SeenTTL \in Nat \ {0} /\ Drift \in 0..SeenTTL /\ None \notin Int
      /\ SeenAge(age) \in Int /\ SeenAge(age) # None /\ (~epoch => SeenAge(age) = 0)
  BY RetryAssumption, SeenAgeType, AgeIsInt
<1> HIDE DEF t
<1>4. AllProtected(t, epoch)
  <2> SUFFICES ASSUME NEW g \in Hooks, g \notin t.bare, t.since[g] # None
               PROVE  Protected(t, epoch, g)
    BY DEF AllProtected
  <2>1. CASE g = h
    <3>1. t.since[g] = 0 /\ g \notin gone /\ SeenAge(age) <= Drift
      BY <1>1, <2>1
    <3>2. t.seen[g] = IF SeenAge(age) < SeenTTL THEN SeenAge(age) ELSE None
      BY <1>2, <2>1, <3>1
    <3>3. CASE SeenAge(age) < SeenTTL
      <4>1. t.seen[g] = SeenAge(age) /\ t.seen[g] # None
        BY <1>3, <3>2, <3>3
      <4>2. SeenAge(age) <= 0 + (IF epoch THEN Drift ELSE 0)
        BY <1>3, <3>1
      <4> QED  BY <3>1, <4>1, <4>2 DEF Protected
    <3>4. CASE ~(SeenAge(age) < SeenTTL)
      <4>1. t.seen[g] = None
        BY <3>2, <3>4
      <4>2. epoch /\ 0 > SeenTTL - 2 * Drift
        BY <1>3, <3>1, <3>4
      <4> QED  BY <3>1, <4>1, <4>2 DEF Protected
    <3> QED  BY <3>3, <3>4
  <2>2. CASE g # h
    <3>1. g \notin gone /\ g \notin s.bare /\ t.since[g] = s.since[g]
      BY <1>1, <2>2
    <3>2. t.seen[g] = s.seen[g]
      BY <1>2, <2>2, <3>1
    <3>3. Protected(s, epoch, g)
      BY <3>1 DEF Deduped, AllProtected
    <3> QED  BY <3>1, <3>2, <3>3 DEF Protected
  <2> QED  BY <2>1, <2>2
<1>5. NotSoon(t, epoch)
  <2>1. CASE s.since[h] \in {None, SeenTTL} \/ h \in s.bare
    BY <1>1, <2>1 DEF Deduped, NotSoon
  <2>2. CASE ~(s.since[h] \in {None, SeenTTL} \/ h \in s.bare)
    <3>1. epoch /\ s.since[h] > SeenTTL - 2 * Drift
      BY <2>2, AgainLate DEF Deduped
    <3>2. t.again = s.again \cup {<<h, s.since[h]>>}
      BY <1>1, <2>2
    <3> QED  BY <3>1, <3>2 DEF Deduped, NotSoon
  <2> QED  BY <2>1, <2>2
<1> QED  BY <1>4, <1>5 DEF Deduped, t

LEMMA HandledDeduped ==
    ASSUME NEW s \in State, NEW h \in Hooks, NEW age \in Age,
           NEW tried \in 0..RetryMax, NEW answer \in Answers(s, h, age), NEW gone \in SUBSET Keys,
           Deduped(s, epoch)
    PROVE  Deduped(Handled(s, h, age, tried, answer, gone), epoch)
<1> DEFINE t == Handled(s, h, age, tried, answer, gone)
<1>1. tried + 1 \in 1..(RetryMax + 1)
  BY RetryAssumption
<1>2. CASE t = s
  BY <1>2, Zenon
<1>3. CASE \E n \in State : SameButBreaker(s, n) /\ t = Enqueue(n, h, age, tried + 1)
  <2>1. PICK n \in State : SameButBreaker(s, n) /\ t = Enqueue(n, h, age, tried + 1)
    BY <1>3
  <2> DEFINE u == Enqueue(n, h, age, tried + 1)
  <2>2. u.seen = n.seen /\ u.since = n.since /\ u.bare = n.bare /\ u.again = n.again
    BY <1>1, EnqueueEffect
  <2> HIDE DEF u
  <2>3. u.seen = s.seen /\ u.since = s.since /\ u.bare = s.bare /\ u.again = s.again
    BY <2>1, <2>2 DEF SameButBreaker
  <2>4. Deduped(u, epoch)
    BY <2>3, SameDeduped
  <2> QED  BY <2>1, <2>4, Zenon DEF u
<1>4. CASE ~Recent(s, h, age) /\ \E n \in State : SameButBreaker(s, n) /\ t = Apply(n, h, age, gone)
  <2>1. PICK n \in State : SameButBreaker(s, n) /\ t = Apply(n, h, age, gone)
    BY <1>4
  <2>2. ~Recent(n, h, age) /\ Deduped(n, epoch)
    BY <1>4, <2>1, SameDeduped DEF SameButBreaker, Recent
  <2>3. Deduped(Apply(n, h, age, gone), epoch)
    BY <2>2, ApplyDeduped
  <2> QED  BY <2>1, <2>3, Zenon
<1>5. \/ t = s
      \/ \E n \in State : SameButBreaker(s, n) /\ t = Enqueue(n, h, age, tried + 1)
      \/ ~Recent(s, h, age) /\ \E n \in State : SameButBreaker(s, n) /\ t = Apply(n, h, age, gone)
  BY HandledCases
<1> QED  BY <1>2, <1>3, <1>4, <1>5, Zenon

LEMMA AgedDeduped ==
    ASSUME NEW s \in State, NEW e \in BOOLEAN, Deduped(s, e)
    PROVE  Deduped(Aged(s), e)
<1> DEFINE t == Aged(s)
<1>1. /\ t.bare = s.bare /\ t.again = s.again
      /\ \A k \in Keys : t.seen[k] = IF Older(s.seen[k]) = SeenTTL THEN None
                                    ELSE Older(s.seen[k])
      /\ \A h \in Hooks : t.since[h] = Older(s.since[h])
  BY AgedEffect
<1> HIDE DEF t
<1>2. AllProtected(t, e)
  <2> SUFFICES ASSUME NEW h \in Hooks, h \notin t.bare, t.since[h] # None
               PROVE  Protected(t, e, h)
    BY DEF AllProtected
  <2> DEFINE old == s.since[h]
             entry == s.seen[h]
             slack == IF e THEN Drift ELSE 0
  <2>1. /\ SeenTTL \in Nat \ {0} /\ Drift \in 0..SeenTTL /\ None \notin Int
        /\ entry \in Age \cup {None}
        /\ entry # None => entry \in Int /\ entry <= SeenTTL
        /\ old \in 0..SeenTTL \cup {None}
    BY Numbers
  <2>2. old # None /\ old \in 0..SeenTTL /\ old \in Age
    <3>1. Older(None) = None
      BY DEF Older
    <3>2. old # None
      BY <1>1, <3>1
    <3> QED  BY <2>1, <3>2 DEF Age
  <2>3. t.since[h] = IF old < SeenTTL THEN old + 1 ELSE SeenTTL
    BY <1>1, <2>2, OlderAge
  <2>4. Protected(s, e, h)
    BY <1>1, <2>2 DEF Deduped, AllProtected
  <2>5. t.seen[h] = IF Older(entry) = SeenTTL THEN None ELSE Older(entry)
    BY <1>1 DEF Keys
  <2>6. /\ entry # None => Older(entry) = IF entry < SeenTTL THEN entry + 1 ELSE SeenTTL
        /\ entry = None => Older(entry) = None
    BY <2>1, OlderAge
  <2>7. slack \in 0..Drift /\ slack \in Int /\ (~e => slack = 0) /\ (e => slack = Drift)
    BY <2>1
  <2>8. CASE entry = None
    <3>1. t.seen[h] = None
      BY <2>1, <2>5, <2>6, <2>8
    <3>2. old = SeenTTL \/ (e /\ old > SeenTTL - 2 * Drift)
      BY <2>4, <2>8 DEF Protected
    <3>3. t.since[h] = SeenTTL \/ (e /\ t.since[h] > SeenTTL - 2 * Drift)
      <4> HIDE DEF old, entry
      <4> QED  BY <2>1, <2>2, <2>3, <3>2
    <3> QED  BY <3>1, <3>3 DEF Protected
  <2>9. CASE entry # None /\ entry + 1 < SeenTTL
    <3>1. t.seen[h] = entry + 1 /\ t.seen[h] # None
      <4> HIDE DEF entry
      <4> QED  BY <2>1, <2>5, <2>6, <2>9
    <3>2. entry <= old + slack
      BY <2>4, <2>9 DEF Protected
    <3>3. t.seen[h] <= t.since[h] + slack
      <4> HIDE DEF old, entry, slack
      <4> QED  BY <2>1, <2>2, <2>3, <2>7, <2>9, <3>1, <3>2
    <3> QED  BY <3>1, <3>3 DEF Protected
  <2>10. CASE entry # None /\ ~(entry + 1 < SeenTTL)
    <3>1. t.seen[h] = None
      <4> HIDE DEF entry
      <4> QED  BY <2>1, <2>5, <2>6, <2>10
    <3>2. entry <= old + slack
      BY <2>4, <2>10 DEF Protected
    <3>3. t.since[h] = SeenTTL \/ (e /\ t.since[h] > SeenTTL - 2 * Drift)
      <4> HIDE DEF old, entry, slack
      <4>1. CASE e
        BY <4>1, <2>1, <2>2, <2>3, <2>7, <2>10, <3>2
      <4>2. CASE ~e
        BY <4>2, <2>1, <2>2, <2>3, <2>7, <2>10, <3>2
      <4> QED  BY <4>1, <4>2
    <3> QED  BY <3>1, <3>3 DEF Protected
  <2> QED  BY <2>8, <2>9, <2>10
<1>3. NotSoon(t, e)
  BY <1>1 DEF Deduped, NotSoon
<1> QED  BY <1>2, <1>3 DEF Deduped, t

LEMMA FreshDeduped == \A e : Deduped(Fresh, e)
BY DEF Fresh, Deduped, AllProtected, NotSoon

LEMMA InitDedup == Init => DedupInv
<1> SUFFICES ASSUME Init PROVE DedupInv
  OBVIOUS
<1>1. TypeOK
  BY InitType
<1>2. st = Fresh /\ snap = Fresh
  BY DEF Init
<1> QED  BY <1>1, <1>2, FreshDeduped DEF DedupInv

LEMMA NextDedup == DedupInv /\ [Next]_vars => DedupInv'
<1> SUFFICES ASSUME DedupInv, [Next]_vars PROVE DedupInv'
  OBVIOUS
<1>1. TypeOK /\ TypeOK' /\ st \in State /\ snap \in State
  BY NextType DEF DedupInv, TypeOK
<1>2. Deduped(st, epoch) /\ Deduped(snap, epoch)
  BY DEF DedupInv
<1> SUFFICES Deduped(st', epoch') /\ Deduped(snap', epoch')
  BY <1>1 DEF DedupInv
<1>3. CASE Tick
  BY <1>1, <1>2, <1>3, AgedDeduped DEF Tick, TypeOK
<1>4. ASSUME NEW h \in Hooks, Deliver(h)
      PROVE  Deduped(st', epoch') /\ Deduped(snap', epoch')
  <2>1. PICK age \in Age : \E answer \in Answers(st, h, age), gone \in SUBSET Keys :
           st' = Handled(st, h, age, 0, answer, gone)
    BY <1>1, <1>4, DeliverParts
  <2>2. PICK answer \in Answers(st, h, age), gone \in SUBSET Keys :
           st' = Handled(st, h, age, 0, answer, gone)
    BY <2>1
  <2>3. 0 \in 0..RetryMax
    BY RetryAssumption
  <2>4. Deduped(Handled(st, h, age, 0, answer, gone), epoch)
    BY <1>1, <1>2, <2>3, HandledDeduped
  <2>5. snap' = st' /\ epoch' = epoch
    BY <1>4, Zenon DEF Deliver
  <2> QED  BY <2>2, <2>4, <2>5, Zenon
<1>5. ASSUME NEW h \in Hooks, Track(h)
      PROVE  Deduped(st', epoch') /\ Deduped(snap', epoch')
  <2>1. Deduped(st', epoch)
    BY <1>1, <1>2, <1>5, TrackState, SameDeduped
  <2> QED  BY <1>5, <2>1 DEF Track
<1>6. CASE RunStart
  <2>1. Deduped(st', epoch)
    BY <1>1, <1>2, <1>6, RunStartState, SameDeduped
  <2> QED  BY <1>2, <1>6, <2>1 DEF RunStart
<1>7. CASE PutBack
  <2>1. Deduped(st', epoch)
    BY <1>1, <1>2, <1>7, PutBackState, SameDeduped
  <2> QED  BY <1>2, <1>7, <2>1 DEF PutBack
<1>8. CASE Retry
  <2> DEFINE job == Head(batch)
  <2>1. PICK answer \in Answers(st, job.hook, job.age), gone \in SUBSET Keys, after \in State :
          /\ after = Handled(st, job.hook, job.age, job.attempts, answer, gone)
          /\ \/ Succeeds(st, job.hook, answer) /\ st' = after
             \/ /\ ~Succeeds(st, job.hook, answer)
                /\ st' = Enqueue(after, job.hook, job.age, job.attempts + 1)
          /\ snap' = st' \/ snap' = after \/ snap' = snap
    BY <1>1, <1>8, RetryParts
  <2>2. /\ job.hook \in Hooks /\ job.age \in Age /\ job.attempts \in 0..RetryMax
        /\ job.attempts + 1 \in 1..(RetryMax + 1)
    BY <1>1, <1>8, HeadOfBatch DEF Retry
  <2> HIDE DEF job
  <2>3. Deduped(after, epoch)
    BY <1>1, <1>2, <2>1, <2>2, HandledDeduped, Zenon
  <2>4. Deduped(Enqueue(after, job.hook, job.age, job.attempts + 1), epoch)
    <3> DEFINE u == Enqueue(after, job.hook, job.age, job.attempts + 1)
    <3>1. /\ u.seen = after.seen /\ u.since = after.since
          /\ u.bare = after.bare /\ u.again = after.again
      BY <2>2, EnqueueEffect
    <3> HIDE DEF u
    <3>2. Deduped(u, epoch)
      BY <2>3, <3>1, SameDeduped
    <3> QED  BY <3>2 DEF u
  <2>5. Deduped(st', epoch)
    BY <2>1, <2>3, <2>4, Zenon
  <2>6. Deduped(snap', epoch)
    BY <1>2, <2>1, <2>3, <2>5, Zenon
  <2> QED  BY <1>8, <2>5, <2>6 DEF Retry
<1>9. CASE RunEnd
  BY <1>2, <1>9 DEF RunEnd
<1>10. CASE CrashSaved \/ CrashTorn
  BY <1>2, <1>10, FreshDeduped DEF CrashSaved, CrashTorn
<1>11. ASSUME NEW o \in Others, OtherHook(o)
       PROVE  Deduped(st', epoch') /\ Deduped(snap', epoch')
  <2>1. Deduped(st', epoch)
    BY <1>1, <1>2, <1>11, OtherHookState, SameDeduped
  <2> QED  BY <1>11, <2>1 DEF OtherHook
<1>12. CASE UNCHANGED vars
  BY <1>2, <1>12 DEF vars
<1> QED  BY <1>3, <1>4, <1>5, <1>6, <1>7, <1>8, <1>9, <1>10, <1>11, <1>12 DEF Next

\* Once applied by a command no older than Drift, a hook whose entry is not
\* dropped for want of space is not applied again before SeenTTL - 2 * Drift
\* has passed, and with ISO timestamps not within SeenTTL.
THEOREM PromptIsDeduped == Spec => []DedupedIfPrompt
<1>1. DedupInv => DedupedIfPrompt
  BY DEF DedupInv, Deduped, NotSoon, DedupedIfPrompt
<1> QED  BY <1>1, InitDedup, NextDedup, PTL DEF Spec

-----------------------------------------------------------------------------
(* The cost of a delivery is bounded. *)

\* What a job of n attempts may still leave in the dead-letter queue.
Share(hook, n, h) == IF hook = h THEN 2 ^ (RetryMax + 1 - n) ELSE 0

LEMMA ShareType ==
    ASSUME NEW hook, NEW n \in 1..(RetryMax + 1), NEW h
    PROVE  /\ Share(hook, n, h) \in Nat
           /\ hook = h => Share(hook, n, h) >= 1
           /\ n = 1 /\ hook = h => Share(hook, n, h) = 2 ^ RetryMax
           /\ Share(hook, n, h) <= 2 ^ RetryMax
           /\ 2 ^ RetryMax \in Nat
<1>1. RetryMax + 1 - n \in Nat /\ RetryMax \in Nat /\ RetryMax + 1 - n <= RetryMax
  BY RetryAssumption
<1>2. /\ 2 ^ (RetryMax + 1 - n) \in Nat /\ 2 ^ RetryMax \in Nat
      /\ 2 ^ (RetryMax + 1 - n) <= 2 ^ RetryMax
  BY <1>1, PowerIsCount, PowerMonotonic
<1>3. 2 ^ (RetryMax + 1 - n) >= 1
  <2>1. 0 \in Nat /\ 0 <= RetryMax + 1 - n
    BY <1>1
  <2>2. 2 ^ 0 <= 2 ^ (RetryMax + 1 - n)
    BY <1>1, <2>1, PowerMonotonic
  <2> DEFINE p == 2 ^ (RetryMax + 1 - n)
  <2>3. 1 <= p
    BY <2>2, PowerOfZero, Zenon
  <2>4. p \in Nat
    BY <1>2
  <2> HIDE DEF p
  <2>5. p >= 1
    BY <2>3, <2>4
  <2> QED  BY <2>5 DEF p
<1>4. n = 1 => 2 ^ (RetryMax + 1 - n) = 2 ^ RetryMax
  <2>1. n = 1 => RetryMax + 1 - n = RetryMax
    BY <1>1
  <2> QED  BY <2>1, Zenon
<1> DEFINE p == 2 ^ (RetryMax + 1 - n)
           q == 2 ^ RetryMax
<1>5. p \in Nat /\ q \in Nat /\ p <= q /\ p >= 1 /\ (n = 1 => p = q)
  BY <1>2, <1>3, <1>4, Zenon
<1>6. Share(hook, n, h) = IF hook = h THEN p ELSE 0
  BY DEF Share
<1> HIDE DEF p, q
<1>7. /\ Share(hook, n, h) \in Nat
      /\ hook = h => Share(hook, n, h) >= 1
      /\ n = 1 /\ hook = h => Share(hook, n, h) = q
      /\ Share(hook, n, h) <= q
      /\ q \in Nat
  BY <1>5, <1>6
<1> QED  BY <1>7, Zenon DEF q

\* Two jobs with one more attempt are worth the job they came from.
LEMMA ShareHalves ==
    ASSUME NEW hook, NEW n \in 1..RetryMax, NEW h
    PROVE  Share(hook, n, h) = Share(hook, n + 1, h) + Share(hook, n + 1, h)
<1> DEFINE k == RetryMax - n
           p == 2 ^ k
<1>1. k \in Nat /\ RetryMax + 1 - n = k + 1 /\ RetryMax + 1 - (n + 1) = k
  BY RetryAssumption
<1>2. 2 ^ (k + 1) = p + p /\ p \in Nat
  BY <1>1, PowerDoubles, PowerIsCount
<1>3. 2 ^ (RetryMax + 1 - n) = p + p /\ 2 ^ (RetryMax + 1 - (n + 1)) = p
  BY <1>1, <1>2, Zenon
<1> HIDE DEF p
<1> QED  BY <1>2, <1>3 DEF Share

LEMMA HeirsFinite ==
    ASSUME NEW q \in Seq(Job), NEW h
    PROVE  IsFiniteSet(Heirs(q, h)) /\ Cardinality(Heirs(q, h)) \in Nat
<1>1. Len(q) \in Nat /\ DOMAIN q = 1..Len(q)
  BY LenProperties
<1>2. 2 ^ RetryMax \in Nat
  BY RetryAssumption, PowerIsCount
<1>3. IsFiniteSet(1..Len(q)) /\ IsFiniteSet(1..2 ^ RetryMax)
  BY <1>1, <1>2, FS_Interval
<1>4. IsFiniteSet((DOMAIN q) \X (1..2 ^ RetryMax))
  BY <1>1, <1>3, FS_Product
<1>5. Heirs(q, h) \subseteq (DOMAIN q) \X (1..2 ^ RetryMax)
  BY DEF Heirs
<1>6. IsFiniteSet(Heirs(q, h))
  BY <1>4, <1>5, FS_Subset
<1> QED  BY <1>6, FS_CardinalityType

LEMMA HeirsEmpty ==
    ASSUME NEW h
    PROVE  Cardinality(Heirs(<<>>, h)) = 0
<1>1. Heirs(<<>>, h) = {}
  BY DEF Heirs
<1> QED  BY <1>1, FS_EmptySet

LEMMA HeirsOne ==
    ASSUME NEW job \in Job, NEW h
    PROVE  Cardinality(Heirs(<<job>>, h)) = Share(job.hook, job.attempts, h)
<1> DEFINE w == Share(job.hook, job.attempts, h)
           B == 2 ^ RetryMax
<1>1. job.attempts \in 1..(RetryMax + 1)
  BY RetryAssumption DEF Job
<1>2. w \in Nat /\ w <= B /\ B \in Nat
  BY <1>1, ShareType
<1>3. Heirs(<<job>>, h) = {1} \X (1..w)
  <2>1. CASE job.hook = h
    <3>1. w = 2 ^ (RetryMax + 1 - job.attempts)
      BY <2>1 DEF Share
    <3> HIDE DEF w, B
    <3>2. Heirs(<<job>>, h) = {e \in (DOMAIN <<job>>) \X (1..B) :
                                 <<job>>[e[1]].hook = h
                                   /\ e[2] <= 2 ^ (RetryMax + 1 - <<job>>[e[1]].attempts)}
      BY DEF Heirs, B
    <3>3. DOMAIN <<job>> = {1} /\ <<job>>[1] = job
      OBVIOUS
    <3>4. ASSUME NEW e \in {1} \X (1..B)
          PROVE  <<job>>[e[1]] = job
      BY <3>3
    <3>5. Heirs(<<job>>, h) = {e \in {1} \X (1..B) : e[2] <= w}
      BY <2>1, <3>1, <3>2, <3>3, <3>4
    <3> QED  BY <1>2, <3>5
  <2>2. CASE job.hook # h
    <3>1. w = 0
      BY <2>2 DEF Share
    <3> HIDE DEF w
    <3>2. Heirs(<<job>>, h) = {}
      BY <2>2 DEF Heirs
    <3>3. 1..w = {}
      BY <3>1
    <3> QED  BY <3>2, <3>3
  <2> QED  BY <2>1, <2>2
<1> HIDE DEF w, B
<1>4. IsFiniteSet({1}) /\ Cardinality({1}) = 1
  BY FS_Singleton
<1>5. IsFiniteSet(1..w) /\ Cardinality(1..w) = w
  BY <1>2, FS_Interval
<1>6. Cardinality({1} \X (1..w)) = 1 * w
  <2>1. Cardinality({1} \X (1..w)) = Cardinality({1}) * Cardinality(1..w)
    BY <1>4, <1>5, FS_Product
  <2> QED  BY <1>4, <1>5, <2>1, Zenon
<1>7. 1 * w = w
  BY <1>2
<1> QED  BY <1>3, <1>6, <1>7 DEF w

LEMMA HeirsConcat ==
    ASSUME NEW q \in Seq(Job), NEW r \in Seq(Job), NEW h
    PROVE  Cardinality(Heirs(q \o r, h))
             = Cardinality(Heirs(q, h)) + Cardinality(Heirs(r, h))
<1> DEFINE n == Len(q)
           m == Len(r)
           B == 2 ^ RetryMax
           Fits(job, k) == job.hook = h /\ k <= 2 ^ (RetryMax + 1 - job.attempts)
           F == [e \in Heirs(r, h) |-> <<e[1] + n, e[2]>>]
           Shifted == {<<e[1] + n, e[2]>> : e \in Heirs(r, h)}
<1>1. n \in Nat /\ m \in Nat /\ DOMAIN q = 1..n /\ DOMAIN r = 1..m
  BY LenProperties
<1>2. /\ DOMAIN (q \o r) = 1..(n + m)
      /\ \A i \in 1..n : (q \o r)[i] = q[i]
      /\ \A i \in 1..m : (q \o r)[i + n] = r[i]
  <2>1. q \o r \in Seq(Job) /\ Len(q \o r) = n + m
    BY ConcatProperties
  <2>2. \A i \in 1..(n + m) : (q \o r)[i] = IF i <= n THEN q[i] ELSE r[i - n]
    BY ConcatProperties
  <2>3. DOMAIN (q \o r) = 1..(n + m)
    BY <2>1, LenProperties
  <2>4. \A i \in 1..m : (q \o r)[i + n] = r[i]
    <3> SUFFICES ASSUME NEW i \in 1..m PROVE (q \o r)[i + n] = r[i]
      OBVIOUS
    <3> HIDE DEF n, m
    <3>1. i + n \in 1..(n + m) /\ ~(i + n <= n) /\ (i + n) - n = i
      BY <1>1
    <3>2. (q \o r)[i + n] = r[(i + n) - n]
      BY <2>2, <3>1
    <3> QED  BY <3>1, <3>2, Zenon
  <2>5. \A i \in 1..n : (q \o r)[i] = q[i]
    <3> HIDE DEF n, m
    <3> QED  BY <1>1, <2>2
  <2> QED  BY <2>3, <2>4, <2>5
<1>3. \A s, e : e \in Heirs(s, h) <=> /\ e \in (DOMAIN s) \X (1..B)
                                    /\ Fits(s[e[1]], e[2])
  BY Zenon DEF Heirs
<1> DEFINE c == q \o r
<1> HIDE DEF c, n, m, B, Fits
<1>4. Heirs(c, h) = Heirs(q, h) \cup Shifted
  <2>1. ASSUME NEW e \in Heirs(c, h)
        PROVE  e \in Heirs(q, h) \cup Shifted
    <3>1. e \in (1..(n + m)) \X (1..B) /\ Fits(c[e[1]], e[2])
      BY <1>2, <1>3 DEF c
    <3>2. CASE e[1] <= n
      <4>1. e[1] \in 1..n /\ e \in (1..n) \X (1..B)
        BY <1>1, <3>1, <3>2
      <4>2. Fits(q[e[1]], e[2])
        BY <1>2, <3>1, <4>1 DEF c
      <4> QED  BY <1>1, <1>3, <4>1, <4>2
    <3>3. CASE ~(e[1] <= n)
      <4> DEFINE d == <<e[1] - n, e[2]>>
      <4>1. d \in (1..m) \X (1..B) /\ d[1] \in 1..m /\ d[1] + n = e[1] /\ d[2] = e[2]
        BY <1>1, <3>1, <3>3
      <4>2. Fits(r[d[1]], d[2])
        BY <1>2, <3>1, <4>1 DEF c
      <4> HIDE DEF d
      <4>3. d \in Heirs(r, h)
        BY <1>1, <1>3, <4>1, <4>2
      <4>4. e = <<d[1] + n, d[2]>>
        BY <3>1, <4>1
      <4> QED  BY <4>3, <4>4
    <3> QED  BY <3>2, <3>3
  <2>2. ASSUME NEW e \in Heirs(q, h)
        PROVE  e \in Heirs(c, h)
    <3>1. e \in (1..n) \X (1..B) /\ Fits(q[e[1]], e[2])
      BY <1>1, <1>3
    <3>2. e \in (1..(n + m)) \X (1..B) /\ e[1] \in 1..n
      BY <1>1, <3>1
    <3>3. Fits(c[e[1]], e[2])
      BY <1>2, <3>1, <3>2 DEF c
    <3> QED  BY <1>2, <1>3, <3>2, <3>3 DEF c
  <2>3. ASSUME NEW d \in Heirs(r, h)
        PROVE  <<d[1] + n, d[2]>> \in Heirs(c, h)
    <3> DEFINE e == <<d[1] + n, d[2]>>
    <3>1. d \in (1..m) \X (1..B) /\ Fits(r[d[1]], d[2])
      BY <1>1, <1>3
    <3>2. e \in (1..(n + m)) \X (1..B) /\ e[1] = d[1] + n /\ e[2] = d[2]
      BY <1>1, <3>1
    <3>3. d[1] \in 1..m
      BY <3>1
    <3>4. Fits(c[e[1]], e[2])
      BY <1>2, <3>1, <3>2, <3>3 DEF c
    <3> HIDE DEF e
    <3>5. e \in Heirs(c, h)
      BY <1>2, <1>3, <3>2, <3>4 DEF c
    <3> QED  BY <3>5 DEF e
  <2> QED  BY <2>1, <2>2, <2>3
<1>5. Heirs(q, h) \cap Shifted = {}
  <2> SUFFICES ASSUME NEW d \in Heirs(r, h), <<d[1] + n, d[2]>> \in Heirs(q, h)
               PROVE  FALSE
    OBVIOUS
  <2>1. d[1] \in 1..m /\ d[1] + n \in 1..n
    BY <1>1, <1>3
  <2> QED  BY <1>1, <2>1
<1>6. F \in Bijection(Heirs(r, h), Shifted)
  <2>1. F \in Surjection(Heirs(r, h), Shifted)
    BY DEF Surjection
  <2>2. \A d, e \in Heirs(r, h) : F[d] = F[e] => d = e
    <3> SUFFICES ASSUME NEW d \in Heirs(r, h), NEW e \in Heirs(r, h),
                        <<d[1] + n, d[2]>> = <<e[1] + n, e[2]>>
                 PROVE  d = e
      OBVIOUS
    <3>1. d \in (1..m) \X (1..B) /\ e \in (1..m) \X (1..B)
      BY <1>1, <1>3
    <3>2. d[1] = e[1] /\ d[2] = e[2]
      BY <1>1, <3>1
    <3> QED  BY <3>1, <3>2
  <2> QED  BY <2>1, <2>2 DEF Bijection, Injection, Surjection, IsInjective
<1>7. IsFiniteSet(Heirs(q, h)) /\ Cardinality(Heirs(q, h)) \in Nat
  BY HeirsFinite
<1>8. IsFiniteSet(Heirs(r, h)) /\ Cardinality(Heirs(r, h)) \in Nat
  BY HeirsFinite
<1>9. IsFiniteSet(Shifted) /\ Cardinality(Shifted) = Cardinality(Heirs(r, h))
  BY <1>6, <1>8, FS_Bijection, Zenon DEF ExistsBijection
<1> HIDE DEF Shifted
<1>10. Cardinality(Heirs(q, h) \cup Shifted)
         = Cardinality(Heirs(q, h)) + Cardinality(Shifted) - Cardinality({})
  BY <1>5, <1>7, <1>9, FS_Union
<1>11. Cardinality(Heirs(c, h)) = Cardinality(Heirs(q, h)) + Cardinality(Heirs(r, h))
  BY <1>4, <1>7, <1>8, <1>9, <1>10, FS_EmptySet
<1> QED  BY <1>11 DEF c

LEMMA HeirsAppend ==
    ASSUME NEW q \in Seq(Job), NEW job \in Job, NEW h
    PROVE  Cardinality(Heirs(Append(q, job), h))
             = Cardinality(Heirs(q, h)) + Share(job.hook, job.attempts, h)
<1>1. <<job>> \in Seq(Job)
  OBVIOUS
<1>2. Append(q, job) = q \o <<job>>
  BY AppendIsConcat
<1>3. Cardinality(Heirs(q \o <<job>>, h))
        = Cardinality(Heirs(q, h)) + Cardinality(Heirs(<<job>>, h))
  BY <1>1, HeirsConcat
<1> QED  BY <1>2, <1>3, HeirsOne

LEMMA HeirsTail ==
    ASSUME NEW q \in Seq(Job), q # <<>>, NEW h
    PROVE  Cardinality(Heirs(q, h))
             = Share(Head(q).hook, Head(q).attempts, h) + Cardinality(Heirs(Tail(q), h))
<1>1. Head(q) \in Job /\ Tail(q) \in Seq(Job) /\ <<Head(q)>> \in Seq(Job)
  BY HeadTailProperties
<1>2. q = <<Head(q)>> \o Tail(q)
  <2> DEFINE r == <<Head(q)>> \o Tail(q)
  <2>1. /\ Len(q) \in Nat /\ Len(q) > 0 /\ Len(Tail(q)) = Len(q) - 1
        /\ \A i \in 1..Len(Tail(q)) : Tail(q)[i] = q[i + 1]
        /\ Head(q) = q[1]
    BY HeadTailProperties, EmptySeq
  <2>2. /\ r \in Seq(Job) /\ Len(r) = 1 + Len(Tail(q))
        /\ \A i \in 1..(1 + Len(Tail(q))) :
              r[i] = IF i <= 1 THEN <<Head(q)>>[i] ELSE Tail(q)[i - 1]
    <3>1. Len(<<Head(q)>>) = 1
      OBVIOUS
    <3> QED  BY <1>1, <3>1, ConcatProperties
  <2> HIDE DEF r
  <2>3. ASSUME NEW i \in 1..Len(q)
        PROVE  r[i] = q[i]
    <3>1. CASE i = 1
      <4>1. r[1] = <<Head(q)>>[1]
        BY <2>1, <2>2
      <4> QED  BY <2>1, <3>1, <4>1
    <3>2. CASE i # 1
      <4>1. i - 1 \in 1..Len(Tail(q)) /\ (i - 1) + 1 = i /\ ~(i <= 1)
            /\ i \in 1..(1 + Len(Tail(q)))
        BY <2>1, <3>2
      <4>2. r[i] = Tail(q)[i - 1] /\ Tail(q)[i - 1] = q[(i - 1) + 1]
        BY <2>1, <2>2, <4>1
      <4> QED  BY <4>1, <4>2, Zenon
    <3> QED  BY <3>1, <3>2
  <2>4. Len(r) = Len(q)
    BY <2>1, <2>2
  <2>5. r = q
    BY <2>2, <2>3, <2>4, SeqEqual
  <2> QED  BY <2>5 DEF r
<1>3. Cardinality(Heirs(<<Head(q)>> \o Tail(q), h))
        = Cardinality(Heirs(<<Head(q)>>, h)) + Cardinality(Heirs(Tail(q), h))
  BY <1>1, HeirsConcat
<1>4. Cardinality(Heirs(<<Head(q)>>, h)) = Share(Head(q).hook, Head(q).attempts, h)
  BY <1>1, HeirsOne
<1> QED  BY <1>2, <1>3, <1>4, Zenon

\* What the jobs in the queue and the dead letters of h amount to.
Load(s, h) == Cardinality(Heirs(s.queue, h)) + s.dlq[h]

LEMMA LoadType ==
    ASSUME NEW s \in State, NEW h \in Hooks
    PROVE  Load(s, h) \in Nat
<1>1. s.queue \in Seq(Job) /\ s.dlq[h] \in Nat
  BY DEF State
<1> QED  BY <1>1, HeirsFinite DEF Load

LEMMA EnqueueLoad ==
    ASSUME NEW s \in State, NEW h \in Hooks, NEW age \in Age,
           NEW attempt \in 1..(RetryMax + 1), NEW g \in Hooks
    PROVE  Load(Enqueue(s, h, age, attempt), g) <= Load(s, g) + Share(h, attempt, g)
<1> DEFINE t == Enqueue(s, h, age, attempt)
           job == Entry(h, age, attempt)
           w == Share(h, attempt, g)
<1>1. s.queue \in Seq(Job) /\ s.dlq \in [Hooks -> Nat]
  BY DEF State
<1>2. w \in Nat /\ (h = g => w >= 1)
  BY ShareType
<1>3. Cardinality(Heirs(s.queue, g)) \in Nat
  BY <1>1, HeirsFinite
<1>4. CASE t.queue = s.queue /\ t.dlq = [s.dlq EXCEPT ![h] = @ + 1]
  <2> HIDE DEF t, w
  <2>1. t.dlq[g] = IF g = h THEN s.dlq[g] + 1 ELSE s.dlq[g]
    BY <1>1, <1>4
  <2>2. Load(t, g) <= Load(s, g) + w
    BY <1>1, <1>2, <1>3, <1>4, <2>1 DEF Load
  <2> QED  BY <2>2 DEF t, w
<1>5. CASE attempt <= RetryMax /\ t.queue = Append(s.queue, job) /\ t.dlq = s.dlq
  <2>1. attempt \in 1..RetryMax
    BY <1>5, RetryAssumption
  <2>2. job \in Job /\ job.hook = h /\ job.attempts = attempt
    BY <2>1, EntryType DEF Entry
  <2> HIDE DEF t, job
  <2>3. Cardinality(Heirs(Append(s.queue, job), g))
          = Cardinality(Heirs(s.queue, g)) + Share(job.hook, job.attempts, g)
    BY <1>1, <2>2, HeirsAppend
  <2>4. Cardinality(Heirs(t.queue, g)) = Cardinality(Heirs(s.queue, g)) + w
    BY <1>5, <2>2, <2>3, Zenon
  <2> HIDE DEF w
  <2>5. Load(t, g) <= Load(s, g) + w
    BY <1>1, <1>2, <1>3, <1>5, <2>4 DEF Load
  <2> QED  BY <2>5 DEF t, w
<1>6. \/ t.queue = s.queue /\ t.dlq = [s.dlq EXCEPT ![h] = @ + 1]
      \/ attempt <= RetryMax /\ t.queue = Append(s.queue, job) /\ t.dlq = s.dlq
  BY EnqueueEffect
<1> QED  BY <1>4, <1>5, <1>6, Zenon

LEMMA HandledLoad ==
    ASSUME NEW s \in State, NEW h \in Hooks, NEW age \in Age,
           NEW tried \in 0..RetryMax, NEW answer \in Answers(s, h, age),
           NEW gone \in SUBSET Keys, NEW g \in Hooks
    PROVE  /\ Load(Handled(s, h, age, tried, answer, gone), g)
                <= Load(s, g) + Share(h, tried + 1, g)
           /\ Succeeds(s, h, answer)
                => Load(Handled(s, h, age, tried, answer, gone), g) = Load(s, g)
<1> DEFINE t == Handled(s, h, age, tried, answer, gone)
           w == Share(h, tried + 1, g)
<1>1. tried + 1 \in 1..(RetryMax + 1)
  BY RetryAssumption
<1>2. w \in Nat /\ Load(s, g) \in Nat
  BY <1>1, ShareType, LoadType
<1> HIDE DEF w
<1>3. Load(s, g) <= Load(s, g) + w
  BY <1>2
<1>4. CASE t = s
  BY <1>3, <1>4, Zenon DEF w
<1>5. CASE /\ ~Succeeds(s, h, answer)
           /\ \E n \in State : SameButBreaker(s, n) /\ t = Enqueue(n, h, age, tried + 1)
  <2>1. PICK n \in State : SameButBreaker(s, n) /\ t = Enqueue(n, h, age, tried + 1)
    BY <1>5
  <2>2. Load(n, g) = Load(s, g)
    BY <2>1 DEF SameButBreaker, Load
  <2>3. Load(Enqueue(n, h, age, tried + 1), g) <= Load(n, g) + w
    BY <1>1, EnqueueLoad DEF w
  <2> QED  BY <1>5, <2>1, <2>2, <2>3, Zenon DEF w
<1>6. CASE \E n \in State : SameButBreaker(s, n) /\ t = Apply(n, h, age, gone)
  <2>1. PICK n \in State : SameButBreaker(s, n) /\ t = Apply(n, h, age, gone)
    BY <1>6
  <2> DEFINE u == Apply(n, h, age, gone)
  <2>0. Applied(n, u, h, age, gone)
    BY ApplyEffect
  <2> HIDE DEF u
  <2>2. u.queue = n.queue /\ u.dlq = n.dlq
    BY <2>0 DEF Applied
  <2>3. Load(u, g) = Load(s, g)
    BY <2>1, <2>2 DEF SameButBreaker, Load
  <2>4. Load(t, g) = Load(s, g)
    BY <2>1, <2>3, Zenon DEF u
  <2> QED  BY <1>3, <2>4, Zenon DEF w
<1>7. \/ t = s
      \/ /\ ~Succeeds(s, h, answer)
         /\ \E n \in State : SameButBreaker(s, n) /\ t = Enqueue(n, h, age, tried + 1)
      \/ \E n \in State : SameButBreaker(s, n) /\ t = Apply(n, h, age, gone)
  BY HandledCases
<1> QED  BY <1>4, <1>5, <1>6, <1>7, Zenon

LEMMA AgedLoad ==
    ASSUME NEW s \in State, NEW h \in Hooks
    PROVE  Load(Aged(s), h) = Load(s, h)
<1> DEFINE t == Aged(s)
<1>1. /\ t \in State /\ Len(t.queue) = Len(s.queue) /\ t.dlq = s.dlq
      /\ \A i \in 1..Len(s.queue) : t.queue[i] = AgedJob(s.queue[i])
  BY AgedEffect
<1> HIDE DEF t
<1>2. s.queue \in Seq(Job) /\ t.queue \in Seq(Job)
  BY <1>1 DEF State
<1>3. DOMAIN t.queue = DOMAIN s.queue
  BY <1>1, <1>2, LenProperties
<1>4. \A i \in DOMAIN s.queue : /\ t.queue[i].hook = s.queue[i].hook
                               /\ t.queue[i].attempts = s.queue[i].attempts
  <2>1. DOMAIN s.queue = 1..Len(s.queue) /\ \A i \in 1..Len(s.queue) : s.queue[i] \in Job
    BY <1>2, LenProperties
  <2> QED  BY <1>1, <2>1, AgedJobType
<1>5. Heirs(t.queue, h) = Heirs(s.queue, h)
  BY <1>3, <1>4 DEF Heirs
<1> QED  BY <1>1, <1>5 DEF Load, t

\* What the deliveries of h allow.
Allowed(n) == n * 2 ^ RetryMax

LEMMA OneMoreAllowed ==
    ASSUME NEW n \in Nat
    PROVE  Allowed(n) \in Nat /\ Allowed(n + 1) = Allowed(n) + 2 ^ RetryMax
<1> DEFINE p == 2 ^ RetryMax
<1>1. p \in Nat
  BY RetryAssumption, PowerIsCount
<1>2. Allowed(n) = n * p /\ Allowed(n + 1) = (n + 1) * p
  BY DEF Allowed
<1> HIDE DEF p
<1>3. Allowed(n) \in Nat /\ Allowed(n + 1) = Allowed(n) + p
  BY <1>1, <1>2
<1> QED  BY <1>3 DEF p

\* Stated for the saved table too: it misses the jobs of the run.
CostInv ==
    /\ TypeOK
    /\ \A h \in Hooks :
          /\ Load(st, h) + Cardinality(Heirs(batch, h)) <= Allowed(deliveries[h])
          /\ Load(snap, h) <= Allowed(deliveries[h])

LEMMA InitCost == Init => CostInv
<1> SUFFICES ASSUME Init PROVE CostInv
  OBVIOUS
<1>1. TypeOK
  BY InitType
<1>2. ASSUME NEW h \in Hooks
      PROVE  /\ Load(st, h) + Cardinality(Heirs(batch, h)) <= Allowed(deliveries[h])
             /\ Load(snap, h) <= Allowed(deliveries[h])
  <2>1. st.queue = <<>> /\ batch = <<>> /\ st.dlq[h] = 0 /\ snap = st /\ deliveries[h] = 0
    BY DEF Init, Fresh
  <2>2. Cardinality(Heirs(<<>>, h)) = 0
    BY HeirsEmpty
  <2>3. Load(st, h) = 0 /\ Load(snap, h) = 0 /\ Cardinality(Heirs(batch, h)) = 0
    BY <2>1, <2>2 DEF Load
  <2>4. Allowed(deliveries[h]) \in Nat
    BY <2>1, OneMoreAllowed
  <2> QED  BY <2>3, <2>4
<1> QED  BY <1>1, <1>2 DEF CostInv

LEMMA NextCost == CostInv /\ [Next]_vars => CostInv'
<1> SUFFICES ASSUME CostInv, [Next]_vars PROVE CostInv'
  OBVIOUS
<1>1. TypeOK /\ TypeOK'
  BY NextType DEF CostInv
<1>2. /\ st \in State /\ snap \in State /\ batch \in Seq(Job)
      /\ st.queue \in Seq(Job)
      /\ st' \in State /\ snap' \in State /\ batch' \in Seq(Job)
      /\ st'.queue \in Seq(Job)
  BY <1>1 DEF TypeOK, State
<1> DEFINE A(h) == Allowed(deliveries[h])
           C(h) == Cardinality(Heirs(batch, h))
           D(h) == Cardinality(Heirs(batch', h))
<1>3. ASSUME NEW h \in Hooks
      PROVE  /\ A(h) \in Nat /\ C(h) \in Nat /\ D(h) \in Nat
             /\ Load(st, h) \in Nat /\ Load(st', h) \in Nat
             /\ Load(snap, h) \in Nat /\ Load(snap', h) \in Nat
             /\ Load(st, h) + C(h) <= A(h) /\ Load(snap, h) <= A(h)
  <2>1. deliveries[h] \in Nat
    BY <1>1, RetryAssumption DEF TypeOK
  <2>2. A(h) \in Nat
    BY <2>1, OneMoreAllowed
  <2>3. C(h) \in Nat /\ D(h) \in Nat
    BY <1>2, HeirsFinite
  <2>4. /\ Load(st, h) \in Nat /\ Load(st', h) \in Nat
        /\ Load(snap, h) \in Nat /\ Load(snap', h) \in Nat
    BY <1>2, LoadType
  <2> QED  BY <2>2, <2>3, <2>4 DEF CostInv
<1> DEFINE Goal == \A h \in Hooks : /\ Load(st', h) + D(h) <= Allowed(deliveries'[h])
                                   /\ Load(snap', h) <= Allowed(deliveries'[h])
<1> HIDE DEF A, C, D
<1> SUFFICES Goal
  BY <1>1 DEF CostInv, D
<1> USE DEF Goal
<1>4. CASE Tick
  <2>1. st' = Aged(st) /\ snap' = Aged(snap) /\ batch' = batch /\ deliveries' = deliveries
    BY <1>4 DEF Tick
  <2> SUFFICES ASSUME NEW h \in Hooks
               PROVE  /\ Load(st', h) + D(h) <= A(h) /\ Load(snap', h) <= A(h)
    BY <2>1 DEF A
  <2>2. D(h) = C(h)
    BY <2>1 DEF C, D
  <2>3. Load(st', h) = Load(st, h) /\ Load(snap', h) = Load(snap, h)
    BY <1>2, <2>1, AgedLoad
  <2> QED  BY <1>3, <2>2, <2>3
<1>5. ASSUME NEW h \in Hooks, Deliver(h)
      PROVE  Goal
  <2>0. PICK age \in Age : \E answer \in Answers(st, h, age), gone \in SUBSET Keys :
           st' = Handled(st, h, age, 0, answer, gone)
    BY <1>1, <1>5, DeliverParts
  <2>1. PICK answer \in Answers(st, h, age), gone \in SUBSET Keys :
           st' = Handled(st, h, age, 0, answer, gone)
    BY <2>0
  <2>2. 0 \in 0..RetryMax /\ 0 + 1 = 1
    BY RetryAssumption
  <2>3. /\ snap' = st' /\ batch' = batch
        /\ deliveries' = [deliveries EXCEPT ![h] = @ + 1]
    BY <1>5, Zenon DEF Deliver
  <2> SUFFICES ASSUME NEW g \in Hooks
               PROVE  Load(st', g) + D(g) <= Allowed(deliveries'[g])
    <3>1. ASSUME NEW g \in Hooks PROVE Load(snap', g) <= Allowed(deliveries'[g])
      <4>1. deliveries'[g] \in Nat
        BY <1>1, RetryAssumption DEF TypeOK
      <4>2. Allowed(deliveries'[g]) \in Nat
        BY <4>1, OneMoreAllowed
      <4>3. Load(st', g) + D(g) <= Allowed(deliveries'[g]) /\ snap' = st'
        BY <2>3
      <4> QED  BY <1>3, <4>2, <4>3
    <3> QED  BY <3>1
  <2>4. Load(st', g) <= Load(st, g) + Share(h, 1, g)
    <3>1. Load(Handled(st, h, age, 0, answer, gone), g) <= Load(st, g) + Share(h, 0 + 1, g)
      BY <1>2, <2>2, HandledLoad
    <3> QED  BY <2>1, <2>2, <3>1, Zenon
  <2>5. D(g) = C(g)
    BY <2>3 DEF C, D
  <2>6. deliveries \in [Hooks -> Nat]
    BY <1>1, RetryAssumption DEF TypeOK
  <2>7. CASE g = h
    <3>1. 1 \in 1..(RetryMax + 1)
      BY RetryAssumption
    <3>2. Share(h, 1, g) = 2 ^ RetryMax /\ 2 ^ RetryMax \in Nat
      BY <2>7, <3>1, ShareType
    <3>3. deliveries'[g] = deliveries[g] + 1 /\ deliveries[g] \in Nat
      BY <2>3, <2>6, <2>7
    <3>4. Allowed(deliveries'[g]) = A(g) + 2 ^ RetryMax
      BY <3>3, OneMoreAllowed DEF A
    <3> QED  BY <1>3, <2>4, <2>5, <3>2, <3>4
  <2>8. CASE g # h
    <3>1. Share(h, 1, g) = 0
      BY <2>8 DEF Share
    <3>2. Allowed(deliveries'[g]) = A(g)
      BY <2>3, <2>6, <2>8 DEF A
    <3> QED  BY <1>3, <2>4, <2>5, <3>1, <3>2
  <2> QED  BY <2>7, <2>8
<1>6. ASSUME NEW h \in Hooks, Track(h)
      PROVE  Goal
  <2>1. /\ st'.queue = st.queue /\ st'.dlq = st.dlq /\ snap' = st'
        /\ batch' = batch /\ deliveries' = deliveries
    BY <1>1, <1>6, TrackState DEF Track
  <2> SUFFICES ASSUME NEW g \in Hooks
               PROVE  /\ Load(st', g) + D(g) <= A(g) /\ Load(snap', g) <= A(g)
    BY <2>1 DEF A
  <2>2. D(g) = C(g) /\ Load(st', g) = Load(st, g) /\ Load(snap', g) = Load(st, g)
    BY <2>1 DEF C, D, Load
  <2> QED  BY <1>3, <2>2
<1>7. CASE RunStart
  <2>1. /\ st'.queue = <<>> /\ st'.dlq = st.dlq /\ snap' = snap
        /\ batch' = st.queue /\ deliveries' = deliveries
    BY <1>1, <1>7, RunStartState DEF RunStart
  <2> SUFFICES ASSUME NEW h \in Hooks
               PROVE  /\ Load(st', h) + D(h) <= A(h) /\ Load(snap', h) <= A(h)
    BY <2>1 DEF A
  <2>2. st.dlq[h] \in Nat
    BY <1>2 DEF State
  <2>3. Load(st', h) = st.dlq[h]
    BY <2>1, <2>2, HeirsEmpty DEF Load
  <2>4. Load(st, h) = D(h) + st.dlq[h]
    BY <2>1 DEF Load, D
  <2> QED  BY <1>3, <2>1, <2>2, <2>3, <2>4
<1>8. CASE PutBack
  <2> DEFINE job == Head(batch)
  <2>1. /\ batch # <<>> /\ batch' = Tail(batch) /\ snap' = snap /\ deliveries' = deliveries
        /\ st'.queue = Append(st.queue, job) /\ st'.dlq = st.dlq /\ job \in Job
    BY <1>1, <1>8, PutBackState, HeadOfBatch DEF PutBack
  <2> SUFFICES ASSUME NEW h \in Hooks
               PROVE  /\ Load(st', h) + D(h) <= A(h) /\ Load(snap', h) <= A(h)
    BY <2>1 DEF A
  <2> DEFINE w == Share(job.hook, job.attempts, h)
             q == Cardinality(Heirs(st.queue, h))
  <2>2. C(h) = w + D(h)
    BY <1>2, <2>1, HeirsTail DEF C, D
  <2> HIDE DEF job
  <2>3. Cardinality(Heirs(st'.queue, h)) = q + w
    BY <1>2, <2>1, HeirsAppend
  <2>4. w \in Nat
    <3>1. job.attempts \in 1..(RetryMax + 1)
      BY <2>1, RetryAssumption DEF Job
    <3> QED  BY <3>1, ShareType
  <2>5. q \in Nat /\ st.dlq[h] \in Nat
    BY <1>2, HeirsFinite DEF State
  <2>6. Load(st, h) = q + st.dlq[h] /\ Load(st', h) = (q + w) + st.dlq[h]
    BY <2>1, <2>3 DEF Load
  <2>7. D(h) \in Nat /\ Load(st, h) + C(h) <= A(h) /\ Load(snap, h) <= A(h)
    BY <1>3
  <2>8. snap' = snap
    BY <2>1
  <2> HIDE DEF w, q
  <2>9. Load(st', h) + D(h) <= A(h)
    BY <2>2, <2>4, <2>5, <2>6, <2>7
  <2> QED  BY <2>7, <2>8, <2>9, Zenon
<1>9. CASE Retry
  <2> DEFINE job == Head(batch)
  <2>1. PICK answer \in Answers(st, job.hook, job.age), gone \in SUBSET Keys, after \in State :
          /\ after = Handled(st, job.hook, job.age, job.attempts, answer, gone)
          /\ \/ Succeeds(st, job.hook, answer) /\ st' = after
             \/ /\ ~Succeeds(st, job.hook, answer)
                /\ st' = Enqueue(after, job.hook, job.age, job.attempts + 1)
          /\ snap' = st' \/ snap' = after \/ snap' = snap
    BY <1>1, <1>9, RetryParts
  <2>2. /\ batch # <<>> /\ batch' = Tail(batch) /\ deliveries' = deliveries
        /\ job.hook \in Hooks /\ job.age \in Age /\ job.attempts \in 0..RetryMax
        /\ job.attempts \in 1..RetryMax
        /\ job.attempts + 1 \in 1..(RetryMax + 1)
    BY <1>1, <1>9, HeadOfBatch DEF Retry
  <2> SUFFICES ASSUME NEW h \in Hooks
               PROVE  /\ Load(st', h) + D(h) <= A(h) /\ Load(snap', h) <= A(h)
    BY <2>2 DEF A
  <2> DEFINE w == Share(job.hook, job.attempts, h)
             v == Share(job.hook, job.attempts + 1, h)
  <2>3. C(h) = w + D(h)
    BY <1>2, <2>2, HeirsTail DEF C, D
  <2> HIDE DEF job
  <2>4. w = v + v /\ v \in Nat
    BY <2>2, ShareHalves, ShareType
  <2>5. Load(after, h) <= Load(st, h) + v
    BY <1>2, <2>1, <2>2, HandledLoad, Zenon
  <2>6. Load(st', h) <= Load(after, h) + v
    <3>1. CASE st' = after
      <4>1. Load(after, h) \in Nat
        BY LoadType
      <4> HIDE DEF v
      <4> QED  BY <2>4, <3>1, <4>1
    <3>2. CASE st' = Enqueue(after, job.hook, job.age, job.attempts + 1)
      <4>1. Load(Enqueue(after, job.hook, job.age, job.attempts + 1), h)
              <= Load(after, h) + v
        BY <2>2, EnqueueLoad
      <4> QED  BY <3>2, <4>1, Zenon
    <3> QED  BY <2>1, <3>1, <3>2
  <2>7. Load(after, h) \in Nat
    BY LoadType
  <2> HIDE DEF w, v
  <2>8. Load(st', h) + D(h) <= A(h) /\ Load(after, h) <= A(h)
    BY <1>3, <2>3, <2>4, <2>5, <2>6, <2>7
  <2>9. Load(st', h) <= A(h)
    BY <1>3, <2>8
  <2>10. Load(snap', h) <= A(h)
    BY <1>3, <2>1, <2>8, <2>9, Zenon
  <2> QED  BY <2>8, <2>10
<1>10. CASE RunEnd
  <2>1. st' = st /\ snap' = st /\ batch' = batch /\ deliveries' = deliveries
    BY <1>10 DEF RunEnd
  <2> SUFFICES ASSUME NEW h \in Hooks
               PROVE  /\ Load(st', h) + D(h) <= A(h) /\ Load(snap', h) <= A(h)
    BY <2>1 DEF A
  <2>2. D(h) = C(h)
    BY <2>1 DEF C, D
  <2> QED  BY <1>3, <2>1, <2>2
<1>11. CASE CrashSaved
  <2>1. st' = snap /\ snap' = snap /\ batch' = <<>> /\ deliveries' = deliveries
    BY <1>11 DEF CrashSaved
  <2> SUFFICES ASSUME NEW h \in Hooks
               PROVE  /\ Load(st', h) + D(h) <= A(h) /\ Load(snap', h) <= A(h)
    BY <2>1 DEF A
  <2>2. D(h) = 0
    BY <2>1, HeirsEmpty DEF D
  <2> QED  BY <1>3, <2>1, <2>2
<1>13. CASE CrashTorn
  <2>1. st' = Fresh /\ snap' = Fresh /\ batch' = <<>> /\ deliveries' = deliveries
    BY <1>13 DEF CrashTorn
  <2> SUFFICES ASSUME NEW h \in Hooks
               PROVE  /\ Load(st', h) + D(h) <= A(h) /\ Load(snap', h) <= A(h)
    BY <2>1 DEF A
  <2>2. Fresh.queue = <<>> /\ Fresh.dlq[h] = 0
    BY DEF Fresh
  <2>3. D(h) = 0
    BY <2>1, HeirsEmpty DEF D
  <2>4. Load(Fresh, h) = 0
    BY <2>2, HeirsEmpty DEF Load
  <2> QED  BY <1>3, <2>1, <2>3, <2>4
<1>14. ASSUME NEW o \in Others, OtherHook(o)
       PROVE  Goal
  <2>1. /\ st'.queue = st.queue /\ st'.dlq = st.dlq /\ snap' = st'
        /\ batch' = batch /\ deliveries' = deliveries
    BY <1>1, <1>14, OtherHookState DEF OtherHook
  <2> SUFFICES ASSUME NEW g \in Hooks
               PROVE  /\ Load(st', g) + D(g) <= A(g) /\ Load(snap', g) <= A(g)
    BY <2>1 DEF A
  <2>2. D(g) = C(g) /\ Load(st', g) = Load(st, g) /\ Load(snap', g) = Load(st, g)
    BY <2>1 DEF C, D, Load
  <2> QED  BY <1>3, <2>2
<1>12. CASE UNCHANGED vars
  <2>1. st' = st /\ snap' = snap /\ batch' = batch /\ deliveries' = deliveries
    BY <1>12 DEF vars
  <2> SUFFICES ASSUME NEW h \in Hooks
               PROVE  /\ Load(st', h) + D(h) <= A(h) /\ Load(snap', h) <= A(h)
    BY <2>1 DEF A
  <2>2. D(h) = C(h)
    BY <2>1 DEF C, D
  <2> QED  BY <1>3, <2>1, <2>2
<1> QED
  BY <1>4, <1>5, <1>6, <1>7, <1>8, <1>9, <1>10, <1>11, <1>12,
     <1>13, <1>14 DEF Next

LEMMA CostBounds == CostInv => AmplificationBounded
<1> SUFFICES ASSUME CostInv, NEW h \in Hooks
             PROVE  Cardinality(Heirs(Jobs, h)) + st.dlq[h]
                      <= deliveries[h] * 2 ^ RetryMax
  BY DEF AmplificationBounded
<1>1. st.queue \in Seq(Job) /\ batch \in Seq(Job) /\ st.dlq[h] \in Nat
  BY DEF CostInv, TypeOK, State
<1> DEFINE q == Cardinality(Heirs(st.queue, h))
           b == Cardinality(Heirs(batch, h))
           a == deliveries[h] * 2 ^ RetryMax
<1>2. Cardinality(Heirs(Jobs, h)) = q + b
  BY <1>1, HeirsConcat DEF Jobs
<1>3. q \in Nat /\ b \in Nat
  BY <1>1, HeirsFinite
<1>4. (q + st.dlq[h]) + b <= a
  BY DEF CostInv, Load, Allowed
<1>5. a \in Nat
  <2>1. deliveries[h] \in Nat
    BY RetryAssumption DEF CostInv, TypeOK
  <2> QED  BY <2>1, OneMoreAllowed DEF Allowed
<1> HIDE DEF q, b, a
<1>6. (q + b) + st.dlq[h] <= a
  BY <1>1, <1>3, <1>4, <1>5
<1> QED  BY <1>2, <1>6 DEF a

\* Whatever the breaker, the runs and the crashes do, a delivery costs no more
\* than 2^RetryMax entries of the dead-letter queue.
THEOREM CostIsBounded == Spec => []AmplificationBounded
<1> QED  BY InitCost, NextCost, CostBounds, PTL DEF Spec

=============================================================================
