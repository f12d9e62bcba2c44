----------------------------- MODULE NonceGuard -----------------------------
(***************************************************************************)
(* The replay guard of M.route: Auth.require_nonce_and_timestamp           *)
(* (ao/shared/auth.lua).  A message is let through when its timestamp is   *)
(* within Drift of the clock and its nonce is not in the cache; the nonce  *)
(* is then entered under its tenant, actor and value, the cache is trimmed *)
(* (entries past their TTL first, then the older half if it is too large)  *)
(* and written to WRITE_NONCE_STORE_PATH, if there is one.                 *)
(*                                                                         *)
(* Messages are delivered at any time, any number of times.  A refused     *)
(* delivery changes nothing.  The clock is os.time of one host, in seconds,*)
(* and does not step back; senders' clocks are arbitrary.                  *)
(***************************************************************************)
EXTENDS Integers, FiniteSets

CONSTANTS Messages,   \* signed messages
          Nonces,     \* nonce cache keys (tenant, actor, nonce)
          NonceOf,    \* message -> its key
          NonceTTL,   \* WRITE_NONCE_TTL_SECONDS
          NonceMax,   \* WRITE_NONCE_MAX
          Drift,      \* WRITE_MAX_CLOCK_SKEW
          StorePath,  \* is WRITE_NONCE_STORE_PATH set?
          None,       \* no entry
          MaxTime,    \* bound on the clock
          MaxBoots    \* bound on the number of restarts

ASSUME NonceAssumption ==
    /\ NonceOf \in [Messages -> Nonces]
    /\ NonceTTL \in Nat /\ Drift \in Nat
    /\ NonceMax \in Nat \ {0}
    /\ StorePath \in BOOLEAN
    /\ None \notin Nat
    /\ MaxTime \in Nat /\ MaxBoots \in Nat

VARIABLES now,       \* the clock
          ts,        \* message -> the timestamp its sender signed
          cache,     \* nonce_store: key -> when it was entered, or None
          file,      \* WRITE_NONCE_STORE_PATH
          boots,     \* restarts so far
          accepted,  \* message -> when it was last let through (history)
          times,     \* message -> how often it was let through while its key had
                     \* not been forgotten before its TTL (history)
          lost,      \* keys a restart forgot before their TTL (history)
          evicted    \* keys the trim dropped before their TTL (history)

vars == <<now, ts, cache, file, boots, accepted, times, lost, evicted>>

Cache == [Nonces -> Nat \cup {None}]

TypeOK ==
    /\ now \in Nat
    /\ ts \in [Messages -> Nat]
    /\ cache \in Cache
    /\ file \in Cache
    /\ boots \in Nat
    /\ accepted \in [Messages -> Nat \cup {None}]
    /\ times \in [Messages -> Nat]
    /\ lost \subseteq Nonces
    /\ evicted \subseteq Nonces

Empty == [n \in Nonces |-> None]

Init ==
    /\ now = 0
    /\ ts \in [Messages -> 0..MaxTime]
    /\ cache = Empty
    /\ file = Empty
    /\ boots = 0
    /\ accepted = [m \in Messages |-> None]
    /\ times = [m \in Messages |-> 0]
    /\ lost = {} /\ evicted = {}

\* Mutant: the host's clock is set back.
TickBack ==
    /\ now' = now - 1
    /\ UNCHANGED <<ts, cache, file, boots, accepted, times, lost, evicted>>

Tick ==
    /\ now < MaxTime
    /\ now' = now + 1
    /\ UNCHANGED <<ts, cache, file, boots, accepted, times, lost, evicted>>

-----------------------------------------------------------------------------
(* The guard *)

Fresh(m) == now <= ts[m] + Drift /\ ts[m] <= now + Drift

\* Mutant: an entry refuses nothing within its own second.
SeenBefore(n) == cache[n] # None /\ cache[n] < now /\ now < cache[n] + NonceTTL

Seen(n) == cache[n] # None /\ now < cache[n] + NonceTTL

Entries(c) == {n \in Nonces : c[n] # None}

\* Entries past their TTL go first.  The comparison is not the one of the
\* check: at exactly NonceTTL an entry is kept, though it no longer refuses.
Purged(c) ==
    [n \in Nonces |-> IF c[n] # None /\ c[n] + NonceTTL < now THEN None
                                                           ELSE c[n]]

\* Mutant: the newest half is dropped.
NewestHalves(c) ==
    {new \in SUBSET Entries(c) :
        /\ Cardinality(new) = Cardinality(Entries(c)) \div 2
        /\ \A o \in new, n \in Entries(c) \ new : c[n] <= c[o]}

\* The sets that can be dropped as "the oldest half": the order among entries
\* of the same second is the sort's.
OldestHalves(c) ==
    {old \in SUBSET Entries(c) :
        /\ Cardinality(old) = Cardinality(Entries(c)) \div 2
        /\ \A o \in old, n \in Entries(c) \ old : c[o] <= c[n]}

Drops(c) ==
    IF Cardinality(Entries(c)) <= NonceMax THEN {{}} ELSE OldestHalves(c)

\* require_nonce lets m through.  A store that cannot be written is passed
\* over in silence.
Accept(m) ==
    LET key == NonceOf[m]
        entered == Purged([cache EXCEPT ![key] = now])
    IN
    /\ Fresh(m)
    /\ ~Seen(key)
    /\ \E old \in Drops(entered) :
          /\ cache' = [k \in Nonces |-> IF k \in old THEN None ELSE entered[k]]
          /\ evicted' = evicted \cup {n \in old : now < entered[n] + NonceTTL}
    /\ file' \in {file} \cup (IF StorePath THEN {cache'} ELSE {})
    /\ accepted' = [accepted EXCEPT ![m] = now]
    /\ times' = IF key \in lost \cup evicted THEN times
                ELSE [times EXCEPT ![m] = @ + 1]
    /\ UNCHANGED <<now, ts, boots, lost>>

\* A restart loads the store and trims it.
Restart ==
    /\ boots < MaxBoots
    /\ boots' = boots + 1
    /\ \E old \in Drops(Purged(file)) :
          cache' = [k \in Nonces |-> IF k \in old THEN None ELSE Purged(file)[k]]
    /\ lost' = lost \cup {n \in Nonces : Seen(n) /\ cache'[n] # cache[n]}
    /\ UNCHANGED <<now, ts, file, accepted, times, evicted>>

Next ==
    \/ Tick
    \/ \E m \in Messages : Accept(m)
    \/ Restart

Spec == Init /\ [][Next]_vars

-----------------------------------------------------------------------------
(* Properties *)

\* How often one signed message can be let through, as long as its nonce is
\* not forgotten early by a restart or by a cache that is too small: once, and
\* then once more for every TTL that fits in the 2 * Drift seconds for which
\* the message is fresh.  With the defaults, a TTL of 300 and a skew of 300,
\* that is three times, for a sender whose clock is ahead by the whole skew;
\* with the 600 and 300 of ops/env.prod.example twice, at the two ends of the
\* window; and once only with a TTL above twice the skew.
AcceptedOncePerTTL == \A m \in Messages : (times[m] - 1) * NonceTTL <= 2 * Drift

\* The cache never holds more than NonceMax entries.
CacheBounded == Cardinality(Entries(cache)) <= NonceMax

\* How much NonceMax buys: unless a restart forgot it, a nonce within its TTL
\* is gone only after more than half of NonceMax other messages were let
\* through, in the same second or later.
SurvivesHalfTheCache ==
    \A m \in Messages :
        LET others == {k \in Messages \ {m} :
                          accepted[k] # None /\ accepted[k] >= accepted[m]}
        IN  (/\ accepted[m] # None
             /\ now < accepted[m] + NonceTTL
             /\ NonceOf[m] \notin lost
             /\ cache[NonceOf[m]] = None)
            => 2 * Cardinality(others) > NonceMax

=============================================================================
