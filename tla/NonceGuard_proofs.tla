-------------------------- MODULE NonceGuard_proofs --------------------------
(***************************************************************************)
(* Proofs about NonceGuard for any messages, nonces, windows and bounds.   *)
(*                                                                         *)
(* AcceptedOncePerTTL needs to know that the entry of a message that was   *)
(* let through is still there, unless it was forgotten early or its TTL has*)
(* passed (Remembered), and that the times a message was let through lie a *)
(* TTL apart and within Drift of its timestamp (Spaced).                   *)
(* SurvivesHalfTheCache needs to know that every entry was made for a      *)
(* message let through then or later (Backed).                             *)
(***************************************************************************)
EXTENDS NonceGuard, FiniteSetTheorems, TLAPS

-----------------------------------------------------------------------------
(* Type correctness *)

LEMMA PurgedType ==
    ASSUME NEW c \in Cache
    PROVE  Purged(c) \in Cache
BY DEF Purged, Cache

LEMMA TypeInit == Init => TypeOK
BY NonceAssumption DEF Init, TypeOK, Empty, Cache

LEMMA TypeAccept ==
    ASSUME TypeOK, NEW m \in Messages, Accept(m)
    PROVE  TypeOK'
<1> DEFINE key == NonceOf[m]
           entered == Purged([cache EXCEPT ![key] = now])
<1>1. key \in Nonces
  BY NonceAssumption
<1>2. entered \in Cache
  BY <1>1, PurgedType DEF TypeOK, Cache
<1>3. PICK old \in Drops(entered) :
         /\ cache' = [k \in Nonces |-> IF k \in old THEN None ELSE entered[k]]
         /\ evicted' = evicted \cup {n \in old : now < entered[n] + NonceTTL}
  BY DEF Accept
<1>4. old \subseteq Nonces
  BY <1>3 DEF Drops, OldestHalves, Entries
<1>5. cache' \in Cache
  BY <1>2, <1>3 DEF Cache
<1>6. evicted' \subseteq Nonces
  BY <1>3, <1>4 DEF TypeOK
<1>7. file' \in Cache
  BY <1>5 DEF Accept, TypeOK
<1>8. /\ accepted' \in [Messages -> Nat \cup {None}]
      /\ times' \in [Messages -> Nat]
      /\ UNCHANGED <<now, ts, boots, lost>>
  BY DEF Accept, TypeOK
<1>9. QED BY <1>5, <1>6, <1>7, <1>8 DEF TypeOK

LEMMA TypeRestart ==
    ASSUME TypeOK, Restart
    PROVE  TypeOK'
<1>1. Purged(file) \in Cache
  BY PurgedType DEF TypeOK
<1>2. cache' \in Cache
  BY <1>1 DEF Restart, Cache
<1>3. QED BY <1>2 DEF Restart, TypeOK

LEMMA TypeNext == TypeOK /\ [Next]_vars => TypeOK'
<1> SUFFICES ASSUME TypeOK, [Next]_vars PROVE TypeOK'
  OBVIOUS
<1>1. CASE Tick
  BY <1>1 DEF Tick, TypeOK
<1>2. ASSUME NEW m \in Messages, Accept(m) PROVE TypeOK'
  BY <1>2, TypeAccept
<1>3. CASE Restart
  BY <1>3, TypeRestart
<1>4. CASE UNCHANGED vars
  BY <1>4 DEF vars, TypeOK
<1>5. QED BY <1>1, <1>2, <1>3, <1>4 DEF Next

\* Every variable of the guard keeps its type.
THEOREM TypeCorrect == Spec => []TypeOK
BY TypeInit, TypeNext, PTL DEF Spec

-----------------------------------------------------------------------------
(* How often a message is let through *)

Punctual ==
    \A m \in Messages : accepted[m] # None => /\ accepted[m] <= now
                                              /\ ts[m] <= accepted[m] + Drift

\* The entry of key still covers what was entered at time at.
Covers(key, at) ==
    \/ cache[key] # None /\ cache[key] >= at
    \/ now >= at + NonceTTL

Remembered ==
    \A m \in Messages :
        (accepted[m] # None /\ NonceOf[m] \notin lost \cup evicted)
            => Covers(NonceOf[m], accepted[m])

\* The first time is Drift before the timestamp at the earliest, the last one
\* Drift after it at the latest, and each is a TTL after the one before.
Spaced ==
    \A m \in Messages : times[m] > 0 =>
        /\ accepted[m] # None
        /\ (times[m] - 1) * NonceTTL + ts[m] <= accepted[m] + Drift
        /\ accepted[m] <= ts[m] + Drift

OnceInv == TypeOK /\ Punctual /\ Remembered /\ Spaced

\* What the trim can take out of the cache: an entry past its TTL, or one it
\* reports as evicted.
LEMMA TrimForgets ==
    ASSUME TypeOK, NEW m \in Messages, Accept(m),
           NEW n \in Nonces, n \notin evicted', NEW at \in Nat, at <= now,
           Covers(n, at) \/ (n = NonceOf[m] /\ at = now)
    PROVE  Covers(n, at)'
<1> DEFINE key == NonceOf[m]
           written == [cache EXCEPT ![key] = now]
           entered == Purged(written)
<1>1. key \in Nonces /\ now \in Nat /\ NonceTTL \in Nat /\ None \notin Nat
  BY NonceAssumption DEF TypeOK
<1>2. PICK old \in Drops(entered) :
         /\ cache' = [k \in Nonces |-> IF k \in old THEN None ELSE entered[k]]
         /\ evicted' = evicted \cup {k \in old : now < entered[k] + NonceTTL}
  BY DEF Accept
<1>3. now' = now
  BY DEF Accept
<1>4. \/ written[n] # None /\ written[n] >= at /\ written[n] \in Nat
      \/ now >= at + NonceTTL
  BY <1>1 DEF Covers, TypeOK, Cache
<1>5. CASE now >= at + NonceTTL
  BY <1>3, <1>5 DEF Covers
<1>6. CASE /\ written[n] # None /\ written[n] >= at /\ written[n] \in Nat
           /\ ~(now >= at + NonceTTL)
  <2>1. entered[n] = written[n]
    BY <1>1, <1>6 DEF Purged
  <2>2. n \notin old
    BY <1>1, <1>2, <1>6, <2>1
  <2>3. cache'[n] = written[n]
    BY <1>2, <2>1, <2>2
  <2>4. QED BY <1>6, <2>3 DEF Covers
<1>7. QED BY <1>4, <1>5, <1>6

LEMMA OnceAccept ==
    ASSUME OnceInv, NEW m \in Messages, Accept(m)
    PROVE  OnceInv'
<1>1. TypeOK /\ TypeOK'
  BY TypeAccept DEF OnceInv
<1>2. /\ NonceOf \in [Messages -> Nonces] /\ NonceTTL \in Nat /\ Drift \in Nat
      /\ None \notin Nat
  BY NonceAssumption
<1>3. /\ Fresh(m) /\ ~Seen(NonceOf[m])
      /\ accepted' = [accepted EXCEPT ![m] = now]
      /\ times' = IF NonceOf[m] \in lost \cup evicted THEN times
                  ELSE [times EXCEPT ![m] = @ + 1]
      /\ lost' = lost /\ ts' = ts /\ now' = now /\ evicted \subseteq evicted'
  BY DEF Accept
<1>4. Punctual'
  BY <1>1, <1>2, <1>3 DEF OnceInv, Punctual, Fresh, TypeOK
<1>5. Remembered'
  <2> SUFFICES ASSUME NEW k \in Messages, accepted'[k] # None,
                      NonceOf[k] \notin lost' \cup evicted'
               PROVE  Covers(NonceOf[k], accepted[k])'
    BY DEF Remembered
  <2>1. CASE k = m
    <3>1. accepted'[k] = now /\ now \in Nat
      BY <1>1, <1>3, <2>1 DEF TypeOK
    <3>2. NonceOf[k] \in Nonces
      BY <1>2
    <3>3. \/ cache'[NonceOf[k]] # None /\ cache'[NonceOf[k]] >= now
          \/ now' >= now + NonceTTL
      BY <1>1, <2>1, <3>1, <3>2, TrimForgets DEF Covers
    <3>4. QED BY <3>1, <3>3 DEF Covers
  <2>2. CASE k # m
    <3>1. accepted'[k] = accepted[k] /\ accepted[k] \in Nat
      BY <1>1, <1>3, <2>2 DEF TypeOK
    <3>2. Covers(NonceOf[k], accepted[k])
      BY <1>3, <3>1 DEF OnceInv, Remembered
    <3>3. DEFINE at == accepted[k]
    <3>4. at \in Nat /\ at <= now /\ NonceOf[k] \in Nonces
      BY <1>2, <3>1 DEF OnceInv, Punctual
    <3>5. \/ cache'[NonceOf[k]] # None /\ cache'[NonceOf[k]] >= at
          \/ now' >= at + NonceTTL
      BY <1>1, <3>2, <3>4, TrimForgets DEF Covers
    <3>6. QED BY <3>1, <3>5 DEF Covers
  <2>3. QED BY <2>1, <2>2
<1>6. Spaced'
  <2> SUFFICES ASSUME NEW k \in Messages, times'[k] > 0
               PROVE  /\ accepted'[k] # None
                      /\ (times'[k] - 1) * NonceTTL + ts[k] <= accepted'[k] + Drift
                      /\ accepted'[k] <= ts[k] + Drift
    BY <1>3 DEF Spaced
  <2>0. /\ times[k] \in Nat /\ ts[k] \in Nat /\ now \in Nat
        /\ accepted[k] \in Nat \cup {None}
    BY <1>1 DEF TypeOK
  <2>1. CASE k # m
    <3>1. times'[k] = times[k] /\ accepted'[k] = accepted[k]
      BY <1>1, <1>3, <2>1 DEF TypeOK
    <3> QED BY <3>1 DEF OnceInv, Spaced
  <2>2. CASE k = m
    <3>1. /\ accepted'[k] = now /\ now <= ts[k] + Drift /\ ts[k] <= now + Drift
      BY <1>1, <1>3, <2>2 DEF TypeOK, Fresh
    <3>2. CASE NonceOf[m] \in lost \cup evicted
      <4>1. times'[k] = times[k]
        BY <1>3, <3>2
      <4>2. /\ accepted[k] # None /\ accepted[k] <= now
            /\ (times[k] - 1) * NonceTTL + ts[k] <= accepted[k] + Drift
        BY <4>1 DEF OnceInv, Spaced, Punctual
      <4>3. (times[k] - 1) * NonceTTL \in Int
        BY <1>2, <2>0
      <4>4. (times[k] - 1) * NonceTTL + ts[k] <= now + Drift
        BY <1>2, <2>0, <4>2, <4>3
      <4> QED BY <1>2, <2>0, <3>1, <4>1, <4>4
    <3>3. CASE NonceOf[m] \notin lost \cup evicted /\ times[k] = 0
      <4>1. times'[k] = 1
        BY <1>1, <1>3, <2>2, <3>3 DEF TypeOK
      <4> QED BY <1>2, <2>0, <3>1, <4>1
    <3>4. CASE NonceOf[m] \notin lost \cup evicted /\ times[k] > 0
      <4>1. times'[k] = times[k] + 1
        BY <1>1, <1>3, <2>2, <3>4 DEF TypeOK
      <4>2. /\ accepted[k] # None
            /\ (times[k] - 1) * NonceTTL + ts[k] <= accepted[k] + Drift
        BY <3>4 DEF OnceInv, Spaced
      <4>3. Covers(NonceOf[m], accepted[k])
        BY <2>2, <3>4, <4>2 DEF OnceInv, Remembered
      <4>4. cache[NonceOf[m]] \in Nat \cup {None}
        BY <1>1, <1>2 DEF TypeOK, Cache
      <4>5. now >= accepted[k] + NonceTTL
        BY <1>2, <1>3, <2>0, <4>2, <4>3, <4>4 DEF Covers, Seen
      <4>6. (times'[k] - 1) * NonceTTL = (times[k] - 1) * NonceTTL + NonceTTL
        BY <1>2, <2>0, <4>1
      <4>7. (times[k] - 1) * NonceTTL \in Int
        BY <1>2, <2>0
      <4>8. (times'[k] - 1) * NonceTTL + ts[k] <= now + Drift
        BY <1>2, <2>0, <4>2, <4>5, <4>6, <4>7
      <4> QED BY <1>2, <2>0, <3>1, <4>8
    <3> QED BY <2>0, <3>2, <3>3, <3>4
  <2> QED BY <2>1, <2>2
<1>7. QED BY <1>1, <1>4, <1>5, <1>6 DEF OnceInv

LEMMA OnceRestart ==
    ASSUME OnceInv, Restart
    PROVE  OnceInv'
<1>1. TypeOK /\ TypeOK'
  BY TypeRestart DEF OnceInv
<1>2. UNCHANGED <<now, ts, accepted, times, evicted>> /\ lost \subseteq lost'
  BY DEF Restart
<1>3. Punctual' /\ Spaced'
  BY <1>2 DEF OnceInv, Punctual, Spaced
<1>4. Remembered'
  <2> SUFFICES ASSUME NEW m \in Messages, accepted[m] # None,
                      NonceOf[m] \notin lost' \cup evicted
               PROVE  Covers(NonceOf[m], accepted[m])'
    BY <1>2 DEF Remembered
  <2> DEFINE key == NonceOf[m]
  <2>1. /\ key \in Nonces /\ accepted[m] \in Nat /\ NonceTTL \in Nat
        /\ now \in Nat /\ cache[key] \in Nat \cup {None}
    BY <1>1, NonceAssumption DEF TypeOK, Cache
  <2>2. Covers(key, accepted[m])
    BY <1>2 DEF OnceInv, Remembered
  <2>3. Seen(key) => cache'[key] = cache[key]
    BY <2>1 DEF Restart
  <2>4. QED BY <1>2, <2>1, <2>2, <2>3 DEF Covers, Seen
<1>5. QED BY <1>1, <1>3, <1>4 DEF OnceInv

LEMMA OnceTick ==
    ASSUME OnceInv, Tick
    PROVE  OnceInv'
<1>1. TypeOK /\ TypeOK'
  BY TypeNext DEF OnceInv, Next
<1>2. /\ now' = now + 1
      /\ UNCHANGED <<ts, cache, accepted, times, lost, evicted>>
  BY DEF Tick
<1>3. Punctual'
  BY <1>1, <1>2 DEF OnceInv, Punctual, TypeOK
<1>4. Spaced'
  BY <1>2 DEF OnceInv, Spaced
<1>5. Remembered'
  <2> SUFFICES ASSUME NEW m \in Messages, accepted[m] # None,
                      NonceOf[m] \notin lost \cup evicted
               PROVE  Covers(NonceOf[m], accepted[m])'
    BY <1>2 DEF Remembered
  <2>1. Covers(NonceOf[m], accepted[m])
    BY DEF OnceInv, Remembered
  <2>2. now \in Nat /\ accepted[m] \in Nat /\ NonceTTL \in Nat
    BY <1>1, NonceAssumption DEF TypeOK
  <2>3. QED BY <1>2, <2>1, <2>2 DEF Covers
<1>6. QED BY <1>1, <1>3, <1>4, <1>5 DEF OnceInv

LEMMA OnceAlways == Spec => []OnceInv
<1>1. Init => OnceInv
  BY TypeInit DEF Init, OnceInv, Punctual, Remembered, Spaced
<1>2. OnceInv /\ [Next]_vars => OnceInv'
  <2> SUFFICES ASSUME OnceInv, [Next]_vars PROVE OnceInv'
    OBVIOUS
  <2>1. CASE Tick
    BY <2>1, OnceTick
  <2>2. ASSUME NEW m \in Messages, Accept(m) PROVE OnceInv'
    BY <2>2, OnceAccept
  <2>3. CASE Restart
    BY <2>3, OnceRestart
  <2>4. CASE UNCHANGED vars
    BY <2>4 DEF vars, OnceInv, TypeOK, Punctual, Remembered, Covers, Spaced
  <2>5. QED BY <2>1, <2>2, <2>3, <2>4 DEF Next
<1>3. QED BY <1>1, <1>2, PTL DEF Spec

\* However the TTL and the clock skew are set, require_nonce_and_timestamp lets
\* a message whose nonce is not forgotten early through once, and again only
\* when a whole TTL has passed within the 2 * Drift seconds of its freshness.
THEOREM ReplaysAreSpaced == Spec => []AcceptedOncePerTTL
<1>1. OnceInv => AcceptedOncePerTTL
  <2> SUFFICES ASSUME OnceInv, NEW m \in Messages
               PROVE  (times[m] - 1) * NonceTTL <= 2 * Drift
    BY DEF AcceptedOncePerTTL
  <2>1. /\ times[m] \in Nat /\ ts[m] \in Nat /\ NonceTTL \in Nat /\ Drift \in Nat
        /\ accepted[m] \in Nat \cup {None}
    BY NonceAssumption DEF OnceInv, TypeOK
  <2>2. CASE times[m] = 0
    <3>1. (times[m] - 1) * NonceTTL = -NonceTTL
      BY <2>1, <2>2
    <3> QED BY <2>1, <3>1
  <2>3. CASE times[m] > 0
    <3>1. /\ accepted[m] # None
          /\ (times[m] - 1) * NonceTTL + ts[m] <= accepted[m] + Drift
          /\ accepted[m] <= ts[m] + Drift
      BY <2>3 DEF OnceInv, Spaced
    <3>2. (times[m] - 1) * NonceTTL \in Int
      BY <2>1
    <3> QED BY <2>1, <3>1, <3>2
  <2> QED BY <2>1, <2>2, <2>3
<1>2. QED BY <1>1, OnceAlways, PTL

AcceptedOnce == \A m \in Messages : times[m] <= 1

\* With a TTL longer than twice the clock skew, a message is let through a
\* second time only after a restart or an eviction forgot its nonce.  Neither
\* the defaults nor ops/env.prod.example set such a TTL.
THEOREM ReplayIsRefused ==
    ASSUME NonceTTL > 2 * Drift
    PROVE  Spec => []AcceptedOnce
<1>1. AcceptedOncePerTTL /\ TypeOK => AcceptedOnce
  <2> SUFFICES ASSUME AcceptedOncePerTTL, TypeOK, NEW m \in Messages, times[m] > 1
               PROVE  FALSE
    BY DEF AcceptedOnce, TypeOK
  <2>1. times[m] \in Nat /\ NonceTTL \in Nat /\ Drift \in Nat
    BY NonceAssumption DEF TypeOK
  <2>2. (times[m] - 1) * NonceTTL >= NonceTTL
    <3> DEFINE more == times[m] - 2
    <3>1. more \in Nat /\ times[m] - 1 = more + 1
      BY <2>1
    <3> HIDE DEF more
    <3>2. (more + 1) * NonceTTL = more * NonceTTL + NonceTTL
      BY <2>1, <3>1
    <3>3. more * NonceTTL \in Nat
      BY <2>1, <3>1
    <3> QED BY <2>1, <3>1, <3>2, <3>3
  <2>3. (times[m] - 1) * NonceTTL \in Int
    BY <2>1
  <2> QED BY <2>1, <2>2, <2>3 DEF AcceptedOncePerTTL
<1>2. QED BY <1>1, ReplaysAreSpaced, TypeCorrect, PTL

-----------------------------------------------------------------------------
(* The size of the cache *)

\* The entries of a cache of at most max entries.
Small(c, max) == IsFiniteSet(Entries(c)) /\ Cardinality(Entries(c)) <= max

SizeInv == TypeOK /\ Small(cache, NonceMax) /\ Small(file, NonceMax)

\* Purging and forgetting only make a cache smaller.
LEMMA FewerEntries ==
    ASSUME NEW c, NEW d, NEW max \in Nat, Small(c, max),
           \A n \in Nonces : d[n] # None => c[n] # None
    PROVE  Small(d, max)
<1>1. Entries(d) \in SUBSET Entries(c)
  BY DEF Entries
<1>2. IsFiniteSet(Entries(d)) /\ Cardinality(Entries(d)) <= Cardinality(Entries(c))
  BY <1>1, FS_Subset DEF Small
<1>3. Cardinality(Entries(d)) \in Nat /\ Cardinality(Entries(c)) \in Nat
  BY <1>2, FS_CardinalityType DEF Small
<1>4. QED BY <1>2, <1>3 DEF Small

\* A cache one entry too large fits once its older half is dropped.
LEMMA DropsFit ==
    ASSUME NEW c, Small(c, NonceMax + 1), NEW old \in Drops(c),
           NEW d, d = [k \in Nonces |-> IF k \in old THEN None ELSE c[k]]
    PROVE  Small(d, NonceMax)
<1>1. NonceMax \in Nat \ {0}
  BY NonceAssumption
<1>2. IsFiniteSet(Entries(c)) /\ Cardinality(Entries(c)) \in Nat
      /\ Cardinality(Entries(c)) <= NonceMax + 1
  BY FS_CardinalityType DEF Small
<1>3. CASE Cardinality(Entries(c)) <= NonceMax
  <2>1. Small(c, NonceMax)
    BY <1>2, <1>3 DEF Small
  <2>2. \A n \in Nonces : d[n] # None => c[n] # None
    OBVIOUS
  <2>3. QED BY <1>1, <2>1, <2>2, FewerEntries
<1>4. CASE ~(Cardinality(Entries(c)) <= NonceMax)
  <2>1. /\ old \in SUBSET Entries(c)
        /\ Cardinality(old) = Cardinality(Entries(c)) \div 2
    BY <1>4 DEF Drops, OldestHalves
  <2>2. Entries(d) = Entries(c) \ old
    BY DEF Entries
  <2>3. /\ IsFiniteSet(Entries(c) \ old)
        /\ Cardinality(Entries(c) \ old)
             = Cardinality(Entries(c)) - Cardinality(Entries(c) \cap old)
    BY <1>2, FS_Difference
  <2>4. Entries(c) \cap old = old
    BY <2>1
  <2>5. Cardinality(Entries(c)) = NonceMax + 1
    BY <1>1, <1>2, <1>4
  <2>6. (NonceMax + 1) - ((NonceMax + 1) \div 2) <= NonceMax
    BY <1>1
  <2>7. QED BY <2>1, <2>2, <2>3, <2>4, <2>5, <2>6 DEF Small
<1>5. QED BY <1>3, <1>4

LEMMA SizeAccept ==
    ASSUME SizeInv, NEW m \in Messages, Accept(m)
    PROVE  SizeInv'
<1> DEFINE key == NonceOf[m]
           written == [cache EXCEPT ![key] = now]
           entered == Purged(written)
<1>1. TypeOK /\ TypeOK' /\ NonceMax \in Nat
  BY TypeAccept, NonceAssumption DEF SizeInv
<1>2. PICK old \in Drops(entered) :
         cache' = [k \in Nonces |-> IF k \in old THEN None ELSE entered[k]]
  BY DEF Accept
<1>3. Small(written, NonceMax + 1)
  <2>1. Entries(written) \in SUBSET (Entries(cache) \cup {key})
    BY <1>1 DEF Entries, TypeOK, Cache
  <2>2. /\ IsFiniteSet(Entries(cache))
        /\ Cardinality(Entries(cache)) \in Nat
        /\ Cardinality(Entries(cache)) <= NonceMax
    BY FS_CardinalityType DEF SizeInv, Small
  <2>3. /\ IsFiniteSet(Entries(cache) \cup {key})
        /\ Cardinality(Entries(cache) \cup {key}) \in Nat
        /\ Cardinality(Entries(cache) \cup {key}) <= NonceMax + 1
    <3>1. /\ IsFiniteSet(Entries(cache) \cup {key})
          /\ Cardinality(Entries(cache) \cup {key})
               = IF key \in Entries(cache) THEN Cardinality(Entries(cache))
                 ELSE Cardinality(Entries(cache)) + 1
      BY <2>2, FS_AddElement
    <3>2. QED BY <1>1, <2>2, <3>1
  <2>4. /\ IsFiniteSet(Entries(written))
        /\ Cardinality(Entries(written))
             <= Cardinality(Entries(cache) \cup {key})
    BY <2>1, <2>3, FS_Subset
  <2>5. Cardinality(Entries(written)) \in Nat
    BY <2>4, FS_CardinalityType
  <2>6. QED BY <1>1, <2>3, <2>4, <2>5 DEF Small
<1>4. Small(entered, NonceMax + 1)
  <2>1. \A n \in Nonces : entered[n] # None => written[n] # None
    BY DEF Purged
  <2>2. NonceMax + 1 \in Nat
    BY <1>1
  <2> HIDE DEF entered, written
  <2>3. QED BY <1>3, <2>1, <2>2, FewerEntries
<1>5. Small(cache', NonceMax)
  BY <1>2, <1>4, DropsFit
<1>6. file' = file \/ file' = cache'
  BY DEF Accept
<1>7. QED BY <1>1, <1>5, <1>6 DEF SizeInv, Small, Entries

LEMMA SizeRestart ==
    ASSUME SizeInv, Restart
    PROVE  SizeInv'
<1>1. TypeOK /\ TypeOK' /\ NonceMax \in Nat
  BY TypeRestart, NonceAssumption DEF SizeInv
<1>2. \A n \in Nonces : cache'[n] # None => file[n] # None
  BY DEF Restart, Purged
<1>3. Small(cache', NonceMax)
  BY <1>1, <1>2, FewerEntries DEF SizeInv
<1>4. file' = file
  BY DEF Restart
<1>5. QED BY <1>1, <1>3, <1>4 DEF SizeInv, Small, Entries

\* trim_nonce keeps nonce_store within WRITE_NONCE_MAX entries: it is called
\* after every entry and gives up half of them when there is one too many.
THEOREM CacheStaysBounded == Spec => []CacheBounded
<1>1. Init => SizeInv
  <2> SUFFICES ASSUME Init PROVE SizeInv
    OBVIOUS
  <2>1. Entries(cache) = {} /\ Entries(file) = {}
    BY DEF Init, Empty, Entries
  <2>2. NonceMax \in Nat
    BY NonceAssumption
  <2>3. QED BY <2>1, <2>2, TypeInit, FS_EmptySet DEF SizeInv, Small
<1>2. SizeInv /\ [Next]_vars => SizeInv'
  <2> SUFFICES ASSUME SizeInv, [Next]_vars PROVE SizeInv'
    OBVIOUS
  <2>1. CASE Tick \/ UNCHANGED vars
    <3>1. TypeOK'
      BY <2>1, TypeNext DEF SizeInv, Next
    <3>2. cache' = cache /\ file' = file
      BY <2>1 DEF Tick, vars
    <3>3. QED BY <3>1, <3>2 DEF SizeInv, Small, Entries
  <2>2. ASSUME NEW m \in Messages, Accept(m) PROVE SizeInv'
    BY <2>2, SizeAccept
  <2>3. CASE Restart
    BY <2>3, SizeRestart
  <2>4. QED BY <2>1, <2>2, <2>3 DEF Next
<1>3. SizeInv => CacheBounded
  BY DEF SizeInv, Small, CacheBounded
<1>4. QED BY <1>1, <1>2, <1>3, PTL DEF Spec

-----------------------------------------------------------------------------
(* What a nonce that was evicted has cost *)

LetThrough == {k \in Messages : accepted[k] # None}

Others(m) ==
    {k \in Messages \ {m} : accepted[k] # None /\ accepted[k] >= accepted[m]}

\* Each entry of c was made for a message that was let through then or later.
Backed(c) ==
    \A n \in Nonces : c[n] # None =>
        \E k \in LetThrough : NonceOf[k] = n /\ accepted[k] >= c[n]

\* A nonce within its TTL is in the cache, or was driven out by others.
DrivenOut ==
    \A m \in Messages : (accepted[m] # None /\ NonceOf[m] \notin lost) =>
        \/ Covers(NonceOf[m], accepted[m])
        \/ 2 * Cardinality(Others(m)) > NonceMax

HalfInv == /\ SizeInv /\ Punctual
           /\ IsFiniteSet(LetThrough) /\ Backed(cache) /\ Backed(file)
           /\ DrivenOut

\* The others only become more.
LEMMA OthersStay ==
    ASSUME TypeOK, TypeOK', IsFiniteSet(LetThrough'), NEW m \in Messages,
           accepted[m] # None, accepted'[m] = accepted[m],
           \A k \in LetThrough : accepted'[k] # None /\ accepted'[k] >= accepted[k],
           2 * Cardinality(Others(m)) > NonceMax
    PROVE  2 * Cardinality(Others(m)') > NonceMax
<1>1. Others(m) \subseteq Others(m)'
  <2> SUFFICES ASSUME NEW k \in Messages \ {m}, accepted[k] # None,
                      accepted[k] >= accepted[m]
               PROVE  accepted'[k] # None /\ accepted'[k] >= accepted'[m]
    BY DEF Others
  <2>1. accepted[k] \in Nat /\ accepted[m] \in Nat
    BY DEF TypeOK
  <2>2. accepted'[k] # None /\ accepted'[k] >= accepted[k]
    BY DEF LetThrough
  <2>3. accepted'[k] \in Nat
    BY <2>2 DEF TypeOK
  <2> QED BY <2>1, <2>2, <2>3
<1>2. Others(m)' \in SUBSET LetThrough'
  BY DEF Others, LetThrough
<1>3. IsFiniteSet(Others(m)')
  BY <1>2, FS_Subset
<1>4. IsFiniteSet(Others(m)) /\ Cardinality(Others(m)) <= Cardinality(Others(m)')
  BY <1>1, <1>3, FS_Subset
<1>5. /\ Cardinality(Others(m)) \in Nat /\ Cardinality(Others(m)') \in Nat
      /\ NonceMax \in Nat
  BY <1>3, <1>4, FS_CardinalityType, NonceAssumption
<1> QED BY <1>4, <1>5

\* An entry that is trimmed although it is no older than its message leaves
\* more than half of NonceMax entries behind, each of another message.
LEMMA TrimmedByOthers ==
    ASSUME NEW at \in [Messages -> Nat \cup {None}], NEW let, IsFiniteSet(let),
           let = {k \in Messages : at[k] # None},
           NEW c \in Cache, IsFiniteSet(Entries(c)),
           \A n \in Nonces : c[n] # None =>
               \E k \in let : NonceOf[k] = n /\ at[k] >= c[n],
           NEW old \in Drops(c), NEW m \in let,
           NonceOf[m] \in old, at[m] <= c[NonceOf[m]],
           NEW others, others = {k \in let \ {m} : at[k] >= at[m]}
    PROVE  2 * Cardinality(others) > NonceMax
<1> DEFINE all == Entries(c)
           kept == all \ old
           by == {x \in others : NonceOf[x] \in kept}
           n == NonceOf[m]
<1>1. NonceMax \in Nat /\ Cardinality(all) \in Nat
  BY FS_CardinalityType, NonceAssumption
<1>2. /\ Cardinality(all) > NonceMax
      /\ old \in SUBSET all /\ Cardinality(old) = Cardinality(all) \div 2
      /\ \A o \in old, k \in kept : c[o] <= c[k]
  BY <1>1 DEF Drops, OldestHalves
<1>3. 2 * Cardinality(kept) > NonceMax
  <2>1. Cardinality(kept) = Cardinality(all) - Cardinality(all \cap old)
    BY FS_Difference
  <2>2. all \cap old = old
    BY <1>2
  <2> HIDE DEF all, kept
  <2>3. Cardinality(kept) = Cardinality(all) - (Cardinality(all) \div 2)
    BY <1>2, <2>1, <2>2
  <2> QED BY <1>1, <1>2, <2>3
<1>4. ASSUME NEW k \in kept PROVE \E x \in by : NonceOf[x] = k
  <2>1. k \in Nonces /\ c[k] # None
    BY DEF Entries
  <2>2. PICK x \in let : NonceOf[x] = k /\ at[x] >= c[k]
    BY <2>1
  <2>3. c[n] <= c[k] /\ n \in Nonces /\ c[n] # None
    BY <1>2 DEF Entries
  <2>4. /\ at[x] \in Nat /\ at[m] \in Nat
        /\ c[n] \in Nat /\ c[k] \in Nat
    BY <2>1, <2>2, <2>3 DEF Cache
  <2>5. at[x] >= at[m]
    BY <2>2, <2>3, <2>4
  <2>6. x # m
    BY <2>2
  <2> QED BY <2>2, <2>5, <2>6
<1>5. others \in SUBSET let /\ by \in SUBSET others
  OBVIOUS
<1>6. IsFiniteSet(others)
  BY <1>5, FS_Subset
<1>7. IsFiniteSet(by) /\ Cardinality(by) <= Cardinality(others)
  BY <1>5, <1>6, FS_Subset
<1>8. Cardinality(kept) <= Cardinality(by) /\ IsFiniteSet(kept)
  <2> DEFINE f == [x \in by |-> NonceOf[x]]
  <2>1. f \in Surjection(by, kept)
    <3>1. f \in [by -> kept]
      OBVIOUS
    <3>2. \A k \in kept : \E x \in by : f[x] = k
      BY <1>4
    <3> QED BY <3>1, <3>2 DEF Surjection
  <2> QED BY <1>7, <2>1, FS_Surjection
<1>9. /\ Cardinality(kept) \in Nat /\ Cardinality(by) \in Nat
      /\ Cardinality(others) \in Nat
  BY <1>6, <1>7, <1>8, FS_CardinalityType
<1> HIDE DEF kept, by
<1> QED BY <1>1, <1>3, <1>7, <1>8, <1>9

LEMMA HalfAccept ==
    ASSUME HalfInv, NEW m \in Messages, Accept(m)
    PROVE  HalfInv'
<1> DEFINE key == NonceOf[m]
           written == [cache EXCEPT ![key] = now]
           entered == Purged(written)
<1>1. SizeInv' /\ TypeOK /\ TypeOK'
  BY SizeAccept DEF HalfInv, SizeInv
<1>2. /\ key \in Nonces /\ now \in Nat /\ NonceTTL \in Nat /\ None \notin Nat
      /\ NonceOf \in [Messages -> Nonces]
  BY <1>1, NonceAssumption DEF TypeOK
<1>3. PICK old \in Drops(entered) :
         cache' = [k \in Nonces |-> IF k \in old THEN None ELSE entered[k]]
  BY DEF Accept
<1>4. /\ accepted' = [accepted EXCEPT ![m] = now] /\ now' = now /\ lost' = lost
      /\ ts' = ts /\ Fresh(m) /\ (file' = file \/ file' = cache')
  BY DEF Accept
<1>5. /\ \A n \in Nonces : written[n] = IF n = key THEN now ELSE cache[n]
      /\ \A n \in Nonces : entered[n] # None => entered[n] = written[n]
      /\ \A n \in Nonces : written[n] # None /\ now < written[n] + NonceTTL
                                => entered[n] = written[n]
      /\ entered[key] = now
  BY <1>1, <1>2 DEF Purged, TypeOK, Cache
<1>6. entered \in Cache /\ IsFiniteSet(Entries(entered))
  <2>1. written \in Cache
    BY <1>1, <1>2 DEF TypeOK, Cache
  <2>2. Entries(entered) \in SUBSET (Entries(cache) \cup {key})
    BY <1>5 DEF Entries
  <2>3. IsFiniteSet(Entries(cache) \cup {key})
    BY FS_AddElement DEF HalfInv, SizeInv, Small
  <2>4. IsFiniteSet(Entries(entered))
    BY <2>2, <2>3, FS_Subset
  <2> QED BY <2>1, <2>4, PurgedType
<1> HIDE DEF entered, written
<1>7. /\ m \in LetThrough' /\ accepted'[m] = now
      /\ \A k \in LetThrough : /\ k \in LetThrough' /\ accepted'[k] # None
                                /\ accepted'[k] >= accepted[k]
      /\ \A k \in Messages \ {m} : accepted'[k] = accepted[k]
  BY <1>1, <1>2, <1>4 DEF LetThrough, HalfInv, Punctual, TypeOK
<1>8. Punctual'
  BY <1>1, <1>2, <1>4, NonceAssumption DEF HalfInv, Punctual, Fresh, TypeOK
<1>9. IsFiniteSet(LetThrough')
  <2>1. LetThrough' \in SUBSET (LetThrough \cup {m})
    BY <1>7 DEF LetThrough
  <2>2. IsFiniteSet(LetThrough \cup {m})
    BY FS_AddElement DEF HalfInv
  <2> QED BY <2>1, <2>2, FS_Subset
<1>10. ASSUME NEW c \in Cache, Backed(c), NEW n \in Nonces, c[n] # None
       PROVE  \E k \in LetThrough' : NonceOf[k] = n /\ accepted'[k] >= c[n]
  <2>1. PICK k \in LetThrough : NonceOf[k] = n /\ accepted[k] >= c[n]
    BY <1>10 DEF Backed
  <2>2. accepted[k] \in Nat /\ accepted'[k] \in Nat /\ c[n] \in Nat
    BY <1>1, <1>7, <1>10 DEF LetThrough, TypeOK, Cache
  <2>3. k \in LetThrough' /\ accepted'[k] >= accepted[k]
    BY <1>7
  <2> QED BY <2>1, <2>2, <2>3
<1>11. ASSUME NEW n \in Nonces, entered[n] # None
       PROVE  \E k \in LetThrough' : NonceOf[k] = n /\ accepted'[k] >= entered[n]
  <2>1. CASE n = key
    BY <1>2, <1>5, <1>7, <2>1
  <2>2. CASE n # key
    <3>1. entered[n] = cache[n] /\ cache[n] # None
      BY <1>5, <1>11, <2>2
    <3> QED BY <1>1, <1>10, <3>1 DEF HalfInv, TypeOK
  <2> QED BY <2>1, <2>2
<1>12. Backed(cache)' /\ Backed(file)'
  <2>1. Backed(cache)'
    BY <1>3, <1>11 DEF Backed
  <2>2. CASE file' = file
    BY <1>1, <1>10, <2>1, <2>2 DEF Backed, HalfInv, TypeOK
  <2>3. CASE file' = cache'
    BY <2>1, <2>3 DEF Backed
  <2> QED BY <1>4, <2>1, <2>2, <2>3
<1>13. ASSUME NEW k \in LetThrough', NonceOf[k] \in old,
              accepted'[k] <= entered[NonceOf[k]]
       PROVE  2 * Cardinality(Others(k)') > NonceMax
  <2>1. accepted' \in [Messages -> Nat \cup {None}]
    BY <1>1 DEF TypeOK
  <2>2. LetThrough' = {x \in Messages : accepted'[x] # None}
    BY DEF LetThrough
  <2>3. Others(k)' = {x \in LetThrough' \ {k} : accepted'[x] >= accepted'[k]}
    BY DEF Others, LetThrough
  <2>4. \A n \in Nonces : entered[n] # None =>
           \E x \in LetThrough' : NonceOf[x] = n /\ accepted'[x] >= entered[n]
    BY <1>11
  <2> DEFINE at == accepted'
             let == LetThrough'
             others == Others(k)'
  <2> HIDE DEF at, let, others
  <2>5. /\ at \in [Messages -> Nat \cup {None}]
        /\ IsFiniteSet(let) /\ let = {x \in Messages : at[x] # None}
        /\ others = {x \in let \ {k} : at[x] >= at[k]}
        /\ k \in let /\ at[k] <= entered[NonceOf[k]]
        /\ \A n \in Nonces : entered[n] # None =>
               \E x \in let : NonceOf[x] = n /\ at[x] >= entered[n]
    BY <1>9, <1>13, <2>1, <2>2, <2>3, <2>4 DEF at, let, others
  <2>6. 2 * Cardinality(others) > NonceMax
    BY <1>3, <1>6, <1>13, <2>5, TrimmedByOthers
  <2> QED BY <2>6 DEF others
<1>14. DrivenOut'
  <2> SUFFICES ASSUME NEW k \in Messages, accepted'[k] # None, NonceOf[k] \notin lost
               PROVE  \/ Covers(NonceOf[k], accepted[k])'
                      \/ 2 * Cardinality(Others(k)') > NonceMax
    BY <1>4 DEF DrivenOut
  <2> DEFINE n == NonceOf[k]
             at == accepted'[k]
  <2>1. at \in Nat /\ n \in Nonces /\ k \in LetThrough' /\ at <= now
    BY <1>1, <1>2, <1>4, <1>8 DEF TypeOK, LetThrough, Punctual
  <2>2. ASSUME written[n] # None, written[n] >= at, now < at + NonceTTL
        PROVE  \/ Covers(n, accepted[k])'
               \/ 2 * Cardinality(Others(k)') > NonceMax
    <3>1. written[n] \in Nat
      BY <1>1, <1>2, <1>5, <2>1, <2>2 DEF TypeOK, Cache
    <3>2. entered[n] = written[n]
      BY <1>2, <1>5, <2>1, <2>2, <3>1
    <3>3. CASE n \in old
      BY <1>13, <2>1, <2>2, <3>2, <3>3
    <3>4. CASE n \notin old
      <4>1. cache'[n] = written[n]
        BY <1>3, <2>1, <3>2, <3>4
      <4> QED BY <2>2, <4>1 DEF Covers
    <3> QED BY <3>3, <3>4
  <2>3. CASE now >= at + NonceTTL
    BY <1>4, <2>3 DEF Covers
  <2>4. CASE k = m
    <3>1. written[n] = now /\ at = now
      BY <1>2, <1>5, <1>7, <2>4
    <3> QED BY <1>2, <2>1, <2>2, <2>3, <3>1
  <2>5. CASE k # m
    <3>1. accepted[k] = at /\ accepted[k] # None
      BY <1>7, <2>5
    <3>2. CASE 2 * Cardinality(Others(k)) > NonceMax
      BY <1>1, <1>7, <1>9, <3>1, <3>2, OthersStay
    <3>3. CASE Covers(n, at)
      <4>1. \/ now >= at + NonceTTL
            \/ cache[n] # None /\ cache[n] >= at
        BY <3>3 DEF Covers
      <4>2. cache[n] # None /\ cache[n] >= at => written[n] # None /\ written[n] >= at
        BY <1>2, <1>5, <2>1
      <4> QED BY <1>2, <2>1, <2>2, <2>3, <4>1, <4>2
    <3> QED BY <3>1, <3>2, <3>3 DEF HalfInv, DrivenOut
  <2> QED BY <2>4, <2>5
<1> QED BY <1>1, <1>8, <1>9, <1>12, <1>14 DEF HalfInv

\* The store is small enough to be loaded whole: a restart trims nothing.
LEMMA HalfRestart ==
    ASSUME HalfInv, Restart
    PROVE  HalfInv'
<1>1. SizeInv' /\ TypeOK /\ TypeOK'
  BY SizeRestart DEF HalfInv, SizeInv
<1>2. UNCHANGED <<now, ts, file, accepted>> /\ lost \subseteq lost'
  BY DEF Restart
<1>3. /\ LetThrough' = LetThrough /\ Punctual'
      /\ \A m \in Messages : Others(m)' = Others(m)
  BY <1>2 DEF HalfInv, LetThrough, Others, Punctual
<1>4. \A n \in Nonces : cache'[n] # None => cache'[n] = file[n]
  BY DEF Restart, Purged
<1>5. Backed(cache)' /\ Backed(file)'
  BY <1>2, <1>3, <1>4 DEF Backed, HalfInv
<1>6. DrivenOut'
  <2> SUFFICES ASSUME NEW m \in Messages, accepted[m] # None,
                      NonceOf[m] \notin lost'
               PROVE  \/ Covers(NonceOf[m], accepted[m])'
                      \/ 2 * Cardinality(Others(m)) > NonceMax
    BY <1>2, <1>3 DEF DrivenOut
  <2> DEFINE key == NonceOf[m]
  <2>1. /\ key \in Nonces /\ accepted[m] \in Nat /\ NonceTTL \in Nat
        /\ now \in Nat /\ cache[key] \in Nat \cup {None}
    BY <1>1, NonceAssumption DEF TypeOK, Cache
  <2>2. Seen(key) => cache'[key] = cache[key]
    BY <2>1 DEF Restart
  <2>3. Covers(key, accepted[m]) => Covers(key, accepted[m])'
    BY <1>2, <2>1, <2>2 DEF Covers, Seen
  <2> QED BY <1>2, <2>3 DEF HalfInv, DrivenOut
<1> QED BY <1>1, <1>2, <1>3, <1>5, <1>6 DEF HalfInv

\* Time only passes TTLs.
LEMMA HalfTick ==
    ASSUME HalfInv, Tick
    PROVE  HalfInv'
<1>1. /\ now' = now + 1 /\ UNCHANGED <<ts, cache, file, accepted, lost>>
      /\ now \in Nat /\ NonceTTL \in Nat /\ TypeOK
  BY NonceAssumption DEF Tick, HalfInv, SizeInv, TypeOK
<1>2. TypeOK'
  BY <1>1, TypeNext DEF Next
<1>3. SizeInv'
  BY <1>1, <1>2 DEF HalfInv, SizeInv, Small, Entries
<1>4. /\ LetThrough' = LetThrough
      /\ \A m \in Messages : Others(m)' = Others(m)
  BY <1>1 DEF LetThrough, Others
<1>5. Backed(cache)' /\ Backed(file)'
  BY <1>1, <1>4 DEF Backed, HalfInv
<1>6. Punctual'
  BY <1>1, <1>2 DEF HalfInv, Punctual, TypeOK
<1>7. DrivenOut'
  <2> SUFFICES ASSUME NEW m \in Messages, accepted[m] # None,
                      NonceOf[m] \notin lost
               PROVE  \/ Covers(NonceOf[m], accepted[m])'
                      \/ 2 * Cardinality(Others(m)) > NonceMax
    BY <1>1, <1>4 DEF DrivenOut
  <2>1. accepted[m] \in Nat
    BY <1>1 DEF TypeOK
  <2>2. Covers(NonceOf[m], accepted[m]) => Covers(NonceOf[m], accepted[m])'
    BY <1>1, <2>1 DEF Covers
  <2> QED BY <2>2 DEF HalfInv, DrivenOut
<1> QED BY <1>3, <1>4, <1>5, <1>6, <1>7 DEF HalfInv

\* SurvivesHalfTheCache (auth.lua's trim): unless a restart forgot it, a nonce
\* within its TTL is gone only after more than half of NonceMax other messages
\* were let through, in the same second or later.
THEOREM NoncesSurvive == Spec => []SurvivesHalfTheCache
<1>1. Init => HalfInv
  <2> SUFFICES ASSUME Init PROVE HalfInv
    OBVIOUS
  <2>1. SizeInv
    <3>1. Entries(cache) = {} /\ Entries(file) = {}
      BY DEF Init, Empty, Entries
    <3>2. 0 <= NonceMax
      BY NonceAssumption
    <3> QED BY <3>1, <3>2, TypeInit, FS_EmptySet DEF SizeInv, Small
  <2>2. LetThrough = {} /\ IsFiniteSet(LetThrough)
    BY FS_EmptySet DEF Init, LetThrough
  <2>3. Backed(cache) /\ Backed(file) /\ Punctual /\ DrivenOut
    BY DEF Init, Empty, Backed, Punctual, DrivenOut
  <2> QED BY <2>1, <2>2, <2>3 DEF HalfInv
<1>2. HalfInv /\ [Next]_vars => HalfInv'
  <2> SUFFICES ASSUME HalfInv, [Next]_vars PROVE HalfInv'
    OBVIOUS
  <2>1. CASE UNCHANGED vars
    BY <2>1 DEF vars, HalfInv, SizeInv, TypeOK, Small, Entries, LetThrough,
               Backed, Punctual, DrivenOut, Covers, Others
  <2> QED BY <2>1, HalfTick, HalfAccept, HalfRestart DEF Next
<1>3. HalfInv => SurvivesHalfTheCache
  <2> SUFFICES ASSUME HalfInv, NEW m \in Messages, accepted[m] # None,
                      now < accepted[m] + NonceTTL, NonceOf[m] \notin lost,
                      cache[NonceOf[m]] = None
               PROVE  2 * Cardinality({k \in Messages \ {m} :
                          accepted[k] # None /\ accepted[k] >= accepted[m]})
                        > NonceMax
    BY DEF SurvivesHalfTheCache
  <2>1. now \in Nat /\ accepted[m] \in Nat /\ NonceTTL \in Nat
    BY NonceAssumption DEF HalfInv, SizeInv, TypeOK
  <2>2. ~Covers(NonceOf[m], accepted[m])
    BY <2>1 DEF Covers
  <2>3. 2 * Cardinality(Others(m)) > NonceMax
    BY <2>2 DEF HalfInv, DrivenOut
  <2> QED BY <2>3 DEF Others
<1> QED BY <1>1, <1>2, <1>3, PTL DEF Spec

=============================================================================
