--------------------------- MODULE Outbox_proofs ---------------------------
(***************************************************************************)
(* Proofs about Outbox for any events, workers and limits.                 *)
(*                                                                         *)
(* GivenUpAfterAllTries counts across processes: an entry that one worker  *)
(* gives up may have come through the memories of several, through the     *)
(* file and through the write process, which starts its count anew.  The   *)
(* invariant CountInv says of every entry, wherever it is, that its event  *)
(* was forwarded at least as often as the entry says: as many times as its *)
(* attempts in a queue, and by the limit of some forwarder more than its   *)
(* retries in a dead-letter queue.                                         *)
(*                                                                         *)
(* KeptUnlessExposed needs to know more than that an event is somewhere:   *)
(* it is in the queue of the write process, in the file if that is whole,  *)
(* and in the hands of every worker that runs (Holds), because a worker    *)
(* that starts replaces what all others have written.                      *)
(***************************************************************************)
EXTENDS Outbox, SequenceTheorems, TLAPS

-----------------------------------------------------------------------------
(* Type correctness *)

LEMMA TypeInit == Init => TypeOK
BY OutboxAssumption DEF Init, TypeOK, Nothing, Off, Worker, Content

\* What Write leaves has its type.
LEMMA TypeWrite ==
    ASSUME TypeOK, NEW p \in Workers \cup {Writer}, NEW content \in Content,
           Write(p, content)
    PROVE  /\ file' \in Content \cup {Torn}
           /\ opened' \subseteq Workers \cup {Writer}
           /\ mixed' \subseteq opened'
           /\ exposed' \subseteq Events
           /\ faults' \in 0..MaxFaults
BY OutboxAssumption DEF TypeOK, Write, Fault

LEMMA TypeOpen ==
    ASSUME TypeOK, NEW p \in Workers \cup {Writer}, Open(p)
    PROVE  /\ file' \in Content \cup {Torn}
           /\ opened' \subseteq Workers \cup {Writer}
           /\ mixed \subseteq opened'
           /\ faults' \in 0..MaxFaults
<1>1. CASE file' = Torn /\ opened' = opened \cup {p} /\ UNCHANGED faults
  <2>1. mixed \subseteq opened' /\ opened' \subseteq Workers \cup {Writer}
    BY <1>1 DEF TypeOK
  <2> QED BY <1>1, <2>1 DEF TypeOK
<1>2. CASE Fault /\ UNCHANGED <<file, opened>>
  <2>1. faults' \in 0..MaxFaults
    BY <1>2, OutboxAssumption DEF TypeOK, Fault
  <2> QED BY <1>2, <2>1 DEF TypeOK
<1> QED BY <1>1, <1>2 DEF Open

LEMMA TypeTried ==
    ASSUME TypeOK, NEW e \in Events, Delivers(e) \/ Fails(e)
    PROVE  /\ received' \subseteq Events
           /\ tries' \in [Events -> 0..MaxTries]
           /\ exposed' \subseteq Events
           /\ faults' \in 0..MaxFaults
<1>1. received' \subseteq Events /\ exposed' \subseteq Events
  BY DEF TypeOK, Delivers, Fails
<1>2. tries' \in [Events -> 0..MaxTries]
  <2>1. CountTry(e)
    BY DEF Delivers, Fails
  <2>2. (IF tries[e] < MaxTries THEN tries[e] + 1 ELSE tries[e]) \in 0..MaxTries
    BY OutboxAssumption DEF TypeOK
  <2> QED BY <2>1, <2>2 DEF TypeOK, CountTry
<1>3. faults' \in 0..MaxFaults
  BY OutboxAssumption DEF TypeOK, Delivers, Fails, Fault
<1> QED BY <1>1, <1>2, <1>3

LEMMA TypeMoveOn ==
    ASSUME TypeOK, NEW p \in Workers, w[p].todo # <<>>,
           NEW kept \in Seq(Entry), NEW dead \in Seq(Entry), MoveOn(p, kept, dead)
    PROVE  w' \in [Workers -> Worker]
<1>1. w[p] \in Worker
  BY DEF TypeOK
<1>2. /\ Tail(w[p].todo) \in Seq(Entry)
      /\ w[p].keep \o kept \in Seq(Entry)
      /\ w[p].mem.dlq \o dead \in Seq(Entry)
  BY <1>1, HeadTailProperties, ConcatProperties DEF Worker, Content
<1>3. QED BY <1>1, <1>2 DEF TypeOK, MoveOn, Worker, Content

\* The entry at hand, and the entry with its count raised or reset.
LEMMA Counting ==
    ASSUME NEW entry \in Entry
    PROVE  /\ entry.event \in Events /\ entry.count \in 0..MaxTries
           /\ DeadLetter(entry) \in Entry
           /\ DeadLetter(entry).event = entry.event /\ DeadLetter(entry).count = 0
           /\ Again(entry).event = entry.event
           /\ Again(entry).count = entry.count + 1
           /\ \A p \in Workers : entry.count + 1 < Limit[p] => Again(entry) \in Entry
<1>1. entry.event \in Events /\ entry.count \in 0..MaxTries /\ MaxTries \in Nat
  BY OutboxAssumption DEF Entry
<1>2. ASSUME NEW p \in Workers, entry.count + 1 < Limit[p]
      PROVE  entry.count + 1 \in 0..MaxTries
  <2>1. Limit[p] \in Nat /\ Limit[p] + Limit[p] <= MaxTries
    BY OutboxAssumption
  <2> QED BY <1>1, <1>2, <2>1
<1> QED BY <1>1, <1>2 DEF Entry, DeadLetter, Again

LEMMA TypeEntry ==
    ASSUME TypeOK, NEW p \in Workers, w[p].todo # <<>>
    PROVE  Head(w[p].todo) \in Entry
<1>1. w[p].todo \in Seq(Entry)
  BY DEF TypeOK, Worker
<1>2. QED BY <1>1, HeadTailProperties

LEMMA TypeFlush ==
    ASSUME TypeOK, NEW p \in Workers, Flush(p)
    PROVE  TypeOK'
<1> DEFINE entry == Head(w[p].todo)
<1>1. /\ w[p].todo # <<>> /\ entry \in Entry /\ entry.event \in Events
      /\ DeadLetter(entry) \in Entry
      /\ entry.count + 1 < Limit[p] => Again(entry) \in Entry
      /\ entry.count \in Nat /\ Limit[p] \in Nat
  BY TypeEntry, Counting, OutboxAssumption DEF Flush
<1>2. /\ received' \subseteq Events /\ tries' \in [Events -> 0..MaxTries]
      /\ w' \in [Workers -> Worker]
      /\ exposed' \subseteq Events /\ faults' \in 0..MaxFaults
  <2>1. CASE MoveOn(p, <<entry>>, <<>>) /\ UNCHANGED <<received, tries, exposed, faults>>
    <3>1. <<entry>> \in Seq(Entry) /\ <<>> \in Seq(Entry)
      BY <1>1
    <3>2. QED BY <1>1, <2>1, <3>1, TypeMoveOn DEF TypeOK
  <2>2. CASE Delivers(entry.event) /\ MoveOn(p, <<>>, <<>>)
    <3>1. <<>> \in Seq(Entry)
      OBVIOUS
    <3>2. QED BY <1>1, <2>2, <3>1, TypeMoveOn, TypeTried
  <2>3. CASE Fails(entry.event) /\ Failed(p, entry)
    <3>1. PICK kept \in Seq(Entry), dead \in Seq(Entry) : MoveOn(p, kept, dead)
      <4>1. CASE entry.count + 1 >= Limit[p]
        <5>1. <<>> \in Seq(Entry) /\ <<DeadLetter(entry)>> \in Seq(Entry)
          BY <1>1
        <5>2. QED BY <2>3, <4>1, <5>1 DEF Failed
      <4>2. CASE ~(entry.count + 1 >= Limit[p])
        <5>1. <<>> \in Seq(Entry) /\ <<Again(entry)>> \in Seq(Entry)
          BY <1>1, <4>2
        <5>2. QED BY <2>3, <4>2, <5>1 DEF Failed
      <4>3. QED BY <4>1, <4>2
    <3>2. QED BY <1>1, <2>3, <3>1, TypeMoveOn, TypeTried
  <2>4. QED BY <2>1, <2>2, <2>3 DEF Flush
<1>3. UNCHANGED <<queue, file, opened, mixed, dropped, emitted>>
  BY DEF Flush
<1>4. QED BY <1>2, <1>3 DEF TypeOK

LEMMA TypeRetry ==
    ASSUME TypeOK, NEW p \in Workers, Retry(p)
    PROVE  TypeOK'
<1> DEFINE entry == Head(w[p].todo)
<1>1. /\ w[p].todo # <<>> /\ entry \in Entry /\ entry.event \in Events
      /\ entry.count + 1 < Limit[p] => Again(entry) \in Entry
      /\ entry.count \in Nat /\ Limit[p] \in Nat
  BY TypeEntry, Counting, OutboxAssumption DEF Retry
<1>2. /\ received' \subseteq Events /\ tries' \in [Events -> 0..MaxTries]
      /\ dropped' \subseteq Events \X Workers
      /\ exposed' \subseteq Events /\ faults' \in 0..MaxFaults
  BY <1>1, TypeTried DEF Retry, TypeOK
<1>3. w' \in [Workers -> Worker]
  <2>1. CASE MoveOn(p, <<>>, <<>>)
    <3>1. <<>> \in Seq(Entry)
      OBVIOUS
    <3>2. QED BY <1>1, <2>1, <3>1, TypeMoveOn
  <2>2. CASE MoveOn(p, <<Again(entry)>>, <<>>) /\ ~GivesUp(p, entry)
    <3>1. <<Again(entry)>> \in Seq(Entry) /\ <<>> \in Seq(Entry)
      BY <1>1, <2>2 DEF GivesUp
    <3>2. QED BY <1>1, <2>2, <3>1, TypeMoveOn
  <2>3. QED BY <2>1, <2>2 DEF Retry
<1>4. UNCHANGED <<queue, file, opened, mixed, emitted>>
  BY DEF Retry
<1>5. QED BY <1>2, <1>3, <1>4 DEF TypeOK

LEMMA TypeStep ==
    ASSUME TypeOK, [Next]_vars
    PROVE  TypeOK'
<1>1. ASSUME NEW e \in Events, Enqueue(e) PROVE TypeOK'
  <2>1. [event |-> e, count |-> 0] \in Entry
    BY OutboxAssumption DEF Entry
  <2>2. queue' \in Seq(Entry)
    BY <1>1, <2>1, AppendProperties DEF Enqueue, TypeOK
  <2>3. exposed' \subseteq Events /\ emitted' \subseteq Events
    BY <1>1 DEF Enqueue, TypeOK
  <2>4. Open(Writer)
    BY <1>1 DEF Enqueue
  <2>5. QED BY <1>1, <2>2, <2>3, <2>4, TypeOpen DEF Enqueue, TypeOK
<1>2. CASE WriterPersists
  <2>1. [queue |-> queue, dlq |-> <<>>] \in Content
    BY DEF TypeOK, Content
  <2>2. QED BY <1>2, <2>1, TypeWrite DEF WriterPersists, TypeOK
<1>3. CASE WriterRestarts
  <2>1. faults' \in 0..MaxFaults
    BY <1>3, OutboxAssumption DEF WriterRestarts, Fault, TypeOK
  <2>2. QED BY <1>3, <2>1 DEF WriterRestarts, TypeOK
<1>4. ASSUME NEW p \in Workers, Start(p) PROVE TypeOK'
  <2>1. file \in Content
    BY <1>4 DEF Start, TypeOK
  <2>2. w' \in [Workers -> Worker]
    BY <1>4, <2>1 DEF Start, TypeOK, Worker, Content
  <2>3. QED BY <1>4, <2>2 DEF Start, TypeOK
<1>5. ASSUME NEW p \in Workers, Save(p) PROVE TypeOK'
  <2>1. w[p] \in Worker
    BY DEF TypeOK
  <2>2. w' \in [Workers -> Worker]
    BY <1>5, <2>1 DEF Save, TypeOK, Worker, Content
  <2>3. Open(p)
    BY <1>5 DEF Save
  <2>4. QED BY <1>5, <2>2, <2>3, TypeOpen DEF Save, TypeOK
<1>6. ASSUME NEW p \in Workers, WorkerPersists(p) PROVE TypeOK'
  <2>1. w[p] \in Worker /\ w[p].mem \in Content
    BY DEF TypeOK, Worker
  <2>2. /\ Off \in Worker
        /\ [w[p] EXCEPT !.pc = "dlq", !.todo = w[p].mem.dlq] \in Worker
        /\ [w[p] EXCEPT !.pc = "queue", !.todo = w[p].mem.queue] \in Worker
    <3>1. ASSUME NEW v \in Worker
          PROVE  /\ [v EXCEPT !.pc = "dlq", !.todo = v.mem.dlq] \in Worker
                 /\ [v EXCEPT !.pc = "queue", !.todo = v.mem.queue] \in Worker
      BY DEF Worker, Content
    <3>2. Off \in Worker
      BY DEF Worker, Content, Off, Nothing
    <3>3. QED BY <2>1, <3>1, <3>2, Zenon
  <2> DEFINE x == IF w[p].pc = "saveQueue"
                    THEN [w[p] EXCEPT !.pc = "dlq", !.todo = w[p].mem.dlq]
                    ELSE IF Kind[p] = "service"
                      THEN [w[p] EXCEPT !.pc = "queue", !.todo = w[p].mem.queue]
                      ELSE Off
  <2>3. x \in Worker /\ w' = [w EXCEPT ![p] = x]
    BY <1>6, <2>2, Zenon DEF WorkerPersists
  <2> HIDE DEF x
  <2>4. w' \in [Workers -> Worker]
    BY <2>3 DEF TypeOK
  <2>5. UNCHANGED <<queue, received, tries, dropped, emitted>>
    BY <1>6 DEF WorkerPersists
  <2>6. CASE Write(p, w[p].mem)
    BY <2>1, <2>4, <2>5, <2>6, TypeWrite DEF TypeOK
  <2>7. CASE UNCHANGED <<file, opened, mixed, exposed, faults>>
    BY <2>4, <2>5, <2>7 DEF TypeOK
  <2>8. QED BY <1>6, <2>6, <2>7 DEF WorkerPersists
<1>7. ASSUME NEW p \in Workers, WorkerDies(p) PROVE TypeOK'
  <2>1. faults' \in 0..MaxFaults
    BY <1>7, OutboxAssumption DEF WorkerDies, Fault, TypeOK
  <2>2. w' \in [Workers -> Worker]
    BY <1>7 DEF WorkerDies, TypeOK, Worker, Content, Off, Nothing
  <2>3. QED BY <1>7, <2>1, <2>2 DEF WorkerDies, TypeOK
<1>8. CASE UNCHANGED vars
  BY <1>8 DEF vars, TypeOK
<1>9. QED BY <1>1, <1>2, <1>3, <1>4, <1>5, <1>6, <1>7, <1>8, TypeFlush, TypeRetry DEF Next

\* Every variable has its type: no count passes the limits, in the queue, in the
\* dead-letter queue or in a worker.
THEOREM TypeCorrect == Spec => []TypeOK
<1>1. QED BY TypeInit, TypeStep, PTL DEF Spec

-----------------------------------------------------------------------------
(* The count an entry carries is one its event can answer for *)

\* Every entry's event was forwarded at least as often as it counts, and by one
\* of bases more.
Tried(t, entries, bases) ==
    \A i \in 1..Len(entries) :
        \E base \in bases : t[entries[i].event] >= base + entries[i].count

\* After how many attempts an entry may become a dead letter.
Attempts == {Limit[p] : p \in Forwarders}

ContentTried(t, content) ==
    Tried(t, content.queue, {0}) /\ Tried(t, content.dlq, Attempts)

\* The counts the entries of the list a worker is in start from.
Bases(x) == IF x.pc \in {"dlq", "saveDlq"} THEN Attempts ELSE {0}

WorkerTried(t, x) ==
    /\ ContentTried(t, x.mem)
    /\ Tried(t, x.todo, Bases(x))
    /\ Tried(t, x.keep, Bases(x))
    /\ x.pc \in {"saveQueue", "saveDlq"} => x.todo = <<>> /\ x.keep = <<>>

CountInv ==
    /\ TypeOK
    /\ Tried(tries, queue, {0})
    /\ file # Torn => ContentTried(tries, file)
    /\ \A p \in Workers : WorkerTried(tries, w[p])
    /\ \A p \in opened \cap Workers : w[p].pc \in {"saveQueue", "saveDlq"}
    /\ \A p \in Workers : w[p].pc = "queue" => p \in Forwarders
    /\ GivenUpAfterAllTries

LEMMA SomeBases == Attempts \in SUBSET Nat /\ {0} \in SUBSET Nat
BY OutboxAssumption DEF Attempts, Forwarders

LEMMA TriedNone == ASSUME NEW t, NEW bases PROVE Tried(t, <<>>, bases)
BY DEF Tried

LEMMA TriedOne ==
    ASSUME NEW t, NEW entry \in Entry, NEW bases, NEW base \in bases,
           t[entry.event] >= base + entry.count
    PROVE  Tried(t, <<entry>>, bases)
BY DEF Tried

LEMMA TriedHead ==
    ASSUME NEW t, NEW s \in Seq(Entry), s # <<>>, NEW bases, Tried(t, s, bases)
    PROVE  /\ \E base \in bases : t[Head(s).event] >= base + Head(s).count
           /\ Tried(t, Tail(s), bases)
<1>1. Len(s) \in Nat /\ Len(s) > 0 /\ Head(s) = s[1]
  BY HeadTailProperties, EmptySeq, LenProperties
<1>2. Len(Tail(s)) = Len(s) - 1 /\ \A i \in 1..Len(Tail(s)) : Tail(s)[i] = s[i + 1]
  BY HeadTailProperties
<1>3. QED BY <1>1, <1>2 DEF Tried

LEMMA TriedConcat ==
    ASSUME NEW t, NEW s \in Seq(Entry), NEW r \in Seq(Entry), NEW bases,
           Tried(t, s, bases), Tried(t, r, bases)
    PROVE  Tried(t, s \o r, bases)
<1>1. /\ Len(s) \in Nat /\ Len(r) \in Nat /\ Len(s \o r) = Len(s) + Len(r)
      /\ \A i \in 1..Len(s) + Len(r) :
            (s \o r)[i] = IF i <= Len(s) THEN s[i] ELSE r[i - Len(s)]
  BY ConcatProperties, LenProperties
<1>2. ASSUME NEW i \in 1..Len(s) + Len(r)
      PROVE  \E base \in bases : t[(s \o r)[i].event] >= base + (s \o r)[i].count
  <2>1. CASE i <= Len(s)
    <3>1. i \in 1..Len(s) /\ (s \o r)[i] = s[i]
      BY <1>1, <2>1
    <3>2. QED BY <3>1 DEF Tried
  <2>2. CASE ~(i <= Len(s))
    <3>1. i - Len(s) \in 1..Len(r) /\ (s \o r)[i] = r[i - Len(s)]
      BY <1>1, <2>2
    <3>2. QED BY <3>1 DEF Tried
  <2>3. QED BY <2>1, <2>2
<1>3. QED BY <1>1, <1>2 DEF Tried

LEMMA TriedMore ==
    ASSUME NEW t \in [Events -> Nat], NEW u \in [Events -> Nat],
           \A e \in Events : u[e] >= t[e],
           NEW s \in Seq(Entry), NEW bases \in SUBSET Nat, Tried(t, s, bases)
    PROVE  Tried(u, s, bases)
<1>1. ASSUME NEW i \in 1..Len(s)
      PROVE  \E base \in bases : u[s[i].event] >= base + s[i].count
  <2>1. s[i] \in Entry
    BY ElementOfSeq
  <2>2. s[i].event \in Events /\ s[i].count \in Nat
    BY <2>1, OutboxAssumption DEF Entry
  <2>3. PICK base \in bases : t[s[i].event] >= base + s[i].count
    BY DEF Tried
  <2>4. u[s[i].event] >= base + s[i].count
    BY <2>2, <2>3
  <2>5. QED BY <2>4
<1>2. QED BY <1>1 DEF Tried

LEMMA WorkerTriedMore ==
    ASSUME NEW t \in [Events -> Nat], NEW u \in [Events -> Nat],
           \A e \in Events : u[e] >= t[e],
           NEW x \in Worker, WorkerTried(t, x)
    PROVE  WorkerTried(u, x)
<1>1. Bases(x) \in SUBSET Nat
  BY SomeBases DEF Bases
<1>2. QED BY <1>1, SomeBases, TriedMore DEF WorkerTried, ContentTried, Worker, Content

\* A forwarded event was tried once more, up to MaxTries; no other less.
LEMMA ForwardCounts ==
    ASSUME TypeOK, TypeOK', NEW e \in Events, Delivers(e) \/ Fails(e)
    PROVE  /\ \A f \in Events : tries'[f] >= tries[f]
           /\ tries'[e] >= tries[e] + 1 \/ tries'[e] = MaxTries
<1>1. /\ MaxTries \in Nat /\ tries \in [Events -> 0..MaxTries]
      /\ tries' \in [Events -> 0..MaxTries]
  BY OutboxAssumption DEF TypeOK
<1>2. tries' = [tries EXCEPT ![e] = IF tries[e] < MaxTries THEN tries[e] + 1 ELSE tries[e]]
  BY DEF Delivers, Fails, CountTry
<1>3. tries'[e] = IF tries[e] < MaxTries THEN tries[e] + 1 ELSE tries[e]
  BY <1>1, <1>2
<1>4. \A f \in Events \ {e} : tries'[f] = tries[f]
  BY <1>1, <1>2
<1>5. QED BY <1>1, <1>3, <1>4

\* What MoveOn does to a worker, field by field.
LEMMA MovedOn ==
    ASSUME TypeOK, NEW p \in Workers, NEW kept, NEW dead, MoveOn(p, kept, dead)
    PROVE  /\ w'[p].pc = w[p].pc /\ w'[p].todo = Tail(w[p].todo)
           /\ w'[p].keep = w[p].keep \o kept
           /\ w'[p].mem.queue = w[p].mem.queue
           /\ w'[p].mem.dlq = w[p].mem.dlq \o dead
           /\ \A q \in Workers \ {p} : w'[q] = w[q]
<1>1. w[p] \in Worker /\ w[p].mem \in Content /\ w \in [Workers -> Worker]
  BY DEF TypeOK, Worker
<1>2. w'[p] = [w[p] EXCEPT !.todo = Tail(w[p].todo), !.keep = w[p].keep \o kept,
                           !.mem.dlq = w[p].mem.dlq \o dead]
  BY <1>1 DEF MoveOn
<1>3. \A q \in Workers \ {p} : w'[q] = w[q]
  BY <1>1 DEF MoveOn
<1>4. PICK y, u, s, r, d :
        /\ y \in Worker /\ y = w[p] /\ u = w'[p] /\ s = Tail(w[p].todo)
        /\ r = w[p].keep \o kept /\ d = w[p].mem.dlq \o dead
  BY <1>1, Zenon
<1>5. u = [y EXCEPT !.todo = s, !.keep = r, !.mem.dlq = d]
  BY <1>2, <1>4, Zenon
<1>6. /\ y \in Worker
      /\ DOMAIN y = {"pc", "mem", "todo", "keep"} /\ DOMAIN y.mem = {"queue", "dlq"}
  BY <1>4 DEF Worker, Content
<1>7. /\ u.pc = y.pc /\ u.todo = s /\ u.keep = r
      /\ u.mem.queue = y.mem.queue /\ u.mem.dlq = d
  BY <1>5, <1>6 DEF Worker, Content
<1>8. QED BY <1>3, <1>4, <1>7, Zenon

\* Dealing with an entry keeps CountInv when the entries that are kept or
\* become dead letters have been tried as often as they say.
LEMMA CountMoveOn ==
    ASSUME CountInv, TypeOK', NEW p \in Workers,
           w[p].pc \in {"queue", "dlq"}, w[p].todo # <<>>,
           \A f \in Events : tries'[f] >= tries[f],
           NEW kept \in Seq(Entry), NEW dead \in Seq(Entry),
           Tried(tries', kept, Bases(w[p])), Tried(tries', dead, Attempts),
           MoveOn(p, kept, dead), UNCHANGED <<queue, file, opened>>,
           GivenUpAfterAllTries'
    PROVE  CountInv'
<1>1. /\ tries \in [Events -> Nat] /\ tries' \in [Events -> Nat]
  BY OutboxAssumption DEF CountInv, TypeOK
<1>2. \A q \in Workers : w[q] \in Worker /\ WorkerTried(tries', w[q])
  BY <1>1, WorkerTriedMore DEF CountInv, TypeOK
<1>3. Tried(tries', queue, {0})
  BY <1>1, SomeBases, TriedMore DEF CountInv, TypeOK
<1>4. file # Torn => ContentTried(tries', file)
  BY <1>1, SomeBases, TriedMore DEF CountInv, TypeOK, ContentTried, Content
<1> DEFINE x == w'[p]
<1>5. /\ x.pc = w[p].pc /\ x.todo = Tail(w[p].todo)
      /\ x.keep = w[p].keep \o kept
      /\ x.mem.queue = w[p].mem.queue /\ x.mem.dlq = w[p].mem.dlq \o dead
      /\ \A q \in Workers \ {p} : w'[q] = w[q]
  BY MovedOn DEF CountInv
<1>6. WorkerTried(tries', x)
  <2>1. Bases(x) = Bases(w[p]) /\ x.pc \notin {"saveQueue", "saveDlq"}
    BY <1>5 DEF Bases
  <2>2. Tried(tries', x.todo, Bases(x))
    BY <1>1, <1>2, <1>5, <2>1, TriedHead DEF WorkerTried, Worker
  <2>3. Tried(tries', x.keep, Bases(x))
    BY <1>1, <1>2, <1>5, <2>1, TriedConcat DEF WorkerTried, Worker
  <2>4. ContentTried(tries', x.mem)
    BY <1>1, <1>2, <1>5, TriedConcat DEF WorkerTried, Worker, ContentTried, Content
  <2>5. QED BY <2>1, <2>2, <2>3, <2>4 DEF WorkerTried
<1>7. \A q \in Workers : WorkerTried(tries', w'[q])
  BY <1>2, <1>5, <1>6
<1>8. \A q \in opened' \cap Workers : w'[q].pc \in {"saveQueue", "saveDlq"}
  BY <1>5 DEF CountInv
<1>9. \A q \in Workers : w'[q].pc = "queue" => q \in Forwarders
  BY <1>5 DEF CountInv
<1>10. QED BY <1>3, <1>4, <1>7, <1>8, <1>9 DEF CountInv

\* An attempt takes no event out of those that have been tried enough.
LEMMA GivenUpStays ==
    ASSUME TypeOK, TypeOK', GivenUpAfterAllTries, UNCHANGED dropped,
           \A f \in Events : tries'[f] >= tries[f]
    PROVE  GivenUpAfterAllTries'
<1> SUFFICES ASSUME NEW d \in dropped
             PROVE  \E p \in Forwarders : tries'[d[1]] >= Limit[p] + Limit[d[2]]
  BY DEF GivenUpAfterAllTries
<1>1. /\ d[1] \in Events /\ d[2] \in Workers
      /\ tries[d[1]] \in Nat /\ tries'[d[1]] \in Nat
  BY OutboxAssumption DEF TypeOK
<1>2. PICK p \in Forwarders : tries[d[1]] >= Limit[p] + Limit[d[2]]
  BY DEF GivenUpAfterAllTries
<1>3. Limit[p] \in Nat /\ Limit[d[2]] \in Nat /\ tries'[d[1]] >= tries[d[1]]
  BY <1>1, OutboxAssumption DEF Forwarders
<1>4. tries'[d[1]] >= Limit[p] + Limit[d[2]]
  BY <1>1, <1>2, <1>3
<1> QED BY <1>4

LEMMA CountFlush ==
    ASSUME CountInv, TypeOK', NEW p \in Workers, Flush(p)
    PROVE  CountInv'
<1> DEFINE entry == Head(w[p].todo)
<1>1. /\ TypeOK /\ w[p].pc = "queue" /\ w[p].todo # <<>> /\ w[p] \in Worker
      /\ UNCHANGED <<queue, file, opened, dropped>>
  BY DEF Flush, CountInv, TypeOK
<1>2. /\ entry \in Entry /\ entry.event \in Events /\ entry.count \in 0..MaxTries
      /\ Bases(w[p]) = {0} /\ <<>> \in Seq(Entry)
      /\ Limit[p] \in Nat /\ MaxTries \in Nat /\ Limit[p] <= MaxTries
      /\ Limit[p] \in Attempts
  <2>1. p \in Forwarders
    BY <1>1 DEF CountInv
  <2>2. Limit[p] \in Nat /\ MaxTries \in Nat /\ Limit[p] + Limit[p] <= MaxTries
    BY OutboxAssumption
  <2>3. Limit[p] <= MaxTries /\ Limit[p] \in Attempts
    BY <2>1, <2>2 DEF Attempts
  <2>4. entry \in Entry
    BY <1>1, TypeEntry
  <2>5. entry.event \in Events /\ entry.count \in 0..MaxTries
    BY <2>4, Counting
  <2>6. Bases(w[p]) = {0}
    BY <1>1 DEF Bases
  <2> QED BY <2>2, <2>3, <2>4, <2>5, <2>6
<1>3. tries[entry.event] >= entry.count
  <2>1. w[p].todo \in Seq(Entry) /\ Tried(tries, w[p].todo, {0})
    BY <1>1, <1>2 DEF CountInv, WorkerTried, Worker
  <2>2. tries[entry.event] >= 0 + entry.count
    BY <1>1, <1>2, <2>1, TriedHead
  <2>3. QED BY <1>2, <2>2
<1>4. tries \in [Events -> 0..MaxTries] /\ tries' \in [Events -> 0..MaxTries]
  BY <1>1 DEF TypeOK
<1>5. \A f \in Events : tries'[f] >= tries[f]
  <2>1. CASE UNCHANGED tries
    BY <1>2, <1>4, <2>1
  <2>2. CASE Delivers(entry.event) \/ Fails(entry.event)
    BY <1>1, <1>2, <2>2, ForwardCounts
  <2>3. QED BY <2>1, <2>2 DEF Flush
<1>6. GivenUpAfterAllTries'
  BY <1>1, <1>5, GivenUpStays DEF CountInv
<1>7. \A bases : Tried(tries', <<>>, bases)
  BY TriedNone
<1>8. CASE MoveOn(p, <<entry>>, <<>>) /\ UNCHANGED tries
  <2>1. tries'[entry.event] >= 0 + entry.count
    BY <1>2, <1>3, <1>4, <1>8
  <2>2. <<entry>> \in Seq(Entry) /\ Tried(tries', <<entry>>, {0})
    BY <1>2, <2>1, TriedOne
  <2>3. QED BY <1>1, <1>2, <1>5, <1>6, <1>7, <1>8, <2>2, CountMoveOn
<1>9. CASE MoveOn(p, <<>>, <<>>)
  BY <1>1, <1>2, <1>5, <1>6, <1>7, <1>9, CountMoveOn
<1>10. CASE Fails(entry.event) /\ Failed(p, entry)
  <2>1. tries'[entry.event] >= tries[entry.event] + 1 \/ tries'[entry.event] = MaxTries
    BY <1>1, <1>2, <1>10, ForwardCounts
  <2>2. tries[entry.event] \in Nat /\ tries'[entry.event] \in Nat /\ entry.count \in Nat
    BY <1>2, <1>4
  <2>3. CASE entry.count + 1 >= Limit[p]
    <3>1. MoveOn(p, <<>>, <<DeadLetter(entry)>>)
      BY <1>10, <2>3 DEF Failed
    <3>2. tries'[entry.event] >= Limit[p] + 0
      BY <1>2, <1>3, <2>1, <2>2, <2>3
    <3>3. /\ DeadLetter(entry) \in Entry /\ DeadLetter(entry).event = entry.event
          /\ DeadLetter(entry).count = 0
      BY <1>2, Counting
    <3>4. Tried(tries', <<DeadLetter(entry)>>, Attempts)
      BY <1>2, <3>2, <3>3, TriedOne
    <3>5. <<DeadLetter(entry)>> \in Seq(Entry)
      BY <3>3
    <3>6. QED BY <1>1, <1>2, <1>5, <1>6, <1>7, <3>1, <3>4, <3>5, CountMoveOn
  <2>4. CASE ~(entry.count + 1 >= Limit[p])
    <3>1. MoveOn(p, <<Again(entry)>>, <<>>)
      BY <1>10, <2>4 DEF Failed
    <3>2. tries'[entry.event] >= 0 + (entry.count + 1)
      BY <1>2, <1>3, <2>1, <2>2, <2>4
    <3>3. /\ Again(entry) \in Entry /\ Again(entry).event = entry.event
          /\ Again(entry).count = entry.count + 1
      BY <1>2, <2>2, <2>4, Counting
    <3>4. Tried(tries', <<Again(entry)>>, {0})
      BY <1>2, <3>2, <3>3, TriedOne
    <3>5. <<Again(entry)>> \in Seq(Entry)
      BY <3>3
    <3>6. QED BY <1>1, <1>2, <1>5, <1>6, <1>7, <3>1, <3>4, <3>5, CountMoveOn
  <2>5. QED BY <2>3, <2>4
<1>11. QED BY <1>8, <1>9, <1>10 DEF Flush

LEMMA CountRetry ==
    ASSUME CountInv, TypeOK', NEW p \in Workers, Retry(p)
    PROVE  CountInv'
<1> DEFINE entry == Head(w[p].todo)
           e == entry.event
<1>1. /\ TypeOK /\ w[p].pc = "dlq" /\ w[p].todo # <<>> /\ w[p] \in Worker
      /\ UNCHANGED <<queue, file, opened>>
  BY DEF Retry, CountInv, TypeOK
<1>2. /\ entry \in Entry /\ e \in Events /\ entry.count \in 0..MaxTries
      /\ Bases(w[p]) = Attempts /\ <<>> \in Seq(Entry)
      /\ Limit[p] \in Nat /\ MaxTries \in Nat
  BY <1>1, TypeEntry, Counting, OutboxAssumption DEF Bases
\* By so many attempts some forwarder made the entry a dead letter.
<1>3. PICK first \in Forwarders : tries[e] >= Limit[first] + entry.count
  <2>1. w[p].todo \in Seq(Entry) /\ Tried(tries, w[p].todo, Attempts)
    BY <1>1, <1>2 DEF CountInv, WorkerTried, Worker
  <2>2. \E base \in Attempts : tries[e] >= base + entry.count
    BY <1>1, <2>1, TriedHead
  <2>3. QED BY <2>2 DEF Attempts
<1>4. /\ tries[e] \in 0..MaxTries /\ tries'[e] \in 0..MaxTries
      /\ Limit[first] \in Nat /\ Limit[first] \in Attempts
      /\ Limit[first] + Limit[p] <= MaxTries
  BY <1>1, <1>2, OutboxAssumption DEF TypeOK, Forwarders, Attempts
<1>5. /\ \A f \in Events : tries'[f] >= tries[f]
      /\ tries'[e] >= tries[e] + 1 \/ tries'[e] = MaxTries
  <2>1. Delivers(e) \/ Fails(e)
    BY DEF Retry
  <2>2. QED BY <1>1, <1>2, <2>1, ForwardCounts
<1>6. \A bases : Tried(tries', <<>>, bases)
  BY TriedNone
\* An entry that is given up has been tried Limit[p] - 1 times in this list
\* and Limit[first] times before; this attempt was the last.
<1>7. GivenUpAfterAllTries'
  <2>1. CASE UNCHANGED dropped
    BY <1>1, <1>5, <2>1, GivenUpStays DEF CountInv
  <2>2. CASE GivesUp(p, entry) /\ dropped' = dropped \cup {<<e, p>>}
    <3>1. tries'[e] >= Limit[first] + Limit[p]
      BY <1>2, <1>3, <1>4, <1>5, <2>2 DEF GivesUp
    <3>2. ASSUME NEW d \in dropped
          PROVE  \E q \in Forwarders : tries'[d[1]] >= Limit[q] + Limit[d[2]]
      <4>1. PICK q \in Forwarders : tries[d[1]] >= Limit[q] + Limit[d[2]]
        BY DEF CountInv, GivenUpAfterAllTries
      <4>2. d[1] \in Events /\ d[2] \in Workers
        BY <1>1 DEF TypeOK
      <4>3. /\ tries[d[1]] \in Nat /\ tries'[d[1]] \in Nat
            /\ tries'[d[1]] >= tries[d[1]]
        BY <1>1, <1>5, <4>2, OutboxAssumption DEF TypeOK
      <4>4. Limit[q] \in Nat /\ Limit[d[2]] \in Nat
        BY <4>2, OutboxAssumption DEF Forwarders
      <4>5. tries'[d[1]] >= Limit[q] + Limit[d[2]]
        BY <4>1, <4>3, <4>4
      <4> QED BY <4>5
    <3> HIDE DEF e
    <3>3. QED BY <2>2, <3>1, <3>2 DEF GivenUpAfterAllTries
  <2>3. QED BY <2>1, <2>2 DEF Retry
<1>8. CASE MoveOn(p, <<>>, <<>>)
  BY <1>1, <1>2, <1>5, <1>6, <1>7, <1>8, CountMoveOn
<1>9. CASE ~GivesUp(p, entry) /\ MoveOn(p, <<Again(entry)>>, <<>>)
  <2>1. entry.count + 1 < Limit[p] /\ entry.count \in Nat
    BY <1>2, <1>9 DEF GivesUp
  <2>2. tries'[e] >= Limit[first] + (entry.count + 1)
    BY <1>2, <1>3, <1>4, <1>5, <2>1
  <2>3. /\ Again(entry) \in Entry /\ Again(entry).event = e
        /\ Again(entry).count = entry.count + 1
    BY <1>2, <2>1, Counting
  <2>4. Tried(tries', <<Again(entry)>>, Attempts)
    BY <1>4, <2>2, <2>3, TriedOne
  <2>5. <<Again(entry)>> \in Seq(Entry)
    BY <2>3
  <2>6. QED BY <1>1, <1>2, <1>5, <1>6, <1>7, <1>9, <2>4, <2>5, CountMoveOn
<1>10. QED BY <1>8, <1>9 DEF Retry

\* Writing a content whose entries have been tried keeps the file's tried.
LEMMA CountWrite ==
    ASSUME CountInv, NEW p, NEW content, ContentTried(tries, content),
           Write(p, content), UNCHANGED tries
    PROVE  /\ file' # Torn => ContentTried(tries', file')
           /\ opened' \subseteq opened \ {p}
BY DEF Write

LEMMA CountInit == Init => CountInv
<1> SUFFICES ASSUME Init PROVE CountInv
  OBVIOUS
<1>1. \A bases : Tried(tries, <<>>, bases)
  BY TriedNone
<1>2. ContentTried(tries, Nothing) /\ WorkerTried(tries, Off)
  BY <1>1 DEF ContentTried, WorkerTried, Nothing, Off
<1>3. \A p \in Workers : w[p].pc = "off"
  BY DEF Init, Off
<1>4. GivenUpAfterAllTries
  BY DEF Init, GivenUpAfterAllTries
<1>5. \A p \in Workers : WorkerTried(tries, w[p])
  BY <1>2 DEF Init
<1>6. QED BY <1>1, <1>2, <1>3, <1>4, <1>5, TypeInit DEF Init, CountInv

LEMMA CountStep ==
    ASSUME CountInv, [Next]_vars
    PROVE  CountInv'
<1>1. TypeOK /\ TypeOK'
  BY TypeStep DEF CountInv
<1>2. \A bases : Tried(tries, <<>>, bases)
  BY TriedNone
<1>3. WorkerTried(tries, Off)
  BY <1>2 DEF ContentTried, WorkerTried, Nothing, Off
<1>4. ASSUME NEW e \in Events, Enqueue(e) PROVE CountInv'
  <2>1. [event |-> e, count |-> 0] \in Entry /\ tries[e] \in Nat
    BY <1>1, OutboxAssumption DEF Entry, TypeOK
  <2>2. Tried(tries, <<[event |-> e, count |-> 0]>>, {0})
    BY <2>1, TriedOne
  <2>3. queue' = queue \o <<[event |-> e, count |-> 0]>>
    BY <1>1, <1>4, <2>1, AppendIsConcat DEF Enqueue, TypeOK
  <2>4. Tried(tries, queue', {0})
    <3>1. <<[event |-> e, count |-> 0]>> \in Seq(Entry) /\ queue \in Seq(Entry)
      BY <1>1, <2>1 DEF TypeOK
    <3>2. Tried(tries, queue \o <<[event |-> e, count |-> 0]>>, {0})
      BY <2>2, <3>1, TriedConcat DEF CountInv
    <3>3. QED BY <2>3, <3>2
  <2>5. QED BY <1>1, <1>4, <2>4, OutboxAssumption
           DEF Enqueue, Open, CountInv, GivenUpAfterAllTries
<1>5. CASE WriterPersists
  <2>1. ContentTried(tries, [queue |-> queue, dlq |-> <<>>])
    BY <1>2 DEF CountInv, ContentTried
  <2>2. QED BY <1>1, <1>5, <2>1, CountWrite
           DEF WriterPersists, CountInv, GivenUpAfterAllTries
<1>6. CASE WriterRestarts
  BY <1>1, <1>2, <1>6 DEF WriterRestarts, CountInv, GivenUpAfterAllTries
<1>7. ASSUME NEW p \in Workers, Start(p) PROVE CountInv'
  <2>1. ContentTried(tries, file) /\ w \in [Workers -> Worker]
    BY <1>1, <1>7 DEF Start, CountInv, TypeOK
  <2>2. /\ WorkerTried(tries, w'[p])
        /\ \A q \in Workers \ {p} : w'[q] = w[q]
    BY <1>2, <1>7, <2>1 DEF Start, WorkerTried, ContentTried, Bases
  <2>3. p \notin opened
    BY <1>7 DEF Start, CountInv
  <2>4. w'[p].pc = "queue" => p \in Forwarders
    BY <1>7, <2>1 DEF Start, Forwarders
  <2>5. QED BY <1>1, <1>7, <2>2, <2>3, <2>4 DEF Start, CountInv, GivenUpAfterAllTries
<1>8. ASSUME NEW p \in Workers, Flush(p) \/ Retry(p) PROVE CountInv'
  BY <1>1, <1>8, CountFlush, CountRetry
<1>9. ASSUME NEW p \in Workers, Save(p) PROVE CountInv'
  <2>1. w[p] \in Worker /\ w \in [Workers -> Worker] /\ WorkerTried(tries, w[p])
    BY <1>1 DEF TypeOK, CountInv
  <2>2. /\ WorkerTried(tries, w'[p]) /\ w'[p].pc \in {"saveQueue", "saveDlq"}
        /\ \A q \in Workers \ {p} : w'[q] = w[q]
    BY <1>2, <1>9, <2>1 DEF Save, WorkerTried, ContentTried, Bases, Worker, Content
  <2>3. QED BY <1>1, <1>9, <2>2, OutboxAssumption
           DEF Save, Open, CountInv, GivenUpAfterAllTries
<1>10. ASSUME NEW p \in Workers, WorkerPersists(p) PROVE CountInv'
  <2>1. /\ w[p] \in Worker /\ w \in [Workers -> Worker] /\ WorkerTried(tries, w[p])
        /\ w[p].pc \in {"saveQueue", "saveDlq"}
    BY <1>1, <1>10 DEF TypeOK, CountInv, WorkerPersists
  <2>2. /\ WorkerTried(tries, w'[p])
        /\ \A q \in Workers \ {p} : w'[q] = w[q]
    BY <1>2, <1>3, <1>10, <2>1
       DEF WorkerPersists, WorkerTried, ContentTried, Bases, Worker, Content
  <2>3. ContentTried(tries, w[p].mem)
    BY <2>1 DEF WorkerTried
  <2>4. w'[p].pc = "queue" => p \in Forwarders
    BY <1>10, <2>1 DEF WorkerPersists, Forwarders, Off, Worker
  <2>5. UNCHANGED <<queue, tries, dropped>>
    BY <1>10 DEF WorkerPersists
  <2>6. CASE Write(p, w[p].mem)
    BY <1>1, <2>2, <2>3, <2>4, <2>5, <2>6, CountWrite DEF CountInv, GivenUpAfterAllTries
  <2>7. CASE p \notin opened /\ UNCHANGED <<file, opened>>
    BY <1>1, <2>2, <2>4, <2>5, <2>7 DEF CountInv, GivenUpAfterAllTries
  <2>8. QED BY <1>10, <2>6, <2>7 DEF WorkerPersists
<1>11. ASSUME NEW p \in Workers, WorkerDies(p) PROVE CountInv'
  <2>1. w'[p] = Off /\ \A q \in Workers \ {p} : w'[q] = w[q]
    BY <1>1, <1>11 DEF WorkerDies, TypeOK
  <2>2. QED BY <1>1, <1>3, <1>11, <2>1 DEF WorkerDies, CountInv, GivenUpAfterAllTries, Off
<1>12. CASE UNCHANGED vars
  BY <1>1, <1>12 DEF vars, CountInv, GivenUpAfterAllTries
<1>13. QED BY <1>4, <1>5, <1>6, <1>7, <1>8, <1>9, <1>10, <1>11, <1>12 DEF Next

\* An event a worker gives up was forwarded as often as that worker's limit from
\* a dead-letter queue, and before as often as some forwarder's limit from a
\* queue (outbox_daemon.lua, outbox_retry.lua), whichever workers did it, whatever
\* they overwrote and however often the write process put the event back with its
\* count at zero.
THEOREM GivenUpCorrect == Spec => []GivenUpAfterAllTries
<1>1. CountInv => GivenUpAfterAllTries
  BY DEF CountInv
<1>2. QED BY <1>1, CountInit, CountStep, PTL DEF Spec

-----------------------------------------------------------------------------
(* Where an event is that nothing has put at risk *)

Unsafe == emitted \ (received \cup GivenUp \cup exposed)

\* What a worker will write: the list it is in counts with what it keeps and
\* has not looked at, not with what it had when the pass began.
Hand(x) ==
    CASE x.pc = "queue" -> EventsOf(x.todo) \cup EventsOf(x.keep) \cup EventsOf(x.mem.dlq)
      [] x.pc = "dlq" -> EventsOf(x.todo) \cup EventsOf(x.keep) \cup EventsOf(x.mem.queue)
      [] OTHER -> EventsOf(x.mem.queue) \cup EventsOf(x.mem.dlq)

InQueue == Unsafe \subseteq EventsOf(queue)
InFile == file # Torn => Unsafe \subseteq OnFile
InHands == \A p \in Workers : w[p].pc # "off" => Unsafe \subseteq Hand(w[p])
TornIsOpen == file = Torn /\ opened = {} => Unsafe = {}

Holds == InQueue /\ InFile /\ InHands /\ TornIsOpen

LEMMA EventsOfNone == EventsOf(<<>>) = {}
BY DEF EventsOf

LEMMA EventsOfOne == ASSUME NEW entry PROVE EventsOf(<<entry>>) = {entry.event}
BY DEF EventsOf

LEMMA EventsOfConcat ==
    ASSUME NEW s \in Seq(Entry), NEW r \in Seq(Entry)
    PROVE  EventsOf(s) \cup EventsOf(r) \subseteq EventsOf(s \o r)
<1>1. /\ Len(s) \in Nat /\ Len(r) \in Nat /\ Len(s \o r) = Len(s) + Len(r)
      /\ \A i \in 1..Len(s) + Len(r) :
            (s \o r)[i] = IF i <= Len(s) THEN s[i] ELSE r[i - Len(s)]
      /\ DOMAIN s = 1..Len(s) /\ DOMAIN r = 1..Len(r)
      /\ DOMAIN (s \o r) = 1..Len(s) + Len(r)
  BY ConcatProperties, LenProperties
<1>2. ASSUME NEW i \in 1..Len(s) PROVE s[i].event \in EventsOf(s \o r)
  <2>1. i \in 1..Len(s) + Len(r) /\ (s \o r)[i] = s[i]
    BY <1>1
  <2> QED BY <1>1, <2>1 DEF EventsOf
<1>3. ASSUME NEW i \in 1..Len(r) PROVE r[i].event \in EventsOf(s \o r)
  <2>1. i + Len(s) \in 1..Len(s) + Len(r) /\ (s \o r)[i + Len(s)] = r[i]
    BY <1>1
  <2> QED BY <1>1, <2>1 DEF EventsOf
<1> QED BY <1>1, <1>2, <1>3 DEF EventsOf

LEMMA EventsOfHead ==
    ASSUME NEW s \in Seq(Entry), s # <<>>
    PROVE  EventsOf(s) \subseteq {Head(s).event} \cup EventsOf(Tail(s))
<1>1. /\ Len(s) \in Nat /\ Len(s) > 0 /\ Head(s) = s[1] /\ DOMAIN s = 1..Len(s)
  BY HeadTailProperties, EmptySeq, LenProperties
<1>2. /\ Len(Tail(s)) = Len(s) - 1
      /\ \A i \in 1..Len(Tail(s)) : Tail(s)[i] = s[i + 1]
      /\ DOMAIN Tail(s) = 1..Len(s) - 1
  BY <1>1, HeadTailProperties, LenProperties
<1>3. ASSUME NEW i \in 1..Len(s)
      PROVE  s[i].event \in {Head(s).event} \cup EventsOf(Tail(s))
  <2>1. CASE i = 1
    BY <1>1, <2>1
  <2>2. CASE i # 1
    <3>1. i - 1 \in 1..Len(Tail(s)) /\ Tail(s)[i - 1] = s[i]
      BY <1>1, <1>2, <2>2
    <3> QED BY <1>1, <1>2, <3>1 DEF EventsOf
  <2> QED BY <2>1, <2>2
<1> QED BY <1>1, <1>3 DEF EventsOf

\* A worker lets an entry go only when it is kept, a dead letter, received,
\* given up, or taken for delivered by mistake.
LEMMA HoldsMoveOn ==
    ASSUME CountInv, Holds, NEW p \in Workers,
           w[p].pc \in {"queue", "dlq"}, w[p].todo # <<>>,
           NEW kept \in Seq(Entry), NEW dead \in Seq(Entry), MoveOn(p, kept, dead),
           UNCHANGED <<queue, file, opened, emitted>>, exposed \subseteq exposed',
           received \subseteq received', dropped \subseteq dropped',
           \/ Head(w[p].todo).event
                 \in EventsOf(kept) \cup received' \cup GivenUp' \cup exposed'
           \/ w[p].pc = "queue" /\ Head(w[p].todo).event \in EventsOf(dead)
    PROVE  Holds'
<1> DEFINE e == Head(w[p].todo).event
<1>1. /\ Unsafe' \subseteq Unsafe
      /\ Unsafe' \cap (received' \cup GivenUp' \cup exposed') = {}
  BY DEF Unsafe, GivenUp
<1>2. /\ w'[p].pc = w[p].pc /\ w'[p].todo = Tail(w[p].todo)
      /\ w'[p].keep = w[p].keep \o kept
      /\ w'[p].mem.queue = w[p].mem.queue /\ w'[p].mem.dlq = w[p].mem.dlq \o dead
      /\ \A q \in Workers \ {p} : w'[q] = w[q]
  BY MovedOn DEF CountInv
<1>3. /\ w[p].todo \in Seq(Entry) /\ w[p].keep \in Seq(Entry)
      /\ w[p].mem.dlq \in Seq(Entry)
  BY DEF CountInv, TypeOK, Worker, Content
<1>4. /\ EventsOf(w[p].todo) \subseteq {e} \cup EventsOf(w'[p].todo)
      /\ EventsOf(w[p].keep) \cup EventsOf(kept) \subseteq EventsOf(w'[p].keep)
      /\ EventsOf(w[p].mem.dlq) \cup EventsOf(dead) \subseteq EventsOf(w'[p].mem.dlq)
  <2>1. EventsOf(w[p].todo) \subseteq {e} \cup EventsOf(Tail(w[p].todo))
    BY <1>3, EventsOfHead
  <2>2. EventsOf(w[p].keep) \cup EventsOf(kept) \subseteq EventsOf(w[p].keep \o kept)
    BY <1>3, EventsOfConcat
  <2>3. EventsOf(w[p].mem.dlq) \cup EventsOf(dead)
            \subseteq EventsOf(w[p].mem.dlq \o dead)
    BY <1>3, EventsOfConcat
  <2> QED BY <1>2, <2>1, <2>2, <2>3
<1>5. Unsafe' \subseteq Hand(w'[p])
  <2>1. Unsafe \subseteq Hand(w[p])
    BY DEF Holds, InHands
  <2>2. CASE w[p].pc = "queue"
    BY <1>1, <1>2, <1>4, <2>1, <2>2 DEF Hand
  <2>3. CASE w[p].pc = "dlq"
    BY <1>1, <1>2, <1>4, <2>1, <2>3 DEF Hand
  <2> QED BY <2>2, <2>3
<1>6. InHands'
  <2> SUFFICES ASSUME NEW q \in Workers, w'[q].pc # "off"
               PROVE  Unsafe' \subseteq Hand(w'[q])
    BY DEF InHands
  <2>1. CASE q = p
    BY <1>5, <2>1
  <2>2. CASE q # p
    BY <1>1, <1>2, <2>2 DEF Holds, InHands
  <2> QED BY <2>1, <2>2
<1> QED BY <1>1, <1>6 DEF Holds, InQueue, InFile, OnFile, TornIsOpen

\* An event is received or exposed when it counts as delivered.
LEMMA DeliveredOrExposed ==
    ASSUME NEW e, Delivers(e) \/ Fails(e)
    PROVE  /\ received \subseteq received' /\ exposed \subseteq exposed'
           /\ Delivers(e) => e \in received' \cup exposed'
BY DEF Delivers, Fails

LEMMA HoldsFlush ==
    ASSUME CountInv, Holds, NEW p \in Workers, Flush(p)
    PROVE  Holds'
<1> DEFINE entry == Head(w[p].todo)
<1>1. /\ TypeOK /\ w[p].pc = "queue" /\ w[p].todo # <<>> /\ <<>> \in Seq(Entry)
      /\ UNCHANGED <<queue, file, opened, dropped, emitted>>
  BY DEF Flush, CountInv
<1>2. entry \in Entry /\ entry.count \in Nat /\ Limit[p] \in Nat
  BY <1>1, TypeEntry, Counting, OutboxAssumption
<1>3. received \subseteq received' /\ exposed \subseteq exposed'
  BY DeliveredOrExposed DEF Flush
<1>4. CASE MoveOn(p, <<entry>>, <<>>)
  <2>1. <<entry>> \in Seq(Entry) /\ entry.event \in EventsOf(<<entry>>)
    BY <1>2, EventsOfOne
  <2> QED BY <1>1, <1>3, <1>4, <2>1, HoldsMoveOn
<1>5. CASE Delivers(entry.event) /\ MoveOn(p, <<>>, <<>>)
  <2>1. entry.event \in received' \cup exposed'
    BY <1>5, DeliveredOrExposed
  <2> QED BY <1>1, <1>3, <1>5, <2>1, HoldsMoveOn
<1>6. CASE Failed(p, entry)
  <2>1. CASE entry.count + 1 >= Limit[p]
    <3>1. /\ <<DeadLetter(entry)>> \in Seq(Entry)
          /\ entry.event \in EventsOf(<<DeadLetter(entry)>>)
      BY <1>2, Counting, EventsOfOne
    <3>2. MoveOn(p, <<>>, <<DeadLetter(entry)>>)
      BY <1>6, <2>1 DEF Failed
    <3> QED BY <1>1, <1>3, <3>1, <3>2, HoldsMoveOn
  <2>2. CASE ~(entry.count + 1 >= Limit[p])
    <3>1. entry.count + 1 < Limit[p]
      BY <1>2, <2>2
    <3>2. /\ <<Again(entry)>> \in Seq(Entry)
          /\ entry.event \in EventsOf(<<Again(entry)>>)
      BY <1>2, <3>1, Counting, EventsOfOne
    <3>3. MoveOn(p, <<Again(entry)>>, <<>>)
      BY <1>6, <2>2 DEF Failed
    <3> QED BY <1>1, <1>3, <3>2, <3>3, HoldsMoveOn
  <2> QED BY <2>1, <2>2
<1> QED BY <1>4, <1>5, <1>6 DEF Flush

LEMMA HoldsRetry ==
    ASSUME CountInv, Holds, NEW p \in Workers, Retry(p)
    PROVE  Holds'
<1> DEFINE entry == Head(w[p].todo)
<1>1. /\ TypeOK /\ w[p].pc = "dlq" /\ w[p].todo # <<>> /\ <<>> \in Seq(Entry)
      /\ UNCHANGED <<queue, file, opened, emitted>>
  BY DEF Retry, CountInv
<1>2. entry \in Entry /\ entry.count \in Nat /\ Limit[p] \in Nat
  BY <1>1, TypeEntry, Counting, OutboxAssumption
<1>3. /\ received \subseteq received' /\ exposed \subseteq exposed'
      /\ dropped \subseteq dropped'
  BY DeliveredOrExposed DEF Retry
<1>4. CASE /\ MoveOn(p, <<>>, <<>>)
           /\ entry.event \in received' \cup GivenUp' \cup exposed'
  BY <1>1, <1>3, <1>4, HoldsMoveOn
<1>5. CASE ~GivesUp(p, entry) /\ MoveOn(p, <<Again(entry)>>, <<>>)
  <2>1. entry.count + 1 < Limit[p]
    BY <1>2, <1>5 DEF GivesUp
  <2>2. /\ <<Again(entry)>> \in Seq(Entry)
        /\ entry.event \in EventsOf(<<Again(entry)>>)
    BY <1>2, <2>1, Counting, EventsOfOne
  <2> QED BY <1>1, <1>3, <1>5, <2>2, HoldsMoveOn
<1>6. CASE Delivers(entry.event) /\ MoveOn(p, <<>>, <<>>)
  BY <1>4, <1>6, DeliveredOrExposed
<1>7. CASE MoveOn(p, <<>>, <<>>) /\ dropped' = dropped \cup {<<entry.event, p>>}
  <2>1. <<entry.event, p>> \in dropped' /\ <<entry.event, p>>[1] = entry.event
    BY <1>7
  <2>2. entry.event \in GivenUp'
    BY <2>1 DEF GivenUp
  <2> QED BY <1>4, <1>7, <2>2
<1> QED BY <1>5, <1>6, <1>7 DEF Retry

\* A write leaves a file with every event that is not exposed.
LEMMA HoldsWrite ==
    ASSUME Holds, NEW p, NEW content \in Content, Write(p, content),
           Unsafe \subseteq EventsOf(content.queue) \cup EventsOf(content.dlq),
           UNCHANGED <<queue, received, dropped, emitted>>
    PROVE  /\ Unsafe' \subseteq Unsafe
           /\ InQueue' /\ InFile' /\ TornIsOpen'
<1>1. Unsafe' \subseteq Unsafe /\ (file' = Torn => Unsafe' = {})
  BY DEF Write, Unsafe, GivenUp
<1>2. InFile'
  BY <1>1 DEF Write, InFile, OnFile
<1> QED BY <1>1, <1>2 DEF Holds, InQueue, TornIsOpen

LEMMA HoldsStep ==
    ASSUME CountInv, Holds, [Next]_vars
    PROVE  Holds'
<1>1. TypeOK
  BY DEF CountInv
<1>2. ASSUME NEW e \in Events, Enqueue(e) PROVE Holds'
  <2>1. [event |-> e, count |-> 0] \in Entry
    BY OutboxAssumption DEF Entry
  <2>2. EventsOf(queue) \cup {e} \subseteq EventsOf(queue')
    <3>1. queue' = queue \o <<[event |-> e, count |-> 0]>>
      BY <1>1, <1>2, <2>1, AppendIsConcat DEF Enqueue, TypeOK
    <3>2. <<[event |-> e, count |-> 0]>> \in Seq(Entry) /\ queue \in Seq(Entry)
      BY <1>1, <2>1 DEF TypeOK
    <3>3. EventsOf(<<[event |-> e, count |-> 0]>>) = {e}
      BY EventsOfOne
    <3> QED BY <3>1, <3>2, <3>3, EventsOfConcat
  <2>3. /\ Unsafe' \subseteq Unsafe \cup {e}
        /\ (\E p \in Workers : w[p].pc # "off") => Unsafe' \subseteq Unsafe
    BY <1>2 DEF Enqueue, Unsafe, GivenUp
  <2>4. w' = w
    BY <1>2 DEF Enqueue
  <2>5. CASE file' = Torn /\ Writer \in opened'
    BY <2>2, <2>3, <2>4, <2>5 DEF Holds, InQueue, InFile, InHands, TornIsOpen
  <2>6. CASE UNCHANGED <<file, opened>>
    <3>1. Unsafe' \subseteq Unsafe
      BY <1>2, <2>6 DEF Enqueue, Unsafe, GivenUp
    <3> QED BY <2>2, <2>4, <2>6, <3>1
               DEF Holds, InQueue, InFile, OnFile, InHands, TornIsOpen
  <2> QED BY <1>2, <2>5, <2>6 DEF Enqueue, Open
<1>3. CASE WriterPersists
  <2> DEFINE content == [queue |-> queue, dlq |-> <<>>]
  <2>1. /\ content \in Content
        /\ Unsafe \subseteq EventsOf(content.queue) \cup EventsOf(content.dlq)
    BY <1>1 DEF TypeOK, Content, Holds, InQueue
  <2>2. /\ Write(Writer, content) /\ w' = w
        /\ UNCHANGED <<queue, received, dropped, emitted>>
    BY <1>3 DEF WriterPersists
  <2> HIDE DEF content
  <2>3. Unsafe' \subseteq Unsafe /\ InQueue' /\ InFile' /\ TornIsOpen'
    BY <2>1, <2>2, HoldsWrite
  <2> QED BY <2>2, <2>3 DEF Holds, InHands
<1>4. CASE WriterRestarts
  <2>1. Unsafe' = {}
    BY <1>4 DEF WriterRestarts, Unsafe, GivenUp
  <2> QED BY <2>1 DEF Holds, InQueue, InFile, InHands, TornIsOpen
<1>5. ASSUME NEW p \in Workers, Start(p) PROVE Holds'
  <2>1. /\ Unsafe' = Unsafe /\ file # Torn /\ file' = file /\ opened' = opened
        /\ queue' = queue
    BY <1>5 DEF Start, Unsafe, GivenUp
  <2>2. w \in [Workers -> Worker] /\ file \in Content
    BY <1>1, <2>1 DEF TypeOK
  <2>3. \A q \in Workers \ {p} : w'[q] = w[q]
    BY <1>5, <2>2 DEF Start
  <2>4. Hand(w'[p]) = OnFile
    BY <1>5, <2>1, <2>2, EventsOfNone DEF Start, Hand, OnFile
  <2>5. InHands'
    BY <2>1, <2>3, <2>4 DEF Holds, InHands, InFile
  <2> QED BY <2>1, <2>5 DEF Holds, InQueue, InFile, OnFile, TornIsOpen
<1>6. ASSUME NEW p \in Workers, Save(p) PROVE Holds'
  <2>1. w[p] \in Worker /\ w \in [Workers -> Worker] /\ w[p].pc # "off"
    BY <1>1, <1>6 DEF TypeOK, Save
  <2>2. /\ Hand(w[p]) \subseteq Hand(w'[p])
        /\ \A q \in Workers \ {p} : w'[q] = w[q]
    BY <1>6, <2>1, EventsOfNone DEF Save, Hand, Worker, Content
  <2>3. Unsafe' = Unsafe /\ queue' = queue
    BY <1>6 DEF Save, Unsafe, GivenUp
  <2>4. InHands'
    BY <2>1, <2>2, <2>3 DEF Holds, InHands
  <2>5. CASE file' = Torn /\ p \in opened'
    BY <2>3, <2>4, <2>5 DEF Holds, InQueue, InFile, TornIsOpen
  <2>6. CASE UNCHANGED <<file, opened>>
    BY <2>3, <2>4, <2>6 DEF Holds, InQueue, InFile, OnFile, TornIsOpen
  <2> QED BY <1>6, <2>5, <2>6 DEF Save, Open
<1>7. ASSUME NEW p \in Workers, WorkerPersists(p) PROVE Holds'
  <2>1. /\ w[p] \in Worker /\ w \in [Workers -> Worker] /\ w[p].mem \in Content
        /\ w[p].pc \in {"saveQueue", "saveDlq"} /\ w[p].keep = <<>>
    BY <1>1, <1>7 DEF TypeOK, CountInv, WorkerPersists, WorkerTried, Worker
  <2>2. Unsafe \subseteq Hand(w[p])
        /\ Hand(w[p]) = EventsOf(w[p].mem.queue) \cup EventsOf(w[p].mem.dlq)
    BY <2>1 DEF Holds, InHands, Hand
  <2>3. UNCHANGED <<queue, received, dropped, emitted>>
    BY <1>7 DEF WorkerPersists
  <2>4. Unsafe' \subseteq Unsafe /\ InQueue' /\ InFile' /\ TornIsOpen'
    <3>1. CASE Write(p, w[p].mem)
      BY <2>1, <2>2, <2>3, <3>1, HoldsWrite
    <3>2. CASE UNCHANGED <<file, opened, mixed, exposed, faults>>
      BY <2>3, <3>2 DEF Holds, InQueue, InFile, OnFile, TornIsOpen, Unsafe, GivenUp
    <3> QED BY <1>7, <3>1, <3>2 DEF WorkerPersists
  <2>5. /\ w'[p].pc # "off" => Hand(w[p]) \subseteq Hand(w'[p])
        /\ \A q \in Workers \ {p} : w'[q] = w[q]
    BY <1>7, <2>1, <2>2, EventsOfNone DEF WorkerPersists, Hand, Worker, Content, Off
  <2>6. InHands'
    BY <2>1, <2>4, <2>5 DEF Holds, InHands
  <2> QED BY <2>4, <2>6 DEF Holds
<1>8. ASSUME NEW p \in Workers, WorkerDies(p) PROVE Holds'
  <2>1. CASE p \in opened
    <3>1. Unsafe' = {}
      BY <1>8, <2>1 DEF WorkerDies, Unsafe, GivenUp
    <3> QED BY <3>1 DEF Holds, InQueue, InFile, InHands, TornIsOpen
  <2>2. CASE p \notin opened
    <3>1. /\ Unsafe' = Unsafe /\ file' = file /\ opened' = opened /\ queue' = queue
      BY <1>8, <2>2 DEF WorkerDies, Unsafe, GivenUp
    <3>2. w'[p] = Off /\ \A q \in Workers \ {p} : w'[q] = w[q]
      BY <1>1, <1>8 DEF WorkerDies, TypeOK
    <3>3. InHands'
      BY <3>1, <3>2 DEF Holds, InHands, Off
    <3> QED BY <3>1, <3>3 DEF Holds, InQueue, InFile, OnFile, TornIsOpen
  <2> QED BY <2>1, <2>2
<1>9. CASE UNCHANGED vars
  BY <1>9 DEF vars, Holds, InQueue, InFile, InHands, TornIsOpen, Unsafe, GivenUp,
              OnFile
<1> QED
  BY <1>2, <1>3, <1>4, <1>5, <1>6, <1>7, <1>8, <1>9, HoldsFlush, HoldsRetry DEF Next

\* An event that was not received is in the file or in the hands of a process
\* that will write it, or was given up, unless it was emitted while a worker
\* ran or the file would not open, was forwarded without a connection, two
\* writers mixed their contents, a write failed or a process died at the wrong
\* time (enqueue_event, Storage.persist, forward_event and outbox_daemon.lua
\* together).
THEOREM KeptCorrect == Spec => []KeptUnlessExposed
<1>1. Init => Holds
  BY DEF Init, Holds, InQueue, InFile, InHands, TornIsOpen, Unsafe
<1>2. CountInv /\ Holds /\ [Next]_vars => CountInv' /\ Holds'
  BY CountStep, HoldsStep
<1>3. CountInv /\ Holds => KeptUnlessExposed
  <2> SUFFICES ASSUME CountInv, Holds PROVE Unsafe \subseteq Kept
    BY DEF KeptUnlessExposed, Unsafe
  <2>1. CASE file # Torn
    BY <2>1 DEF Holds, InFile, Kept
  <2>2. CASE file = Torn /\ opened = {}
    BY <2>2 DEF Holds, TornIsOpen
  <2>3. CASE Writer \in opened
    BY <2>3 DEF Holds, InQueue, Kept
  <2>4. ASSUME NEW p \in opened \cap Workers PROVE Unsafe \subseteq Kept
    <3>1. w[p].pc \in {"saveQueue", "saveDlq"}
      BY <2>4 DEF CountInv
    <3>2. Unsafe \subseteq InHand(p)
      BY <3>1 DEF Holds, InHands, Hand, InHand
    <3> QED BY <3>2 DEF Kept
  <2>5. opened \subseteq Workers \cup {Writer}
    BY DEF CountInv, TypeOK
  <2> QED BY <2>1, <2>2, <2>3, <2>4, <2>5
<1> QED BY <1>1, <1>2, <1>3, CountInit, PTL DEF Spec

=============================================================================
