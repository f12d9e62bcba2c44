------------------------------- MODULE Outbox -------------------------------
(***************************************************************************)
(* The outbox file WRITE_OUTBOX_PATH and the processes that share it: the  *)
(* write process, whose enqueue_event (ao/write/process.lua) adds an event *)
(* to the queue it has in memory and rewrites the file from it; the        *)
(* forwarder scripts/worker/outbox_daemon.lua, as a service (with luv, a   *)
(* timer loop) or run once; and scripts/worker/outbox_retry.lua, which     *)
(* retries the dead-letter queue.                                          *)
(*                                                                         *)
(* None of them locks the file or looks at it before writing it.  A worker *)
(* reads it once, when it starts, and the write process never reads it.    *)
(* Storage.persist truncates the file, then writes it; whoever reads it in *)
(* between, or after two writers have mixed their contents, cannot decode  *)
(* it and dies.  Nobody looks at what Storage.persist returns: the file    *)
(* may not open, and stays as it was, or not take what is written to it.   *)
(*                                                                         *)
(* An event that was tried before may be due or not, as the clock has it.  *)
(* A forwarded event may be received although the bridge says it failed    *)
(* (its reply is not the expected one), and, when there was no connection, *)
(* not be received although the bridge says it was delivered.  The bridge  *)
(* has an endpoint: without one, or switched off, it delivers nothing and  *)
(* says that it did.                                                       *)
(***************************************************************************)
EXTENDS Naturals, Sequences

CONSTANTS Events,     \* events of successful commands
          Workers,    \* worker processes
          Kind,       \* worker -> "service", "once" or "retry"
          Writer,     \* the write process
          Limit,      \* worker -> its OUTBOX_RETRY_LIMIT or RETRY_LIMIT
          MaxTries,   \* bound on the attempts that are counted
          Torn,       \* a file that cannot be decoded
          MaxFaults   \* bound on the number of faults in a behaviour

ASSUME OutboxAssumption ==
    /\ Kind \in [Workers -> {"service", "once", "retry"}]
    /\ Writer \notin Workers
    /\ Limit \in [Workers -> Nat \ {0}]
    /\ MaxTries \in Nat
    /\ \A p, q \in Workers : Limit[p] + Limit[q] <= MaxTries
    /\ MaxFaults \in Nat

VARIABLES queue,    \* outbox_queue in the memory of the write process
          file,     \* WRITE_OUTBOX_PATH
          opened,   \* processes that have truncated it and not written it yet
          mixed,    \* those for which somebody else has written it since
          w,        \* worker -> where it is and what it has in memory
          received, \* events the other side has received
          tries,    \* event -> how often it was forwarded (history)
          dropped,  \* <<event, worker that has given it up>> (history)
          exposed,  \* events the design does not protect (history)
          emitted,  \* events emitted so far (history)
          faults    \* faults so far

vars == <<queue, file, opened, mixed, w, received, tries, dropped, exposed,
          emitted, faults>>

\* An entry of the queue or of the dead-letter queue, whose count is
\* "attempts" and "retries".
Entry == [event : Events, count : 0..MaxTries]
Content == [queue : Seq(Entry), dlq : Seq(Entry)]
Worker == [pc : {"off", "queue", "saveQueue", "dlq", "saveDlq"},
           mem : Content,     \* outbox_queue and outbox_dlq
           todo : Seq(Entry), \* entries of the list it is in, not looked at yet
           keep : Seq(Entry)] \* and those it keeps

TypeOK ==
    /\ queue \in Seq(Entry)
    /\ file \in Content \cup {Torn}
    /\ opened \subseteq Workers \cup {Writer}
    /\ mixed \subseteq opened
    /\ w \in [Workers -> Worker]
    /\ received \subseteq Events
    /\ tries \in [Events -> 0..MaxTries]
    /\ dropped \subseteq Events \X Workers
    /\ exposed \subseteq Events
    /\ emitted \subseteq Events
    /\ faults \in 0..MaxFaults

Nothing == [queue |-> <<>>, dlq |-> <<>>]
Off == [pc |-> "off", mem |-> Nothing, todo |-> <<>>, keep |-> <<>>]

Init ==
    /\ queue = <<>> /\ file = Nothing /\ opened = {} /\ mixed = {}
    /\ w = [p \in Workers |-> Off]
    /\ received = {} /\ tries = [e \in Events |-> 0]
    /\ dropped = {} /\ exposed = {} /\ emitted = {} /\ faults = 0

-----------------------------------------------------------------------------
(* Storage.persist and Storage.load *)

Fault == /\ faults < MaxFaults
         /\ faults' = faults + 1

\* The file is opened, or it cannot be.
Open(p) ==
    \/ /\ file' = Torn
       /\ opened' = opened \cup {p}
       /\ UNCHANGED faults
    \/ Fault /\ UNCHANGED <<file, opened>>

\* A content written over a longer one leaves the rest of that behind; a write
\* that fails leaves the file empty or cut short.
Write(p, content) ==
    /\ \/ /\ file' \in {content} \cup (IF p \in mixed THEN {Torn} ELSE {})
          /\ UNCHANGED faults
       \/ file' = Torn /\ Fault
    /\ opened' = opened \ {p}
    /\ mixed' = (mixed \cup opened) \ {p}
    /\ exposed' = IF file' = Torn THEN exposed \cup (emitted \ received)
                                  ELSE exposed

-----------------------------------------------------------------------------
(* The write process *)

\* enqueue_event: the event enters the queue and the file is opened.  A
\* worker that is running has read the file before.
Enqueue(e) ==
    /\ Writer \notin opened
    /\ e \notin emitted
    /\ emitted' = emitted \cup {e}
    /\ queue' = Append(queue, [event |-> e, count |-> 0])
    /\ Open(Writer)
    /\ exposed' = IF Writer \in opened' /\ \A p \in Workers : w[p].pc = "off"
                    THEN exposed ELSE exposed \cup {e}
    /\ UNCHANGED <<mixed, w, received, tries, dropped>>

\* The whole queue is written, with all that was delivered long ago, and
\* without the dead-letter queue, which this process does not have.
WriterPersists ==
    /\ Writer \in opened
    /\ Write(Writer, [queue |-> queue, dlq |-> <<>>])
    /\ UNCHANGED <<queue, w, received, tries, dropped, emitted>>

\* The write process starts anew, with an empty queue.
WriterRestarts ==
    /\ Fault
    /\ queue' = <<>>
    /\ opened' = opened \ {Writer} /\ mixed' = mixed \ {Writer}
    /\ exposed' = exposed \cup (emitted \ received)
    /\ UNCHANGED <<file, w, received, tries, dropped, emitted>>

-----------------------------------------------------------------------------
(* The workers *)

\* The service loads the file when it starts and never again.
Start(p) ==
    /\ w[p].pc = "off"
    /\ file # Torn
    /\ w' = [w EXCEPT ![p] =
                IF Kind[p] = "retry"
                  THEN [pc |-> "dlq", mem |-> file, todo |-> file.dlq, keep |-> <<>>]
                  ELSE [pc |-> "queue", mem |-> file, todo |-> file.queue, keep |-> <<>>]]
    /\ UNCHANGED <<queue, file, opened, mixed, received, tries, dropped, exposed,
                   emitted, faults>>

CountTry(e) == tries' = [tries EXCEPT ![e] = IF @ < MaxTries THEN @ + 1 ELSE @]

\* bridge.forward_event finds a status below 300 and no reply that has the wrong
\* hash.  Without a connection curl's status is 000 and the reply empty.
Delivers(e) ==
    /\ CountTry(e)
    /\ \/ /\ received' = received \cup {e}
          /\ UNCHANGED <<exposed, faults>>
       \/ /\ Fault
          /\ exposed' = exposed \cup {e}
          /\ UNCHANGED received

\* Any other status or reply; the event may have been received.
Fails(e) ==
    /\ CountTry(e)
    /\ received' \in {received, received \cup {e}}
    /\ UNCHANGED <<exposed, faults>>

\* The entry at hand is dealt with: kept if it is in kept, and added to the
\* dead-letter queue if it is in dead.
MoveOn(p, kept, dead) ==
    w' = [w EXCEPT ![p].todo = Tail(@),
                   ![p].keep = @ \o kept,
                   ![p].mem.dlq = @ \o dead]

\* One attempt or retry more; a dead letter has had no retries.
Again(entry) == [entry EXCEPT !.count = @ + 1]
DeadLetter(entry) == [entry EXCEPT !.count = 0]

\* Mutant: attempts are not limited.
FailedForever(p, entry) == MoveOn(p, <<Again(entry)>>, <<>>)

\* Mutant: the entry that fails for the last time is not put in the
\* dead-letter queue.
FailedQuietly(p, entry) ==
    IF entry.count + 1 >= Limit[p]
      THEN MoveOn(p, <<>>, <<>>)
      ELSE MoveOn(p, <<Again(entry)>>, <<>>)

\* The attempt is counted; the last one makes the entry a dead letter.
Failed(p, entry) ==
    IF entry.count + 1 >= Limit[p]
      THEN MoveOn(p, <<>>, <<DeadLetter(entry)>>)
      ELSE MoveOn(p, <<Again(entry)>>, <<>>)

\* One entry of flush_queue.
Flush(p) ==
    /\ w[p].pc = "queue" /\ w[p].todo # <<>>
    /\ LET entry == Head(w[p].todo) IN
       \/ /\ entry.count > 0 \* not due
          /\ MoveOn(p, <<entry>>, <<>>)
          /\ UNCHANGED <<received, tries, exposed, faults>>
       \/ Delivers(entry.event) /\ MoveOn(p, <<>>, <<>>)
       \/ Fails(entry.event) /\ Failed(p, entry)
    /\ UNCHANGED <<queue, file, opened, mixed, dropped, emitted>>

\* Mutant: one retry too few.
GivesUpEarly(p, entry) == entry.count + 2 >= Limit[p]

\* The limit of the worker that retries, whoever made the entry a dead letter.
GivesUp(p, entry) == entry.count + 1 >= Limit[p]

\* One entry of the pass over the dead-letter queue.
Retry(p) ==
    /\ w[p].pc = "dlq" /\ w[p].todo # <<>>
    /\ LET entry == Head(w[p].todo) IN
       \/ /\ Delivers(entry.event)
          /\ MoveOn(p, <<>>, <<>>)
          /\ UNCHANGED dropped
       \/ /\ Fails(entry.event)
          /\ IF GivesUp(p, entry)
               THEN /\ MoveOn(p, <<>>, <<>>)
                    /\ dropped' = dropped \cup {<<entry.event, p>>}
               ELSE /\ MoveOn(p, <<Again(entry)>>, <<>>)
                    /\ UNCHANGED dropped
    /\ UNCHANGED <<queue, file, opened, mixed, emitted>>

\* The list is through: what is kept replaces it, and the file is
\* opened.
Save(p) ==
    /\ w[p].pc \in {"queue", "dlq"} /\ w[p].todo = <<>>
    /\ Open(p)
    /\ w' = [w EXCEPT ![p] =
                IF @.pc = "queue"
                  THEN [@ EXCEPT !.pc = "saveQueue", !.mem.queue = w[p].keep, !.keep = <<>>]
                  ELSE [@ EXCEPT !.pc = "saveDlq", !.mem.dlq = w[p].keep, !.keep = <<>>]]
    /\ UNCHANGED <<queue, mixed, received, tries, dropped, exposed, emitted>>

\* The file is written if it could be opened.  After the queue comes the dead-letter queue; after
\* that the service begins again with the queue it has in memory.
WorkerPersists(p) ==
    /\ w[p].pc \in {"saveQueue", "saveDlq"}
    /\ \/ p \in opened /\ Write(p, w[p].mem)
       \/ p \notin opened /\ UNCHANGED <<file, opened, mixed, exposed, faults>>
    /\ w' = [w EXCEPT ![p] =
                IF @.pc = "saveQueue" THEN [@ EXCEPT !.pc = "dlq", !.todo = w[p].mem.dlq]
                ELSE IF Kind[p] = "service"
                  THEN [@ EXCEPT !.pc = "queue", !.todo = w[p].mem.queue]
                  ELSE Off]
    /\ UNCHANGED <<queue, received, tries, dropped, emitted>>

\* A worker dies or is stopped.
WorkerDies(p) ==
    /\ Fault
    /\ w[p].pc # "off"
    /\ w' = [w EXCEPT ![p] = Off]
    /\ opened' = opened \ {p} /\ mixed' = mixed \ {p}
    /\ exposed' = IF p \in opened THEN exposed \cup (emitted \ received) ELSE exposed
    /\ UNCHANGED <<queue, file, received, tries, dropped, emitted>>

Next ==
    \/ \E e \in Events : Enqueue(e)
    \/ WriterPersists \/ WriterRestarts
    \/ \E p \in Workers :
          Start(p) \/ Flush(p) \/ Retry(p) \/ Save(p) \/ WorkerPersists(p)
          \/ WorkerDies(p)

Spec == Init /\ [][Next]_vars

-----------------------------------------------------------------------------
(* Properties *)

EventsOf(entries) == {entries[i].event : i \in DOMAIN entries}

\* Events in the file, or in what a process will put there.
OnFile == IF file = Torn THEN {} ELSE EventsOf(file.queue) \cup EventsOf(file.dlq)

InHand(p) ==
    IF w[p].pc = "off" THEN {}
    ELSE EventsOf(w[p].todo) \cup EventsOf(w[p].keep) \cup EventsOf(w[p].mem.dlq)
         \cup (IF w[p].pc = "queue" THEN {} ELSE EventsOf(w[p].mem.queue))

Kept == OnFile \cup (IF Writer \in opened THEN EventsOf(queue) ELSE {})
               \cup UNION {InHand(p) : p \in Workers}

GivenUp == {d[1] : d \in dropped}

\* When the shared file is safe: an event that was not received is in the
\* file or in the hands of a process that will write it, or it was given up,
\* unless it was emitted while a worker ran or the file would not open, was
\* forwarded without a connection, two writers mixed their contents, a write
\* failed, or a process died with the file open or with the queue.
KeptUnlessExposed == emitted \subseteq received \cup GivenUp \cup exposed \cup Kept

Forwarders == {p \in Workers : Kind[p] # "retry"}

\* A worker gives an event up only after as many retries as its own limit and,
\* before them, as many attempts as a forwarder's, also when several workers
\* count them and the write process starts the count anew.
GivenUpAfterAllTries ==
    \A d \in dropped :
        \E p \in Forwarders : tries[d[1]] >= Limit[p] + Limit[d[2]]

-----------------------------------------------------------------------------
(* A statement of the documentation the code does not keep *)

\* docs/runbooks/retry.md: running the worker drains the outbox and is safe to
\* repeat; an event it has not delivered stays where a worker will find it.
WorkerIsSafe ==
    opened = {} => emitted \subseteq received \cup GivenUp \cup Kept

=============================================================================
