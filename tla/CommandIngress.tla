--------------------------- MODULE CommandIngress ---------------------------
(***************************************************************************)
(* The way of a command from a client to the write process and what the    *)
(* process does with it, as the JavaScript clients see it: the checkout    *)
(* API server (CheckoutGateway) and the command line tools                 *)
(* (SendWriteCommand, ExecutionProbe) send over it.                        *)
(*                                                                         *)
(* A request is a command as one client holds it, with its request id and  *)
(* its nonce.  Each time the client sends it, a copy goes out: a message   *)
(* of its own that can be lost, scheduled late, and scheduled although the *)
(* client has given up on it.  The slots are computed in an order that the *)
(* clients do not control.  What the process does with a copy is the path  *)
(* of M.route (ao/write/process.lua) without faults, which WriteCommand    *)
(* has in detail: the registry first, then a rate limit, the nonce,        *)
(* another rate limit, the handler.  What M.route refuses for what the     *)
(* command is (envelope, signature, policy, role, payload) it refuses of   *)
(* every copy; such commands are left out.                                 *)
(***************************************************************************)
EXTENDS Naturals

CONSTANTS Requests,  \* commands as clients hold them
          MaxCopies, \* how often a client sends a request at most
          Keys,      \* idempotency keys: request id, tenant and action
          KeyOf,     \* request -> the key of its command
          Nonces,    \* nonces
          NonceOf,   \* request -> the nonce of its command
          Outcomes,  \* codes of the responses that handlers give
          None       \* no value

Copies == Requests \X (1..MaxCopies)

Refusals == {"RATE_LIMITED", "UNAUTHORIZED"}

\* A response: its code, and the copy whose run produced it (None: a refusal).
Responses == [code : Outcomes \cup Refusals, by : Copies \cup {None}]

ASSUME CopyAssumption == MaxCopies \in Nat
ASSUME KeyAssumption == KeyOf \in [Requests -> Keys]
ASSUME NonceAssumption == NonceOf \in [Requests -> Nonces]
ASSUME OutcomeAssumption == Outcomes \cap Refusals = {} /\ Outcomes # {}
ASSUME NoneAssumption == None \notin Responses \cup Copies \cup Nat

VARIABLES flight,    \* copies on their way to the scheduler
          scheduled, \* copies that have a slot and are not computed yet
          landed,    \* copy -> the response at its slot, or None
          ledger,    \* the process's registry: key -> response, or None
          nonces,    \* the process's nonce cache
          runs       \* key -> how often its command ran (history)

process == <<ledger, nonces, runs>>
ingress == <<flight, scheduled, landed, process>>

\* The copies of a request are the same command: it is encoded once, before
\* it is sent for the first time.
CopyKey(c) == KeyOf[c[1]]
CopyNonce(c) == NonceOf[c[1]]

IngressType ==
    /\ flight \subseteq Copies
    /\ scheduled \subseteq Copies
    /\ landed \in [Copies -> Responses \cup {None}]
    /\ ledger \in [Keys -> Responses \cup {None}]
    /\ nonces \subseteq Nonces
    /\ runs \in [Keys -> Nat]

IngressInit ==
    /\ flight = {} /\ scheduled = {}
    /\ landed = [c \in Copies |-> None]
    /\ ledger = [k \in Keys |-> None]
    /\ nonces = {}
    /\ runs = [k \in Keys |-> 0]

------------------------------------------------------------------------------
\* The network and the scheduler.

\* A client sends a copy.
Launch(c) ==
    /\ flight' = flight \cup {c}
    /\ UNCHANGED <<scheduled, landed, process>>

\* A copy reaches the scheduler, at last; a lost one stays in flight for ever.
Schedule(c) ==
    /\ c \in flight
    /\ flight' = flight \ {c}
    /\ scheduled' = scheduled \cup {c}
    /\ UNCHANGED <<landed, process>>

------------------------------------------------------------------------------
\* The write process computes a slot.

Respond(c, response) ==
    /\ c \in scheduled
    /\ scheduled' = scheduled \ {c}
    /\ landed' = [landed EXCEPT ![c] = response]
    /\ UNCHANGED flight

Refusal(code) == [code |-> code, by |-> None]

\* The registry knows the command: its response is repeated.
Replay(c) ==
    /\ ledger[CopyKey(c)] # None
    /\ Respond(c, ledger[CopyKey(c)])
    /\ UNCHANGED process

\* Mistake: the nonce alone tells a new command from a repeated one.
NewByNonce(c) == CopyNonce(c) \notin nonces

New(c) == ledger[CopyKey(c)] = None

\* rate_limit_check, before the nonce.
LimitSender(c) ==
    /\ New(c)
    /\ Respond(c, Refusal("RATE_LIMITED"))
    /\ UNCHANGED process

\* Too late: the token of the copy has expired (consume_jwt, before the registry
\* is asked), or its timestamp is too old (require_nonce_and_timestamp).
RefuseStale(c) ==
    /\ Respond(c, Refusal("UNAUTHORIZED"))
    /\ UNCHANGED process

\* require_nonce_and_timestamp: another copy has used the nonce.
RefuseNonce(c) ==
    /\ New(c) /\ CopyNonce(c) \in nonces
    /\ Respond(c, Refusal("UNAUTHORIZED"))
    /\ UNCHANGED process

UseNonce(c) ==
    /\ CopyNonce(c) \notin nonces
    /\ nonces' = nonces \cup {CopyNonce(c)}

\* check_rate_limit, after the nonce, which is used up.
LimitScope(c) ==
    /\ New(c) /\ UseNonce(c)
    /\ Respond(c, Refusal("RATE_LIMITED"))
    /\ UNCHANGED <<ledger, runs>>

\* Mistake: an error response is not recorded.
RunRecordsSuccess(c) ==
    /\ New(c) /\ UseNonce(c)
    /\ \E code \in Outcomes :
          LET response == [code |-> code, by |-> c]
          IN  /\ Respond(c, response)
              /\ ledger' = IF code = "OK" THEN [ledger EXCEPT ![CopyKey(c)] = response]
                                         ELSE ledger
    /\ runs' = [runs EXCEPT ![CopyKey(c)] = @ + 1]

\* The handler runs and its response enters the registry.
Run(c) ==
    /\ New(c) /\ UseNonce(c)
    /\ \E code \in Outcomes :
          LET response == [code |-> code, by |-> c]
          IN  /\ Respond(c, response)
              /\ ledger' = [ledger EXCEPT ![CopyKey(c)] = response]
    /\ runs' = [runs EXCEPT ![CopyKey(c)] = @ + 1]

\* A nonce leaves the cache (NonceGuard models when).
NonceLapses(n) ==
    /\ n \in nonces
    /\ nonces' = nonces \ {n}
    /\ UNCHANGED <<flight, scheduled, landed, ledger, runs>>

Compute(c) ==
    \/ Replay(c) \/ RefuseStale(c) \/ LimitSender(c) \/ RefuseNonce(c)
    \/ LimitScope(c) \/ Run(c)

IngressNext ==
    \/ \E c \in Copies : Schedule(c) \/ Compute(c)
    \/ \E n \in Nonces : NonceLapses(n)

------------------------------------------------------------------------------
\* What a copy has come to.

Ran(c) == landed[c] # None /\ landed[c].by = c

\* However often a command is sent, by one client or by several, it runs at
\* most once: no two copies of commands with the same key have both run.
RunsOnce ==
    \A c, d \in Copies : Ran(c) /\ Ran(d) /\ KeyOf[c[1]] = KeyOf[d[1]] => c = d

=============================================================================
