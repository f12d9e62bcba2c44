-------------------------- MODULE CheckoutGateway --------------------------
(***************************************************************************)
(* The checkout API server (scripts/http/checkout_api_server.mjs) from the *)
(* signing of a command to the answer of the HTTP request: maybeSignCommand,*)
(* sendWriteCommand with its timeouts and retries, normalizeWriteResult.   *)
(* GatewayRouting has what comes before.                                   *)
(*                                                                         *)
(* A request of CommandIngress is one HTTP request whose command has been  *)
(* built; several carry the same key when a client repeats its request id. *)
(* pc says what the handler of a request waits for:                        *)
(*                                                                         *)
(*   signing     the signer                           (no timeout)         *)
(*   sending     ao.message, the sent[r]-th time      (timeout, retried)   *)
(*   reading     ao.result, the tries[r]-th time      (timeout, retried)   *)
(*   computing   the headers of compute=slot          (timeout, retried)   *)
(*   body        the body of that response            (no timeout)         *)
(*                                                                         *)
(* withTimeout stops waiting and cancels nothing: the copy it gave up on   *)
(* stays in the network.  A lost copy is one that stays there for ever.     *)
(***************************************************************************)
EXTENDS CommandIngress

CONSTANTS Signed,  \* the requests whose client has signed the command
          Configs  \* the configurations the server is started with

\* A configuration: a signer, a write process, WRITE_API_ACCEPT_EMPTY_RESULT.
Config == [signer : BOOLEAN, pid : BOOLEAN, acceptEmpty : BOOLEAN]

ASSUME SignedAssumption == Signed \subseteq Requests
ASSUME ConfigAssumption == Configs \subseteq Config
ASSUME TriesAssumption == MaxCopies > 0

\* WRITE_API_RETRIES holds for every step.
MaxTries == MaxCopies

VARIABLES cfg,    \* the configuration of the server
          pc,     \* request -> where its handler is
          sent,   \* request -> how many copies of it were sent
          tries,  \* request -> the attempt at reading the result
          got,    \* request -> the copy whose slot ao.message named, or None
          answer  \* request -> the HTTP answer, or None

gateway == <<pc, sent, tries, got, answer>>
vars == <<cfg, gateway, ingress>>

Stages == {"new", "signing", "sending", "reading", "computing", "body", "done"}

\* An answer: the status, and the response of the process it hands on, if any.
Answers == [status : {200, 202, 400, 401, 403, 404, 409, 429, 502},
            response : Responses \cup {None}]

ASSUME AnswerAssumption == None \notin Answers

TypeOK ==
    /\ IngressType
    /\ cfg \in Config
    /\ pc \in [Requests -> Stages]
    /\ sent \in [Requests -> 0..MaxTries]
    /\ tries \in [Requests -> 0..MaxTries]
    /\ got \in [Requests -> Copies \cup {None}]
    /\ answer \in [Requests -> Answers \cup {None}]

Init ==
    /\ IngressInit
    /\ cfg \in Configs
    /\ pc = [r \in Requests |-> "new"]
    /\ sent = [r \in Requests |-> 0]
    /\ tries = [r \in Requests |-> 0]
    /\ got = [r \in Requests |-> None]
    /\ answer = [r \in Requests |-> None]

------------------------------------------------------------------------------
\* Reading a result (normalizeWriteResult and its helpers).

\* What can be where a result is looked for.  "envelope": the response of the
\* process, as Output; "status": the response without an Output around it;
\* "mixed": the same next to an Output that is blank; "null": an Output that
\* says null; "junk": one that is no JSON object; "nostatus": one without a
\* status; "array": one that is an array; "none": nothing.
Shapes == {"envelope", "status", "mixed", "null", "junk", "nostatus", "array", "none"}
Raw == [shape : Shapes, error : BOOLEAN]  \* error: with an Error payload

\* The slot c holds what its computation put there, and nothing before.
Held(c) == IF landed[c] # None THEN Raw
           ELSE {raw \in Raw : raw.shape = "none"}

\* hasWriteEnvelopeCandidate or hasWriteRuntimeErrorPayload: ao.result is
\* believed, and no compute request follows.
Judgeable(raw) == raw.shape \notin {"array", "none"} \/ raw.error

HttpStatus(code) ==
    CASE code = "OK" -> 200
      [] code \in {"INVALID_INPUT", "PAYLOAD_TOO_LARGE"} -> 400
      [] code = "UNAUTHORIZED" -> 401
      [] code = "FORBIDDEN" -> 403
      [] code = "NOT_FOUND" -> 404
      [] code \in {"CONFLICT", "VERSION_CONFLICT"} -> 409
      [] code = "RATE_LIMITED" -> 429
      [] OTHER -> 502

Answer(status, response) == [status |-> status, response |-> response]

\* Mistake: a command whose result is missing is reported as done.
NormalizeOptimistic(raw, c) ==
    IF raw.shape \in {"envelope", "status"}
      THEN Answer(HttpStatus(landed[c].code), landed[c])
    ELSE IF raw.shape \in {"junk", "nostatus", "array"} \/ raw.error
      THEN Answer(502, None)
    ELSE IF cfg.acceptEmpty THEN Answer(200, None)
    ELSE Answer(502, None)

\* The answer to a request whose result is raw, at the slot of c.
Normalize(raw, c) ==
    IF raw.shape \in {"envelope", "status"}
      THEN Answer(HttpStatus(landed[c].code), landed[c])
    ELSE IF raw.shape \in {"junk", "nostatus", "array"} \/ raw.error
      THEN Answer(502, None)
    ELSE IF cfg.acceptEmpty THEN Answer(202, None)
    ELSE Answer(502, None)

------------------------------------------------------------------------------
\* One HTTP request.

Settle(r, a) ==
    /\ pc' = [pc EXCEPT ![r] = "done"]
    /\ answer' = [answer EXCEPT ![r] = a]
    /\ UNCHANGED <<cfg, sent, tries, got, ingress>>

\* Anything that throws after the command was built: write_command_failed.
Fail(r) == Settle(r, Answer(502, None))

\* Enter a stage that reads the result, at its first attempt or its next.
Read(r, stage, n) ==
    /\ pc' = [pc EXCEPT ![r] = stage]
    /\ tries' = [tries EXCEPT ![r] = n]
    /\ UNCHANGED <<cfg, sent, got, answer, ingress>>

\* Mistake: the next copy is sent together with this one.
SendHedged(r) ==
    /\ pc' = [pc EXCEPT ![r] = "sending"]
    /\ sent' = [sent EXCEPT ![r] = @ + 1]
    /\ flight' = flight \cup ({<<r, sent[r] + 1>>, <<r, sent[r] + 2>>} \cap Copies)
    /\ UNCHANGED <<scheduled, landed, process, cfg, tries, got, answer>>

\* ao.message is called, for the first time or again.
Send(r) ==
    /\ pc' = [pc EXCEPT ![r] = "sending"]
    /\ sent' = [sent EXCEPT ![r] = @ + 1]
    /\ Launch(<<r, sent[r] + 1>>)
    /\ UNCHANGED <<cfg, tries, got, answer>>

\* The first thing sendWriteCommand checks is that it knows a process.
StartSending(r) ==
    \/ cfg.pid /\ Send(r)
    \/ ~cfg.pid /\ Fail(r)

\* maybeSignCommand.
Open(r) ==
    /\ pc[r] = "new"
    /\ \/ r \in Signed /\ StartSending(r)
       \/ r \notin Signed /\ ~cfg.signer /\ Fail(r)
       \/ /\ r \notin Signed /\ cfg.signer
          /\ pc' = [pc EXCEPT ![r] = "signing"]
          /\ UNCHANGED <<cfg, sent, tries, got, answer, ingress>>

SignerAnswers(r) ==
    /\ pc[r] = "signing"
    /\ StartSending(r) \/ Fail(r)

\* The scheduler answers the call that is waited for.
MessageAccepted(r) ==
    LET c == <<r, sent[r]>> IN
    /\ pc[r] = "sending"
    /\ c \in scheduled \/ landed[c] # None
    /\ pc' = [pc EXCEPT ![r] = "reading"]
    /\ tries' = [tries EXCEPT ![r] = 1]
    /\ got' = [got EXCEPT ![r] = c]
    /\ UNCHANGED <<cfg, sent, answer, ingress>>

\* Mistake: a call that is still under way is waited for.
MessageFailsOnceLost(r) ==
    /\ pc[r] = "sending" /\ <<r, sent[r]>> \notin flight
    /\ \/ sent[r] < MaxTries /\ Send(r)
       \/ sent[r] = MaxTries /\ Fail(r)

\* Mistake: the retries are not counted.
MessageFailsForever(r) == pc[r] = "sending" /\ Send(r)

\* The call fails or times out, whatever has become of the copy: the next one
\* is sent.
MessageFails(r) ==
    /\ pc[r] = "sending"
    /\ \/ sent[r] < MaxTries /\ Send(r)
       \/ sent[r] = MaxTries /\ Fail(r)

\* ao.result returns: with something that can be judged, or not.
ResultRead(r) ==
    /\ pc[r] = "reading"
    /\ \E raw \in Held(got[r]) :
          \/ Judgeable(raw) /\ Settle(r, Normalize(raw, got[r]))
          \/ ~Judgeable(raw) /\ Read(r, "computing", 1)

\* ao.result fails or times out; the last time the compute request is next.
ResultFails(r) ==
    /\ pc[r] = "reading"
    /\ \/ tries[r] < MaxTries /\ Read(r, "reading", tries[r] + 1)
       \/ tries[r] = MaxTries /\ Read(r, "computing", 1)

\* The compute request fails, times out, or answers with an error or with
\* something that is no JSON.
ComputeAgain(r) ==
    \/ tries[r] < MaxTries /\ Read(r, "computing", tries[r] + 1)
    \/ tries[r] = MaxTries /\ Fail(r)

ComputeFails(r) == pc[r] = "computing" /\ ComputeAgain(r)

ComputeHeaders(r) == pc[r] = "computing" /\ Read(r, "body", tries[r])

\* A body that cannot be read counts as an empty one, which is a result.
ComputeBody(r) ==
    /\ pc[r] = "body"
    /\ \/ ComputeAgain(r)
       \/ \E raw \in Held(got[r]) \cup {[shape |-> "none", error |-> FALSE]} :
             Settle(r, Normalize(raw, got[r]))

Handle(r) ==
    \/ Open(r) \/ SignerAnswers(r)
    \/ MessageAccepted(r) \/ MessageFails(r)
    \/ ResultRead(r) \/ ResultFails(r)
    \/ ComputeFails(r) \/ ComputeHeaders(r) \/ ComputeBody(r)

Next ==
    \/ \E r \in Requests : Handle(r)
    \/ IngressNext /\ UNCHANGED <<cfg, gateway>>

\* Timers fire: nothing else is certain to happen.
Timers(r) == MessageFails(r) \/ ResultFails(r) \/ ComputeFails(r)

Spec == Init /\ [][Next]_vars /\ \A r \in Requests : WF_vars(Timers(r))

------------------------------------------------------------------------------
\* Properties.

\* The copies of a request that were sent.
SentCopies(r) == {<<r, n>> : n \in 1..sent[r]}

\* A client is told the outcome the ledger holds: what it reads at the slot it
\* was given is what the command came to, whichever copy and whichever request
\* with its key made it run.
AnswerIsTheLedgers ==
    \A r \in Requests :
        LET response == answer[r].response IN
        answer[r] # None /\ response # None /\ response.by # None =>
            /\ ledger[KeyOf[r]] = response
            /\ runs[KeyOf[r]] = 1

\* "200" says that the command has run.
SuccessMeansItRan ==
    \A r \in Requests :
        answer[r] # None /\ answer[r].status = 200 =>
            /\ ledger[KeyOf[r]] # None /\ ledger[KeyOf[r]].code = "OK"

\* A refusal of the process (429, 401) is final if the request was sent once
\* and no other request has its key.  Otherwise it is not: the copy that was
\* given up on, or was refused before the one that is read, can still run.
RefusalIsFinal ==
    \A r \in Requests :
        /\ answer[r] # None /\ answer[r].response # None
        /\ answer[r].response.by = None
        /\ sent[r] = 1 /\ \A q \in Requests \ {r} : KeyOf[q] = KeyOf[r] => sent[q] = 0
        => ledger[KeyOf[r]] = None

\* Whatever is lost or late, a request that was sent is answered, or waits for
\* a body that does not end: every other wait has a timer (withRetry,
\* withTimeout, fetchWithTimeout).
Settles == \A r \in Requests : pc[r] = "sending" ~> pc[r] \in {"done", "body"}

\* The gateways and the process together implement the ledger: runs are those
\* of the handler, answers those that report an outcome.
LedgerOutcome == [k \in Keys |-> IF ledger[k] # None THEN runs[k] ELSE None]

Reported == {r \in Requests : answer[r] # None /\ answer[r].response # None
                                /\ answer[r].response.by # None}

Ledger == INSTANCE CommandLedger
          WITH Commands <- Keys, outcome <- LedgerOutcome,
               answered <- {<<KeyOf[r], runs[KeyOf[r]]>> : r \in Reported},
               faults <- 0

LedgerSpec == Ledger!Spec

=============================================================================
