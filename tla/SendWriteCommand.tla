-------------------------- MODULE SendWriteCommand --------------------------
(***************************************************************************)
(* One run of scripts/cli/send_write_command.js: it signs one command,     *)
(* sends it through the scheduler, through push, or (auto) through one     *)
(* after the other, and prints the result it finds.  The retries and their *)
(* conditions are those of scripts/cli/retry_helpers.js.                   *)
(*                                                                         *)
(* pc says what the run waits for:                                         *)
(*                                                                         *)
(*   signing      the worker that signs                  (no timeout)      *)
(*   scheduling   the scheduler, response and body       (no timeout)      *)
(*   pushing      ao.message                             (timeout, once)   *)
(*   reading      ao.result                              (timeout, retried)*)
(*   computing    the headers of compute=slot            (timeout, retried)*)
(*   body         the body of that response              (no timeout)      *)
(*   rescheduling the scheduler, after a push whose result was not found   *)
(*                                                                         *)
(* As in CheckoutGateway a timeout cancels nothing.                        *)
(***************************************************************************)
EXTENDS CommandIngress

CONSTANTS Cmd,      \* the command of this run
          MaxTries, \* attempts at reading a result (4 in the code)
          Zero,     \* slot 0 of the process, which holds another's message
          Foreign   \* the result of that message

ASSUME CmdAssumption == Requests = {Cmd} /\ MaxCopies = 3
ASSUME TriesAssumption == MaxTries \in Nat \ {0}
ASSUME ZeroAssumption == Zero \notin Copies \cup {None} /\ None # Cmd
                         /\ Foreign \notin Responses \cup {None}

VARIABLES mode,  \* AO_INGRESS_MODE
          pc,    \* what the run waits for
          via,   \* how the copy whose result is looked for was sent
          sent,  \* how many copies were sent
          slot,  \* the slot that is read: that of a copy, Zero, or None
          tries, \* the attempt at reading it
          shown, \* the result that was printed, or None
          exit   \* the exit code, or None

tool == <<pc, via, sent, slot, tries, shown, exit>>
vars == <<mode, tool, ingress>>

Stages == {"signing", "scheduling", "pushing", "reading", "computing", "body",
           "rescheduling", "done"}

\* A printed result: the slot it was read from and the response found there.
Results == [slot : Copies \cup {Zero}, response : Responses \cup {None, Foreign}]

ASSUME ResultAssumption == None \notin Results

TypeOK ==
    /\ IngressType
    /\ mode \in {"push", "scheduler", "auto"}
    /\ pc \in Stages
    /\ via \in {"push", "scheduler"}
    /\ sent \in 0..MaxCopies
    /\ slot \in Copies \cup {Zero, None}
    /\ tries \in 0..MaxTries
    /\ shown \in Results \cup {None}
    /\ exit \in {0, 1, None}

Init ==
    /\ IngressInit
    /\ mode \in {"push", "scheduler", "auto"}
    /\ pc = "signing" /\ via = "scheduler" /\ sent = 0
    /\ slot = None /\ tries = 0 /\ shown = None /\ exit = None

Copy == <<Cmd, sent>>

\* The scheduler has given the copy a slot.
HasSlot(c) == c \in scheduled \/ landed[c] # None

------------------------------------------------------------------------------
\* Steps of the run.

\* main throws.
Die ==
    /\ pc' = "done" /\ exit' = 1
    /\ UNCHANGED <<mode, via, sent, slot, tries, shown, ingress>>

\* main prints what it found in the slot and returns.
Show(response) ==
    /\ shown' = [slot |-> slot, response |-> response]
    /\ pc' = "done" /\ exit' = 0
    /\ UNCHANGED <<mode, via, sent, slot, tries, ingress>>

\* A copy of the command goes out; each is a data item of its own.
Send(stage, by) ==
    /\ pc' = stage /\ via' = by
    /\ sent' = sent + 1
    /\ Launch(<<Cmd, sent + 1>>)
    /\ UNCHANGED <<mode, slot, tries, shown, exit>>

Read(stage, n) ==
    /\ pc' = stage /\ tries' = n
    /\ UNCHANGED <<mode, via, sent, slot, shown, exit, ingress>>

ReadSlot(s) ==
    /\ pc' = "reading" /\ tries' = 1 /\ slot' = s
    /\ UNCHANGED <<mode, via, sent, shown, exit, ingress>>

\* The command is signed, by the worker or with a local key, or it is not.
Sign ==
    /\ pc = "signing"
    /\ \/ mode = "push" /\ Send("pushing", "push")
       \/ mode # "push" /\ Send("scheduling", "scheduler")
       \/ Die

\* sendViaSchedulerDirect succeeds.  A response that names no slot names slot
\* 0: Number('') is 0 and passes the check that follows.
SchedulerAccepts ==
    /\ pc \in {"scheduling", "rescheduling"}
    /\ \/ HasSlot(Copy) /\ ReadSlot(Copy)
       \/ ReadSlot(Zero)

\* sendViaSchedulerDirect throws: no response, an error, a slot that is no number.
SchedulerFails ==
    \/ pc = "scheduling" /\ mode = "auto" /\ Send("pushing", "push")
    \/ pc = "scheduling" /\ mode = "scheduler" /\ Die
    \/ pc = "rescheduling" /\ Die

PushAccepts == pc = "pushing" /\ HasSlot(Copy) /\ ReadSlot(Copy)

\* Mistake: ao.message has no timeout and fails only if its copy got through.
PushFailsUntimed == pc = "pushing" /\ Copy \notin flight /\ Die

\* ao.message fails or times out; it is not repeated.
PushFails == pc = "pushing" /\ Die

\* Mistake: the command is sent again for as long as its result is missing.
GiveUpNever ==
    \/ mode = "auto" /\ Send("rescheduling", "scheduler")
    \/ mode # "auto" /\ Die

\* The result could not be read: after a push in auto mode the command is sent
\* through the scheduler, otherwise main throws.
GiveUp ==
    \/ mode = "auto" /\ via = "push" /\ Send("rescheduling", "scheduler")
    \/ ~(mode = "auto" /\ via = "push") /\ Die

\* What the slot can show: what was computed there, or something that is no
\* response.
Found == {None, IF slot = Zero THEN Foreign ELSE landed[slot]}

\* runWithRetry(ao.result): whatever it returns is the result.
ResultRead == pc = "reading" /\ \E response \in Found : Show(response)

\* What is thrown: its status, what it says of itself, and its kind.
Errors == [status : {200, 500, None}, retryable : {"yes", "no", "unset"},
           kind : {"aborted", "timeout", "code", "fetch_failed", "other"}]

\* classifyRetryError: the status before the flag, the flag before the kind;
\* "code" is a code of RETRYABLE_ERROR_CODES.
Retryable(e) ==
    \/ e.status = 500
    \/ e.retryable = "yes"
    \/ e.retryable = "unset" /\ e.kind # "other"

\* What goes wrong without a flag: the network, or a timeout (withTimeout).
Unflagged == {e \in Errors : e.status = None /\ e.retryable = "unset"}

\* What readResponseWithRetry throws before it reads the body: also a response
\* that is none.
RequestErrors ==
    Unflagged \cup {[status |-> None, retryable |-> "no", kind |-> "other"]}

\* And after: a body that cannot be read, is truncated (isTruncatedResponse) or
\* is no JSON, and any status from 500 on.
BodyErrors == {[status |-> s, retryable |-> "yes", kind |-> "other"] : s \in {200, 500}}

\* runWithRetry(ao.result) meets an error.
ResultFails ==
    /\ pc = "reading"
    /\ \E e \in Errors :
          \/ Retryable(e) /\ tries < MaxTries /\ Read("reading", tries + 1)
          \/ ~(Retryable(e) /\ tries < MaxTries) /\ Read("computing", 1)

\* readResponseWithRetry meets one.
ComputeError(e) ==
    \/ Retryable(e) /\ tries < MaxTries /\ Read("computing", tries + 1)
    \/ ~(Retryable(e) /\ tries < MaxTries) /\ GiveUp

ComputeFails == pc = "computing" /\ \E e \in RequestErrors : ComputeError(e)

ComputeHeaders == pc = "computing" /\ Read("body", tries)

\* The body comes: the result, an error, or a status between 300 and 499, with
\* which readResponseWithRetry returns and resolveResult throws.
ComputeBody ==
    /\ pc = "body"
    /\ \/ \E response \in Found : Show(response)
       \/ \E e \in BodyErrors : ComputeError(e)
       \/ GiveUp

Step ==
    \/ Sign \/ SchedulerAccepts \/ SchedulerFails \/ PushAccepts \/ PushFails
    \/ ResultRead \/ ResultFails
    \/ ComputeFails \/ ComputeHeaders \/ ComputeBody

Next ==
    \/ Step
    \/ IngressNext /\ UNCHANGED <<mode, tool>>

\* Only timers are certain to fire.
Timers == PushFails \/ ResultFails \/ ComputeFails

Spec == Init /\ [][Next]_vars /\ WF_vars(Timers)

------------------------------------------------------------------------------
\* Properties.

\* An outcome that a run prints is the command's: however many copies went
\* out, over however many ways, it is the one in the process's registry.  The
\* exception is a run whose scheduler named no slot: it prints the result of
\* another message, and only the slot printed with it, 0, tells.
ShownIsTheLedgers ==
    shown # None =>
        \/ shown.response = None
        \/ shown.response = Foreign /\ shown.slot = Zero
        \/ shown.response.by = None
        \/ ledger[KeyOf[Cmd]] = shown.response

\* Whatever is lost or late, a run that waits for push or for a result ends,
\* waits for a body, or has sent its command to the scheduler again: every other
\* wait has a timer (withTimeout, runWithRetry, readResponseWithRetry).
Ends == pc \in {"pushing", "reading", "computing"}
           ~> pc \in {"done", "body", "rescheduling"}

=============================================================================
