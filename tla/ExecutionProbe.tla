--------------------------- MODULE ExecutionProbe ---------------------------
(***************************************************************************)
(* One run of a tool that sends commands and checks that they execute:     *)
(* scripts/cli/deep_test_scheduler_direct.js and                           *)
(* business_matrix_scheduler_direct.js, which judge what they see with     *)
(* execution_assertions.js.                                                *)
(*                                                                         *)
(* Every command goes out through every URL: trial <<n, u>> is command n   *)
(* sent through URL u.  The deep test signs all commands, then for every   *)
(* URL sends them all, probes them all and judges them all.  The matrix    *)
(* signs, sends, probes and judges a command before it takes the next.     *)
(*                                                                         *)
(* stage says what the run does or waits for:                              *)
(*                                                                         *)
(*   signing   the worker that signs command cmd                           *)
(*   sending   a copy of the command goes out                              *)
(*   sent      the scheduler's answer                                      *)
(*   current   slot/current, deep test only                                *)
(*   message   the scheduler's record of the message, matrix only          *)
(*   computing what is in the slot                                         *)
(*   reporting the report is written                                       *)
(*                                                                         *)
(* What the process does with a copy (CommandIngress) is left out: the     *)
(* tools ask only whether something was computed in its slot.              *)
(***************************************************************************)
EXTENDS Naturals

CONSTANTS Count, \* how many commands there are
          Urls,  \* how many URLs
          SlotZero, \* slot 0 of the process, which holds another's message
          NaN,   \* a slot that is no number
          Nothing \* no value

Trials == (1..Count) \X (1..Urls)

ASSUME CountAssumption == Count \in Nat \ {0} /\ Urls \in Nat \ {0}
ASSUME SlotAssumption == SlotZero # NaN /\ {SlotZero, NaN} \cap Trials = {}

VARIABLES script,  \* which of the two tools runs
          strict,  \* its execution mode is strict, not info
          stage,   \* what the run waits for
          cmd,     \* the command at hand
          url,     \* the URL at hand
          message, \* the scheduler knows the message at hand
          sends,   \* trial -> what the scheduler answered, or Nothing
          probes,  \* command -> what was in its slot at this URL, or Nothing
          verdict, \* trial -> its assertion passed, or Nothing
          report,  \* the report was written
          code,    \* the exit code, or Nothing
          place    \* trial -> where it is

config == <<script, strict>>
found == <<sends, probes, verdict>>
probeVars == <<config, stage, cmd, url, message, found, report, code, place>>

\* An answer of the scheduler: its status, and the slot that is read from it.
Answers == [ok : BOOLEAN, slot : Trials \cup {SlotZero, NaN}]

\* What assessRuntimeEffect makes of a probe: a reason to fail, or an effect.
Effects == {"compute_not_ok", "runtime_error", "empty_runtime_payload", "effect"}

ASSUME NothingAssumption == Nothing \notin Answers \cup Effects \cup BOOLEAN \cup {0, 1}

ProbeType ==
    /\ script \in {"deep", "matrix"} /\ strict \in BOOLEAN
    /\ stage \in {"signing", "sending", "sent", "current", "message", "computing",
                  "reporting", "done"}
    /\ cmd \in 1..Count /\ url \in 1..Urls
    /\ message \in BOOLEAN
    /\ sends \in [Trials -> Answers \cup {Nothing}]
    /\ probes \in [1..Count -> Effects \cup {Nothing}]
    /\ verdict \in [Trials -> BOOLEAN \cup {Nothing}]
    /\ report \in BOOLEAN
    /\ code \in {0, 1, Nothing}
    /\ place \in [Trials -> {"unsent", "flight", "slot", "computed"}]

NoProbes == [n \in 1..Count |-> Nothing]

ProbeInit ==
    /\ script \in {"deep", "matrix"} /\ strict \in BOOLEAN
    /\ stage = "signing" /\ cmd = 1 /\ url = 1
    /\ message = FALSE
    /\ sends = [c \in Trials |-> Nothing]
    /\ probes = NoProbes
    /\ verdict = [c \in Trials |-> Nothing]
    /\ report = FALSE /\ code = Nothing
    /\ place = [c \in Trials |-> "unsent"]

Here == <<cmd, url>>

Placed(c) == place[c] \in {"slot", "computed"}

------------------------------------------------------------------------------
\* The network, the scheduler and the process.  What is lost stays in flight.

GiveSlot(c) ==
    /\ place[c] = "flight"
    /\ place' = [place EXCEPT ![c] = "slot"]
    /\ UNCHANGED <<config, stage, cmd, url, message, found, report, code>>

ComputeSlot(c) ==
    /\ place[c] = "slot"
    /\ place' = [place EXCEPT ![c] = "computed"]
    /\ UNCHANGED <<config, stage, cmd, url, message, found, report, code>>

------------------------------------------------------------------------------
\* The assertions (execution_assertions.js).

\* Mistake: a good status of the scheduler is enough.
PassedByTransport(answer, known, effect) == answer.ok /\ (script = "matrix" => known)

\* buildExecutionAssertion; the matrix requires the scheduler's record as well.
Passed(answer, known, effect) ==
    answer.ok /\ (script = "matrix" => known) /\ effect = "effect"

\* summarizeAssertions counts the failed ones.
Failed == {c \in Trials : verdict[c] = FALSE}

------------------------------------------------------------------------------
\* Steps of the run.

Go(next, n, u) == stage' = next /\ cmd' = n /\ url' = u

\* main throws: no report is written, and what was sent stays sent.
Abort ==
    /\ stage \in {"signing", "sent", "current", "message", "reporting"}
    /\ stage' = "done" /\ code' = 1
    /\ UNCHANGED <<config, cmd, url, message, found, report, place>>

\* Mistake: the loop over the commands to sign is one too long.
SignOneMore ==
    /\ stage = "signing"
    /\ \/ script = "deep" /\ cmd <= Count /\ Go("signing", cmd + 1, url)
       \/ script = "deep" /\ cmd = Count /\ Go("sending", 1, url)
       \/ script = "matrix" /\ Go("sending", cmd, url)
    /\ UNCHANGED <<config, message, found, report, code, place>>

\* signWriteCommand, signWithWorker.
SignCommand ==
    /\ stage = "signing"
    /\ \/ script = "deep" /\ cmd < Count /\ Go("signing", cmd + 1, url)
       \/ script = "deep" /\ cmd = Count /\ Go("sending", 1, url)
       \/ script = "matrix" /\ Go("sending", cmd, url)
    /\ UNCHANGED <<config, message, found, report, code, place>>

SendTrial ==
    /\ stage = "sending" /\ Go("sent", cmd, url)
    /\ place' = [place EXCEPT ![Here] = "flight"]
    /\ UNCHANGED <<config, message, found, report, code>>

\* Number('') is 0: an answer without a slot names slot 0.
Slots == {SlotZero, NaN} \cup {c \in {Here} : Placed(c)}

\* The scheduler answers, within the timeout.
Answered ==
    /\ stage = "sent"
    /\ \E ok \in BOOLEAN, s \in Slots :
          sends' = [sends EXCEPT ![Here] = [ok |-> ok, slot |-> s]]
    /\ \/ script = "deep" /\ cmd < Count /\ Go("sending", cmd + 1, url)
       \/ script = "deep" /\ cmd = Count /\ Go("current", cmd, url)
       \/ script = "matrix" /\ Go("message", cmd, url)
    /\ UNCHANGED <<config, message, probes, verdict, report, code, place>>

\* probeSlotCurrent: whatever it says, it is only reported.
SlotCurrent ==
    /\ stage = "current" /\ Go("computing", 1, url)
    /\ UNCHANGED <<config, message, found, report, code, place>>

\* probeSchedulerMessage.
MessageKnown ==
    /\ stage = "message" /\ Go("computing", cmd, url)
    /\ message' \in {FALSE, Placed(Here)}
    /\ UNCHANGED <<config, found, report, code, place>>

\* Slot 0 was computed long ago, an own slot is when its trial's copy is.
Filled(s) == s = SlotZero \/ (s \in Trials /\ place[s] = "computed")

\* probeCompute and assessRuntimeEffect: what a slot shows.  A node may always
\* give an error, or a body that is empty or cut short.  The node is trusted in
\* one thing: results, or a number in at-slot, which are all that "effect" asks
\* for, it gives only of a slot that was computed.
InSlot(s) ==
    {"compute_not_ok", "empty_runtime_payload"}
        \cup {e \in {"runtime_error", "effect"} : Filled(s)}

\* A slot that is no number is not looked at (missing_compute_probe).
Probed == IF sends[Here].slot = NaN THEN {Nothing} ELSE InSlot(sends[Here].slot)

\* A URL is through: the next one, or the report.
NextUrl(next) ==
    \/ url < Urls /\ Go(next, 1, url + 1)
    \/ url = Urls /\ Go("reporting", cmd, url)

\* The deep test probes one command after the other.
DeepProbe ==
    /\ stage = "computing" /\ script = "deep" /\ cmd < Count
    /\ \E p \in Probed : probes' = [probes EXCEPT ![cmd] = p]
    /\ Go("computing", cmd + 1, url)
    /\ UNCHANGED <<config, message, sends, verdict, report, code, place>>

\* With the last one it judges them all, and leaves the URL.
DeepJudge ==
    /\ stage = "computing" /\ script = "deep" /\ cmd = Count
    /\ \E p \in Probed :
          verdict' = [c \in Trials |->
              IF c[2] # url THEN verdict[c]
              ELSE Passed(sends[c], FALSE, IF c[1] = cmd THEN p ELSE probes[c[1]])]
    /\ probes' = NoProbes
    /\ NextUrl("sending")
    /\ UNCHANGED <<config, message, sends, report, code, place>>

\* The matrix judges each command at once.
MatrixJudge ==
    /\ stage = "computing" /\ script = "matrix"
    /\ \E p \in Probed : verdict' = [verdict EXCEPT ![Here] = Passed(sends[Here], message, p)]
    /\ \/ cmd < Count /\ Go("signing", cmd + 1, url)
       \/ cmd = Count /\ NextUrl("signing")
    /\ UNCHANGED <<config, message, sends, probes, report, code, place>>

\* The report is written, in either mode; then strict mode throws if an
\* assertion failed.
Report ==
    /\ stage = "reporting" /\ Go("done", cmd, url)
    /\ report' = TRUE
    /\ code' = IF strict /\ Failed # {} THEN 1 ELSE 0
    /\ UNCHANGED <<config, message, found, place>>

ProbeNext ==
    \/ Abort \/ SignCommand \/ SendTrial \/ Answered \/ SlotCurrent \/ MessageKnown
    \/ DeepProbe \/ DeepJudge \/ MatrixJudge \/ Report
    \/ \E c \in Trials : GiveSlot(c) \/ ComputeSlot(c)

ProbeSpec == ProbeInit /\ [][ProbeNext]_probeVars

------------------------------------------------------------------------------
\* Properties.

\* A run in strict mode that exits with 0 has sent every command through every
\* URL with a good status, and every trial whose own slot the scheduler named
\* has been computed: both tools judge each trial and skip none.  A trial whose
\* slot it did not name is judged by slot 0 and need not be computed.
StrictPassIsOwn ==
    strict /\ code = 0 =>
        \A c \in Trials : /\ sends[c] # Nothing /\ sends[c].ok
                          /\ sends[c].slot = c => place[c] = "computed"

=============================================================================
