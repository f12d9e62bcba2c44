------------------------- MODULE CommandLine_proofs -------------------------
(***************************************************************************)
(* Proofs about the tools of the command line.                             *)
(*                                                                         *)
(* SendWriteCommand, for any key, nonce and response codes and any number  *)
(* of attempts at reading a result: the invariant adds to that of          *)
(* CommandIngress how many copies each stage of the run can have sent,     *)
(* that the slot being read is known, and that a response that was shown   *)
(* lies at the slot of one of the run's copies.                            *)
(*                                                                         *)
(* ExecutionProbe, for any number of commands and URLs and both tools: the *)
(* invariant says which trials have been judged when, and what a trial     *)
(* that passed has shown, which nothing that follows takes back.           *)
(***************************************************************************)
EXTENDS SendWriteCommand, ExecutionProbe, CommandIngress_proofs

-----------------------------------------------------------------------------
(* SendWriteCommand: what one run of the sender sends and shows *)

RunType ==
    /\ mode \in {"push", "scheduler", "auto"}
    /\ pc \in Stages
    /\ via \in {"push", "scheduler"}
    /\ sent \in 0..MaxCopies
    /\ slot \in Copies \cup {Zero, None}
    /\ tries \in 0..MaxTries
    /\ shown \in Results \cup {None}
    /\ exit \in {0, 1, None}

\* Nothing is under way that was not counted.
SentInv == \A c \in Copies : Known(c) => c[2] <= sent

\* There is a copy left for each stage that sends one.
CopiesInv ==
    /\ pc = "signing" => sent = 0
    /\ pc = "scheduling" => sent = 1
    /\ pc \notin {"signing", "done"} => sent > 0
    /\ via = "push" => sent <= 2
    /\ pc = "pushing" => via = "push"

ReadInv == pc \in {"reading", "computing", "body"} => slot # None

ShownInv == shown # None => \/ shown.response = None
                            \/ shown.response = Foreign /\ shown.slot = Zero
                            \/ \E c \in Copies : landed[c] = shown.response

Inv == IngressInv /\ RunType /\ SentInv /\ CopiesInv /\ ReadInv /\ ShownInv

-----------------------------------------------------------------------------
(* The parts of a step *)

LEMMA Facts == /\ MaxCopies = 3 /\ MaxTries \in Nat \ {0} /\ Cmd \in Requests
               /\ \A n \in 1..3 : <<Cmd, n>> \in Copies
               /\ \A c \in Copies : c[1] = Cmd
               /\ None \notin Results /\ Zero # None /\ None \notin Copies
BY CmdAssumption, TriesAssumption, ZeroAssumption, ResultAssumption, NoneAssumption
   DEF Copies

LEMMA DieInv == ASSUME Inv, Die PROVE Inv'
<1> USE DEF Inv, Die
<1>1. IngressInv'
  BY IngressStutter
<1> QED BY <1>1 DEF RunType, Stages, SentInv, CopiesInv, ReadInv, ShownInv, Known, ingress

LEMMA ReadStep ==
    ASSUME Inv, NEW next \in {"reading", "computing", "body"}, NEW n \in 0..MaxTries,
           pc \in {"reading", "computing", "body"}, Read(next, n)
    PROVE  Inv'
<1> USE DEF Inv, Read
<1>1. IngressInv'
  BY IngressStutter
<1> QED BY <1>1 DEF RunType, Stages, SentInv, CopiesInv, ReadInv, ShownInv, Known, ingress

LEMMA ReadSlotStep ==
    ASSUME Inv, NEW s \in Copies \cup {Zero}, pc \notin {"signing", "done"}, ReadSlot(s)
    PROVE  Inv'
<1> USE DEF Inv, ReadSlot
<1>1. IngressInv'
  BY IngressStutter
<1>2. RunType'
  BY Facts DEF RunType, Stages
<1>3. ReadInv'
  BY Facts DEF ReadInv
<1> QED BY <1>1, <1>2, <1>3 DEF SentInv, CopiesInv, ShownInv, Known, ingress

LEMMA SendStep ==
    ASSUME Inv, NEW next, NEW by, Send(next, by),
           \/ next = "scheduling" /\ by = "scheduler" /\ sent = 0
           \/ next = "pushing" /\ by = "push" /\ sent <= 1
           \/ next = "rescheduling" /\ by = "scheduler" /\ sent \in 1..2
    PROVE  Inv'
<1> DEFINE c == <<Cmd, sent + 1>>
<1>1. /\ pc' = next /\ via' = by /\ sent' = sent + 1 /\ Launch(c)
      /\ UNCHANGED <<mode, slot, tries, shown, exit>>
  BY DEF Send
<1>2. sent \in 0..3 /\ sent + 1 \in 1..3
  BY Facts DEF Inv, RunType
<1>3. c \in Copies /\ ~Known(c) /\ c[2] = sent + 1
  BY <1>2, Facts DEF Inv, SentInv
<1> HIDE DEF c
<1>4. /\ IngressInv' /\ UNCHANGED <<scheduled, landed>>
      /\ \A d \in Copies : Known(d)' => Known(d) \/ d = c
  BY <1>1, <1>3, LaunchInv DEF Inv
<1>5. RunType'
  BY <1>1, <1>2, Facts DEF Inv, RunType, Stages
<1>6. SentInv'
  <2>1. ASSUME NEW d \in Copies, Known(d)' PROVE d[2] <= sent + 1
    <3>1. d[2] \in Nat
      BY CopyFacts, CopyAssumption
    <3>2. d[2] <= sent \/ d = c
      BY <1>4, <2>1 DEF Inv, SentInv
    <3> QED BY <1>2, <1>3, <3>1, <3>2
  <2> QED BY <1>1, <2>1 DEF SentInv, Known
<1>7. CopiesInv' /\ ReadInv' /\ ShownInv'
  BY <1>1, <1>2, <1>4 DEF Inv, CopiesInv, ReadInv, ShownInv
<1> QED BY <1>4, <1>5, <1>6, <1>7 DEF Inv

\* What is shown is what was found at the slot.
LEMMA ShowStep ==
    ASSUME Inv, pc \in {"reading", "body"}, NEW response \in Found, Show(response)
    PROVE  Inv'
<1> DEFINE result == [slot |-> slot, response |-> response]
<1>1. /\ pc' = "done" /\ exit' = 0 /\ shown' = result
      /\ UNCHANGED <<mode, via, sent, slot, tries, ingress>>
  BY DEF Show
<1>2. IngressInv'
  BY <1>1, IngressStutter DEF Inv
<1>3. \/ response = None
      \/ response = Foreign /\ slot = Zero
      \/ slot \in Copies /\ response = landed[slot]
  <2>1. slot \in Copies \cup {Zero}
    BY DEF Inv, RunType, ReadInv
  <2>2. response = None \/ response = IF slot = Zero THEN Foreign ELSE landed[slot]
    BY DEF Found
  <2> QED BY <2>1, <2>2
<1>4. response \in Responses \cup {None, Foreign}
  BY <1>3 DEF Inv, IngressInv, IngressType
<1>5. slot \in Copies \cup {Zero}
  BY DEF Inv, RunType, ReadInv
<1>6. result \in Results /\ result.response = response /\ result.slot = slot
  BY <1>4, <1>5 DEF Results
<1> HIDE DEF result
<1>7. RunType'
  BY <1>1, <1>6 DEF Inv, RunType, Stages
<1>8. ShownInv'
  BY <1>1, <1>3, <1>6 DEF ShownInv, ingress
<1> QED BY <1>1, <1>2, <1>7, <1>8 DEF Inv, SentInv, CopiesInv, ReadInv, Known, ingress

LEMMA GiveUpInv ==
    ASSUME Inv, pc \in {"computing", "body"}, GiveUp PROVE Inv'
<1>1. CASE mode = "auto" /\ via = "push" /\ Send("rescheduling", "scheduler")
  <2>1. sent \in 1..2
    BY <1>1, Facts DEF Inv, RunType, CopiesInv
  <2> QED BY <1>1, <2>1, SendStep
<1> QED BY <1>1, DieInv DEF GiveUp

LEMMA ComputeErrorInv ==
    ASSUME Inv, pc \in {"computing", "body"}, NEW e, ComputeError(e) PROVE Inv'
<1>1. CASE tries < MaxTries /\ Read("computing", tries + 1)
  <2>1. tries + 1 \in 0..MaxTries
    BY <1>1, Facts DEF Inv, RunType
  <2> QED BY <1>1, <2>1, ReadStep
<1> QED BY <1>1, GiveUpInv DEF ComputeError

LEMMA StepInv == ASSUME Inv, Step PROVE Inv'
<1>1. CASE Sign
  <2>1. sent = 0
    BY <1>1 DEF Sign, Inv, CopiesInv
  <2> QED BY <1>1, <2>1, SendStep, DieInv DEF Sign
<1>2. CASE SchedulerAccepts \/ PushAccepts
  <2>1. pc \in {"scheduling", "rescheduling", "pushing"}
    BY <1>2 DEF SchedulerAccepts, PushAccepts
  <2>2. Copy \in Copies
    <3>1. sent \in 1..3
      BY <2>1, Facts DEF Inv, RunType, CopiesInv
    <3> QED BY <3>1, Facts DEF Copy
  <2> QED BY <1>2, <2>1, <2>2, ReadSlotStep DEF SchedulerAccepts, PushAccepts
<1>3. CASE SchedulerFails
  <2>1. CASE pc = "scheduling" /\ mode = "auto" /\ Send("pushing", "push")
    BY <2>1, SendStep DEF Inv, CopiesInv
  <2> QED BY <1>3, <2>1, DieInv DEF SchedulerFails
<1>4. CASE PushFails
  BY <1>4, DieInv DEF PushFails
<1>5. CASE ResultRead
  BY <1>5, ShowStep DEF ResultRead
<1>6. CASE ResultFails
  <2>1. 1 \in 0..MaxTries /\ tries \in 0..MaxTries /\ MaxTries \in Nat
    BY Facts DEF Inv, RunType
  <2>2. \/ tries < MaxTries /\ Read("reading", tries + 1)
        \/ Read("computing", 1)
    BY <1>6 DEF ResultFails
  <2>3. tries < MaxTries => tries + 1 \in 0..MaxTries
    BY <2>1
  <2> QED BY <1>6, <2>1, <2>2, <2>3, ReadStep DEF ResultFails
<1>7. CASE ComputeFails
  BY <1>7, ComputeErrorInv DEF ComputeFails
<1>8. CASE ComputeHeaders
  BY <1>8, ReadStep DEF ComputeHeaders, Inv, RunType
<1>9. CASE ComputeBody
  BY <1>9, ShowStep, ComputeErrorInv, GiveUpInv DEF ComputeBody
<1> QED BY <1>1, <1>2, <1>3, <1>4, <1>5, <1>6, <1>7, <1>8, <1>9 DEF Step

LEMMA InitInv == Init => Inv
<1> SUFFICES ASSUME Init PROVE Inv
  OBVIOUS
<1>1. IngressInv
  BY IngressInitInv DEF Init
<1>2. RunType
  BY Facts DEF Init, RunType, Stages
<1>3. SentInv
  BY DEF Init, IngressInit, SentInv, Known
<1> QED BY <1>1, <1>2, <1>3 DEF Inv, Init, CopiesInv, ReadInv, ShownInv

LEMMA NextInv == Inv /\ [Next]_vars => Inv'
<1> SUFFICES ASSUME Inv, [Next]_vars PROVE Inv'
  OBVIOUS
<1>1. CASE Step
  BY <1>1, StepInv
<1>2. CASE IngressNext /\ UNCHANGED <<mode, tool>>
  <2>1. /\ IngressInv'
        /\ \A c \in Copies : landed[c] # None => landed'[c] = landed[c]
        /\ \A c \in Copies : Known(c)' => Known(c)
    BY <1>2, IngressStep DEF Inv
  <2>2. UNCHANGED <<mode, pc, via, sent, slot, tries, shown, exit>>
    BY <1>2 DEF tool
  <2>3. RunType' /\ CopiesInv' /\ ReadInv'
    BY <2>2 DEF Inv, RunType, CopiesInv, ReadInv
  <2>4. SentInv'
    BY <2>1, <2>2 DEF Inv, SentInv, Known
  <2>5. ShownInv'
    BY <2>1, <2>2 DEF Inv, ShownInv
  <2> QED BY <2>1, <2>3, <2>4, <2>5 DEF Inv
<1>3. CASE UNCHANGED vars
  <2>1. IngressInv'
    BY <1>3, IngressStutter DEF Inv, vars
  <2> QED BY <1>3, <2>1 DEF vars, tool, ingress, Inv, RunType, SentInv, CopiesInv,
                            ReadInv, ShownInv, Known
<1> QED BY <1>1, <1>2, <1>3 DEF Next

-----------------------------------------------------------------------------
(* The theorems *)

\* The invariant holds of every state of every behaviour.
THEOREM InvAlways == Spec => []Inv
BY InitInv, NextInv, PTL DEF Spec

\* A run never sends more than three copies of its command nor looks for its
\* result more often than main and runWithRetry say.
THEOREM TypeCorrect == Spec => []TypeOK
<1>1. Inv => TypeOK
  BY DEF Inv, IngressInv, RunType, TypeOK
<1> QED BY <1>1, InvAlways, PTL

\* Whichever copy a run of send_write_command.js reads, an outcome it prints is
\* the one in the registry, unless it was read from slot 0.
THEOREM ShownIsRecorded == Spec => []ShownIsTheLedgers
<1>1. Inv => ShownIsTheLedgers
  <2> SUFFICES ASSUME Inv, shown # None, shown.response # None,
                      ~(shown.response = Foreign /\ shown.slot = Zero),
                      shown.response.by # None
               PROVE  ledger[KeyOf[Cmd]] = shown.response
    BY DEF ShownIsTheLedgers
  <2>1. PICK c \in Copies : landed[c] = shown.response
    BY DEF Inv, ShownInv
  <2>2. CopyKey(c) = KeyOf[Cmd]
    BY Facts DEF CopyKey
  <2> QED BY <2>1, <2>2 DEF Inv, IngressInv, ResponseInv
<1> QED BY <1>1, InvAlways, PTL

-----------------------------------------------------------------------------
(* ExecutionProbe: what the tools judge *)

\* The trials the loops of the tool have left behind.
Before(c) ==
    \/ c[2] < url
    \/ script = "matrix" /\ c[2] = url /\ c[1] < cmd

\* While the run goes on, those are judged, and no others; when it comes to its
\* report, all are.
JudgedInv ==
    /\ stage \notin {"reporting", "done"} =>
          \A c \in Trials : verdict[c] # Nothing <=> Before(c)
    /\ stage = "reporting" => \A c \in Trials : verdict[c] # Nothing

\* What a trial has shown if its own slot was looked at: that it was computed.
Own(c) == sends[c].slot = c => place[c] = "computed"

\* A trial that passed was answered with a good status, and has shown it.
PassedInv ==
    \A c \in Trials : verdict[c] = TRUE =>
        sends[c] # Nothing /\ sends[c].ok /\ Own(c)

\* The trials that are judged next were answered.
BeforeJudgedInv ==
    /\ script = "deep" /\ stage \in {"sending", "sent"} =>
          \A n \in 1..Count : n < cmd => sends[<<n, url>>] # Nothing
    /\ script = "deep" /\ stage \in {"current", "computing"} =>
          \A n \in 1..Count : sends[<<n, url>>] # Nothing
    /\ script = "matrix" /\ stage \in {"message", "computing"} => sends[Here] # Nothing
    /\ script = "deep" => stage # "message"
    /\ script = "matrix" => stage # "current"

\* A probe of the deep test is about a slot of this URL.
ProbesInv ==
    /\ stage # "computing" \/ script = "matrix" =>
          \A n \in 1..Count : probes[n] = Nothing
    /\ \A n \in 1..Count : probes[n] = "effect" => Own(<<n, url>>)

\* Exit code 0 in strict mode.
CodeInv ==
    /\ code # Nothing => stage = "done"
    /\ strict /\ code = 0 => \A c \in Trials : verdict[c] = TRUE

ProbeInv ==
    ProbeType /\ JudgedInv /\ PassedInv /\ BeforeJudgedInv /\ ProbesInv /\ CodeInv

LEMMA ProbeConstants ==
    /\ Count \in Nat \ {0} /\ Urls \in Nat \ {0}
    /\ SlotZero \notin Trials /\ NaN \notin Trials
    /\ Nothing \notin Answers /\ Nothing \notin Effects /\ Nothing \notin BOOLEAN
    /\ Nothing # 0 /\ Nothing # 1 /\ Nothing # "effect"
BY CountAssumption, SlotAssumption, NothingAssumption DEF Effects

LEMMA HereIsTrial == ASSUME ProbeType PROVE Here \in Trials
BY DEF ProbeType, Here, Trials

LEMMA TrialIsPair ==
    ASSUME NEW c \in Trials
    PROVE  c[1] \in 1..Count /\ c[2] \in 1..Urls /\ c = <<c[1], c[2]>>
BY DEF Trials

LEMMA ProbeInitInv == ProbeInit => ProbeInv
<1> SUFFICES ASSUME ProbeInit PROVE ProbeInv
  OBVIOUS
<1> USE ProbeConstants DEF ProbeInit, NoProbes
<1>1. ProbeType
  <2>1. /\ sends \in [Trials -> Answers \cup {Nothing}]
        /\ verdict \in [Trials -> BOOLEAN \cup {Nothing}]
    OBVIOUS
  <2>2. probes \in [1..Count -> Effects \cup {Nothing}]
    OBVIOUS
  <2>3. place \in [Trials -> {"unsent", "flight", "slot", "computed"}]
    OBVIOUS
  <2>4. message \in BOOLEAN /\ report \in BOOLEAN
    BY Zenon
  <2>5. stage \in {"signing", "sending", "sent", "current", "message", "computing",
                   "reporting", "done"}
    OBVIOUS
  <2>6. cmd \in 1..Count /\ url \in 1..Urls /\ code \in {0, 1, Nothing}
    OBVIOUS
  <2> QED BY Zenon, <2>1, <2>2, <2>3, <2>4, <2>5, <2>6 DEF ProbeType
<1>2. JudgedInv
  BY TrialIsPair DEF JudgedInv, Before
<1> QED BY <1>1, <1>2 DEF ProbeInv, PassedInv, BeforeJudgedInv, ProbesInv, CodeInv

\* A copy that takes its slot or is computed there takes nothing back.
LEMMA PlaceInv ==
    ASSUME ProbeInv, NEW c \in Trials, GiveSlot(c) \/ ComputeSlot(c)
    PROVE  ProbeInv'
<1> USE ProbeConstants DEF ProbeInv, GiveSlot, ComputeSlot, config, found
<1>1. ProbeType'
  BY DEF ProbeType
<1>2. \A d \in Trials : Own(d) => Own(d)'
  BY DEF Own, ProbeType
<1>3. PassedInv'
  BY <1>2 DEF PassedInv
<1>4. ProbesInv'
  <2>1. \A n \in 1..Count : <<n, url>> \in Trials
    BY DEF Trials, ProbeType
  <2> QED BY <1>2, <2>1 DEF ProbesInv
<1>5. JudgedInv' /\ BeforeJudgedInv' /\ CodeInv'
  BY DEF JudgedInv, Before, BeforeJudgedInv, CodeInv, Here
<1> QED BY <1>1, <1>3, <1>4, <1>5

LEMMA AbortInv == ASSUME ProbeInv, Abort PROVE ProbeInv'
<1> USE ProbeConstants DEF ProbeInv, Abort, config, found
<1>1. ProbeType'
  BY DEF ProbeType
<1>2. PassedInv'
  BY DEF PassedInv, Own
<1>3. ProbesInv'
  BY DEF ProbesInv, Own
<1>4. JudgedInv' /\ BeforeJudgedInv' /\ CodeInv'
  BY DEF JudgedInv, BeforeJudgedInv, CodeInv
<1> QED BY <1>1, <1>2, <1>3, <1>4

LEMMA SignInv == ASSUME ProbeInv, SignCommand PROVE ProbeInv'
<1> USE ProbeConstants DEF ProbeInv, SignCommand, config, found, Go
<1>1. ProbeType'
  BY DEF ProbeType
<1>2. PassedInv'
  BY DEF PassedInv, Own
<1>3. ProbesInv'
  BY DEF ProbesInv, Own
<1>4. JudgedInv'
  BY DEF JudgedInv, Before
<1>5. BeforeJudgedInv'
  BY DEF BeforeJudgedInv, ProbeType
<1>6. CodeInv'
  BY DEF CodeInv
<1> QED BY <1>1, <1>2, <1>3, <1>4, <1>5, <1>6

\* Nothing depends on the place of a trial before it is probed.
LEMMA SendInv == ASSUME ProbeInv, SendTrial PROVE ProbeInv'
<1> USE ProbeConstants, HereIsTrial DEF ProbeInv, SendTrial, config, found, Go
<1>1. ProbeType'
  BY DEF ProbeType
<1>2. ~Before(Here)
  BY DEF Before, Here, ProbeType
<1>3. PassedInv'
  BY <1>2 DEF PassedInv, Own, JudgedInv, ProbeType
<1>4. ProbesInv'
  BY DEF ProbesInv, Own
<1>5. JudgedInv'
  BY DEF JudgedInv, Before
<1>6. BeforeJudgedInv' /\ CodeInv'
  BY DEF BeforeJudgedInv, CodeInv
<1> QED BY <1>1, <1>3, <1>4, <1>5, <1>6

LEMMA AnsweredStepInv == ASSUME ProbeInv, Answered PROVE ProbeInv'
<1> USE ProbeConstants, HereIsTrial DEF ProbeInv, config
<1>1. PICK ok \in BOOLEAN, s \in Slots :
         sends' = [sends EXCEPT ![Here] = [ok |-> ok, slot |-> s]]
  BY DEF Answered
<1>2. [ok |-> ok, slot |-> s] \in Answers
  BY DEF Slots, Answers
<1>3. /\ sends'[Here] # Nothing
      /\ \A c \in Trials : c # Here => sends'[c] = sends[c]
  BY <1>1, <1>2 DEF ProbeType
<1> USE DEF Answered, Go
<1>4. ProbeType'
  BY <1>1, <1>2 DEF ProbeType
<1>5. ~Before(Here)
  BY DEF Before, Here, ProbeType
<1>6. PassedInv'
  BY <1>3, <1>5 DEF PassedInv, Own, JudgedInv
<1>7. ProbesInv'
  BY DEF ProbesInv
<1>8. JudgedInv' /\ CodeInv'
  BY DEF JudgedInv, Before, CodeInv
<1>9. BeforeJudgedInv'
  <2>1. \A n \in 1..Count : <<n, url>> \in Trials /\ (n = cmd <=> <<n, url>> = Here)
    BY DEF Trials, Here, ProbeType
  <2> QED BY <1>3, <2>1 DEF BeforeJudgedInv, Here, ProbeType
<1> QED BY <1>4, <1>6, <1>7, <1>8, <1>9

LEMMA LookedUpInv == ASSUME ProbeInv, SlotCurrent \/ MessageKnown PROVE ProbeInv'
<1> USE ProbeConstants DEF ProbeInv, SlotCurrent, MessageKnown, config, found, Go
<1>1. ProbeType'
  <2>1. Placed(Here) \in BOOLEAN
    BY DEF Placed
  <2>2. message' \in BOOLEAN
    BY <2>1 DEF ProbeType
  <2>3. stage' = "computing" /\ (cmd' = 1 \/ cmd' = cmd) /\ url' = url
    BY Zenon
  <2>4. UNCHANGED <<script, strict, sends, probes, verdict, report, code, place>>
    OBVIOUS
  <2> HIDE DEF SlotCurrent, MessageKnown
  <2> QED BY <2>2, <2>3, <2>4 DEF ProbeType
<1>2. PassedInv'
  BY DEF PassedInv, Own
<1>3. ProbesInv'
  BY DEF ProbesInv
<1>4. JudgedInv'
  BY DEF JudgedInv, Before, BeforeJudgedInv
<1>5. BeforeJudgedInv'
  BY DEF BeforeJudgedInv, Here, ProbeType
<1>6. CodeInv'
  BY DEF CodeInv
<1> QED BY <1>1, <1>2, <1>3, <1>4, <1>5, <1>6

\* An effect in the slot of a trial means that its own slot was computed.
LEMMA EffectIsOwn ==
    ASSUME ProbeType, NEW p \in Probed
    PROVE  p \in Effects \cup {Nothing} /\ (p = "effect" => Own(Here))
BY ProbeConstants, HereIsTrial DEF Probed, InSlot, Filled, Own, Effects

LEMMA PassedMeans ==
    ASSUME NEW answer \in Answers, NEW known \in BOOLEAN, NEW effect
    PROVE  /\ Passed(answer, known, effect) \in BOOLEAN
           /\ Passed(answer, known, effect) = TRUE => answer.ok /\ effect = "effect"
BY Zenon DEF Passed

LEMMA DeepProbeInv == ASSUME ProbeInv, DeepProbe PROVE ProbeInv'
<1> USE ProbeConstants DEF ProbeInv, config
<1>1. PICK p \in Probed : probes' = [probes EXCEPT ![cmd] = p]
  BY DEF DeepProbe
<1>2. p \in Effects \cup {Nothing} /\ (p = "effect" => Own(Here))
  BY EffectIsOwn
<1> USE DEF DeepProbe, Go
<1>3. ProbeType'
  BY <1>1, <1>2 DEF ProbeType
<1>4. PassedInv'
  BY DEF PassedInv, Own
<1>5. ProbesInv'
  BY <1>1, <1>2 DEF ProbesInv, Own, Here, ProbeType
<1>6. JudgedInv' /\ BeforeJudgedInv' /\ CodeInv'
  BY DEF JudgedInv, Before, BeforeJudgedInv, CodeInv
<1> QED BY <1>3, <1>4, <1>5, <1>6

\* A URL is through: everything up to it is judged.
LEMMA NextUrlJudged ==
    ASSUME ProbeType, ProbeType', NEW next \in {"signing", "sending"}, NextUrl(next),
           script' = script,
           \A c \in Trials : verdict'[c] # Nothing <=> c[2] <= url
    PROVE  JudgedInv' /\ stage' \in {next, "reporting"} /\ (stage' = next => cmd' = 1)
<1> USE DEF NextUrl, Go, ProbeType
<1>1. CASE url < Urls /\ Go(next, 1, url + 1)
  <2>1. \A c \in Trials : c[2] <= url <=> Before(c)'
    BY <1>1, TrialIsPair, ProbeConstants DEF Before
  <2> QED BY <1>1, <2>1 DEF JudgedInv
<1>2. CASE url = Urls /\ Go("reporting", cmd, url)
  BY <1>2, TrialIsPair DEF JudgedInv
<1> QED BY <1>1, <1>2

LEMMA DeepJudgeInv == ASSUME ProbeInv, DeepJudge PROVE ProbeInv'
<1> USE ProbeConstants DEF ProbeInv, config
<1> DEFINE effect(c, p) == IF c[1] = cmd THEN p ELSE probes[c[1]]
<1>1. PICK p \in Probed :
         verdict' = [c \in Trials |-> IF c[2] # url THEN verdict[c]
                                      ELSE Passed(sends[c], FALSE, effect(c, p))]
  BY DEF DeepJudge
<1>2. p \in Effects \cup {Nothing} /\ (p = "effect" => Own(Here))
  BY EffectIsOwn
<1>3. \A c \in Trials : c[2] # url => verdict'[c] = verdict[c]
  BY <1>1
<1>4. ASSUME NEW c \in Trials, c[2] = url
      PROVE  /\ verdict'[c] \in BOOLEAN
             /\ sends[c] \in Answers
             /\ verdict'[c] = TRUE => sends[c].ok /\ Own(c)
  <2>1. c = <<c[1], url>> /\ c[1] \in 1..Count
    BY <1>4, TrialIsPair
  <2>2. sends[c] \in Answers
    BY <2>1 DEF BeforeJudgedInv, ProbeType, DeepJudge
  <2>3. verdict'[c] = Passed(sends[c], FALSE, effect(c, p))
    BY <1>1, <1>4
  <2>4. effect(c, p) = "effect" => Own(c)
    BY <1>2, <2>1 DEF ProbesInv, Here
  <2> QED BY <2>2, <2>3, <2>4, PassedMeans
<1>5. ProbeType'
  <2>1. verdict' \in [Trials -> BOOLEAN \cup {Nothing}]
    BY <1>1, <1>3, <1>4 DEF ProbeType
  <2>2. probes' \in [1..Count -> Effects \cup {Nothing}]
    BY DEF DeepJudge, NoProbes
  <2>3. stage' \in {"sending", "reporting"} /\ cmd' \in 1..Count /\ url' \in 1..Urls
    BY DEF ProbeType, DeepJudge, NextUrl, Go
  <2>4. UNCHANGED <<script, strict, message, sends, report, code, place>>
    BY DEF DeepJudge
  <2> QED BY <2>1, <2>2, <2>3, <2>4 DEF ProbeType
<1>6. PassedInv'
  <2>1. \A c \in Trials : Own(c) => Own(c)'
    BY DEF Own, DeepJudge
  <2> QED BY <1>3, <1>4, <2>1 DEF PassedInv, DeepJudge
<1>7. \A c \in Trials : verdict'[c] # Nothing <=> c[2] <= url
  <2>1. ASSUME NEW c \in Trials, c[2] # url
        PROVE  verdict[c] # Nothing <=> c[2] < url
    BY <2>1 DEF JudgedInv, Before, DeepJudge
  <2>2. url \in Nat /\ \A c \in Trials : c[2] \in Nat
    BY TrialIsPair DEF ProbeType
  <2>3. ASSUME NEW c \in Trials PROVE verdict'[c] # Nothing <=> c[2] <= url
    <3>1. CASE c[2] = url
      <4>1. verdict'[c] # Nothing
        BY <1>4, <3>1
      <4> QED BY <2>2, <3>1, <4>1
    <3>2. CASE c[2] # url
      <4>1. c[2] < url <=> c[2] <= url
        BY <2>2, <3>2
      <4>2. verdict'[c] = verdict[c]
        BY <1>3, <3>2
      <4> QED BY <2>1, <3>2, <4>1, <4>2
    <3> QED BY <3>1, <3>2
  <2> QED BY <2>3
<1>8. NextUrl("sending") /\ script' = script
  BY DEF DeepJudge
<1>9. JudgedInv' /\ stage' \in {"sending", "reporting"} /\ (stage' = "sending" => cmd' = 1)
  BY <1>5, <1>7, <1>8, NextUrlJudged
<1>10. BeforeJudgedInv'
  BY <1>5, <1>9 DEF BeforeJudgedInv, ProbeType, DeepJudge
<1>11. ProbesInv'
  <2>1. \A n \in 1..Count : probes'[n] = Nothing
    BY DEF DeepJudge, NoProbes
  <2> QED BY <2>1 DEF ProbesInv
<1>12. CodeInv'
  BY DEF CodeInv, DeepJudge
<1> QED BY <1>5, <1>6, <1>9, <1>10, <1>11, <1>12

LEMMA MatrixJudgeInv == ASSUME ProbeInv, MatrixJudge PROVE ProbeInv'
<1> USE ProbeConstants, HereIsTrial DEF ProbeInv, config
<1>1. PICK p \in Probed :
         verdict' = [verdict EXCEPT ![Here] = Passed(sends[Here], message, p)]
  BY DEF MatrixJudge
<1>2. p = "effect" => Own(Here)
  BY EffectIsOwn
<1>3. \A c \in Trials : c # Here => verdict'[c] = verdict[c]
  BY <1>1 DEF ProbeType
<1>4. /\ verdict'[Here] \in BOOLEAN
      /\ sends[Here] \in Answers
      /\ verdict'[Here] = TRUE => sends[Here].ok /\ Own(Here)
  <2>1. sends[Here] \in Answers
    BY DEF BeforeJudgedInv, ProbeType, MatrixJudge
  <2>2. verdict'[Here] = Passed(sends[Here], message, p)
    BY <1>1 DEF ProbeType
  <2>3. message \in BOOLEAN
    BY DEF ProbeType
  <2> QED BY <1>2, <2>1, <2>2, <2>3, PassedMeans
<1>5. ProbeType'
  <2>1. verdict' \in [Trials -> BOOLEAN \cup {Nothing}]
    BY <1>1, <1>3, <1>4 DEF ProbeType
  <2> QED BY <2>1 DEF ProbeType, MatrixJudge, NextUrl, Go
<1>6. PassedInv'
  <2>1. \A c \in Trials : Own(c) => Own(c)'
    BY DEF Own, MatrixJudge
  <2> QED BY <1>3, <1>4, <2>1 DEF PassedInv, MatrixJudge
<1>7. \A c \in Trials : verdict'[c] # Nothing <=> (Before(c) \/ c = Here)
  BY <1>3, <1>4 DEF JudgedInv, MatrixJudge
<1>8. \A c \in Trials : c = Here <=> c[1] = cmd /\ c[2] = url
  BY TrialIsPair DEF Here
<1>9. /\ JudgedInv' /\ stage' \in {"signing", "reporting"}
  <2>1. CASE cmd < Count /\ Go("signing", cmd + 1, url)
    <3>1. \A c \in Trials : Before(c) \/ c = Here <=> Before(c)'
      BY <1>8, <2>1, TrialIsPair DEF Before, MatrixJudge, Go, ProbeType
    <3> QED BY <1>7, <2>1, <3>1 DEF JudgedInv, Go
  <2>2. CASE cmd = Count /\ NextUrl("signing")
    <3>1. \A c \in Trials : Before(c) \/ c = Here <=> c[2] <= url
      BY <1>8, <2>2, TrialIsPair DEF Before, MatrixJudge, ProbeType
    <3>2. script' = script
      BY DEF MatrixJudge
    <3> QED BY <1>5, <1>7, <2>2, <3>1, <3>2, NextUrlJudged
  <2> QED BY <2>1, <2>2 DEF MatrixJudge
<1>10. BeforeJudgedInv' /\ CodeInv'
  BY <1>9 DEF BeforeJudgedInv, CodeInv, MatrixJudge
<1>11. ProbesInv'
  BY DEF ProbesInv, MatrixJudge
<1> QED BY <1>5, <1>6, <1>9, <1>10, <1>11

LEMMA ReportInv == ASSUME ProbeInv, Report PROVE ProbeInv'
<1> USE ProbeConstants DEF ProbeInv, Report, config, found, Go
<1>1. ProbeType'
  BY DEF ProbeType
<1>2. PassedInv'
  BY DEF PassedInv, Own
<1>3. ProbesInv'
  BY DEF ProbesInv, Own
<1>4. JudgedInv' /\ BeforeJudgedInv'
  BY DEF JudgedInv, BeforeJudgedInv
<1>5. CodeInv'
  BY DEF CodeInv, JudgedInv, Failed, ProbeType
<1> QED BY <1>1, <1>2, <1>3, <1>4, <1>5

LEMMA ProbeNextInv == ProbeInv /\ [ProbeNext]_probeVars => ProbeInv'
<1> SUFFICES ASSUME ProbeInv, [ProbeNext]_probeVars PROVE ProbeInv'
  OBVIOUS
<1>1. CASE ProbeNext
  BY <1>1, PlaceInv, AbortInv, SignInv, SendInv, AnsweredStepInv, LookedUpInv,
     DeepProbeInv, DeepJudgeInv, MatrixJudgeInv, ReportInv DEF ProbeNext
<1>2. CASE UNCHANGED probeVars
  BY <1>2 DEF probeVars, config, found, ProbeInv, ProbeType, JudgedInv, Before, PassedInv,
     BeforeJudgedInv, ProbesInv, CodeInv, Own, Here
<1> QED BY <1>1, <1>2

THEOREM ProbeInvariant == ProbeSpec => []ProbeInv
BY ProbeInitInv, ProbeNextInv, PTL DEF ProbeSpec

\* Type correctness of both tools, for any number of commands and URLs: the
\* loops of deep_test_scheduler_direct.js and business_matrix_scheduler_direct.js
\* leave their ranges nowhere.
THEOREM ProbeTypeCorrect == ProbeSpec => []ProbeType
<1>1. ProbeInv => ProbeType
  BY DEF ProbeInv
<1> QED BY <1>1, ProbeInvariant, PTL

\* A strict run of either tool that exits with 0 has judged every trial, and
\* none passed but on a good answer and, where its own slot was named, on what
\* was computed there.
THEOREM StrictPassMeans == ProbeSpec => []StrictPassIsOwn
<1>1. ProbeInv => StrictPassIsOwn
  BY DEF ProbeInv, StrictPassIsOwn, CodeInv, PassedInv, Own
<1> QED BY <1>1, ProbeInvariant, PTL

=============================================================================
