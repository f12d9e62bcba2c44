----------------------- MODULE CommandIngress_proofs -----------------------
(***************************************************************************)
(* Lemmas about CommandIngress that the proofs about its clients share:    *)
(* the invariant that ties what is read at a slot to the registry of the   *)
(* process, and what a step of the network or the process can change.      *)
(***************************************************************************)
EXTENDS CommandIngress, TLAPS

\* The copy has been sent.
Known(c) == c \in flight \/ c \in scheduled \/ landed[c] # None

\* A copy is in one place at a time.
PlacesInv ==
    /\ \A c \in flight : c \notin scheduled /\ landed[c] = None
    /\ \A c \in scheduled : landed[c] = None

\* A response at a slot is a refusal, or the one in the registry.
ResponseInv ==
    \A c \in Copies : landed[c] # None =>
        IF landed[c].by = None THEN landed[c].code \in Refusals
        ELSE ledger[CopyKey(c)] = landed[c]

\* The registry holds the response of the one run of a command.
RegistryInv ==
    \A k \in Keys :
        /\ ledger[k] = None => runs[k] = 0
        /\ ledger[k] # None =>
             /\ ledger[k].by \in Copies /\ CopyKey(ledger[k].by) = k
             /\ landed[ledger[k].by] = ledger[k]
             /\ ledger[k].code \in Outcomes
             /\ runs[k] = 1

IngressInv == IngressType /\ PlacesInv /\ ResponseInv /\ RegistryInv

LEMMA CopyFacts ==
    ASSUME NEW c \in Copies
    PROVE  /\ c[1] \in Requests /\ c[2] \in 1..MaxCopies /\ c = <<c[1], c[2]>>
           /\ CopyKey(c) \in Keys /\ CopyNonce(c) \in Nonces
BY KeyAssumption, NonceAssumption DEF Copies, CopyKey, CopyNonce

LEMMA NoneFacts ==
    /\ None \notin Responses /\ None \notin Copies /\ None \notin Nat
    /\ \A code \in Refusals : Refusal(code) \in Responses
    /\ \A code \in Outcomes, c \in Copies : [code |-> code, by |-> c] \in Responses
BY NoneAssumption DEF Responses, Refusal

LEMMA IngressInitInv == IngressInit => IngressInv
BY CopyFacts, NoneFacts DEF IngressInit, IngressInv, IngressType, PlacesInv,
   ResponseInv, RegistryInv

LEMMA IngressStutter == IngressInv /\ UNCHANGED ingress => IngressInv'
BY DEF ingress, process, IngressInv, IngressType, PlacesInv, ResponseInv, RegistryInv

LEMMA LaunchInv ==
    ASSUME IngressInv, NEW c \in Copies, ~Known(c), Launch(c)
    PROVE  /\ IngressInv'
           /\ \A d \in Copies : Known(d)' => Known(d) \/ d = c
           /\ UNCHANGED <<scheduled, landed, ledger, runs>>
BY DEF Known, Launch, process, IngressInv, IngressType, PlacesInv, ResponseInv, RegistryInv

\* A copy is answered without the registry: with what the registry holds, or
\* with a refusal.
LEMMA AnsweredInv ==
    ASSUME IngressInv, NEW c \in Copies, NEW x \in Responses, Respond(c, x),
           IF x.by = None THEN x.code \in Refusals ELSE ledger[CopyKey(c)] = x,
           nonces' \subseteq Nonces, UNCHANGED <<ledger, runs>>
    PROVE  IngressInv'
<1>1. /\ c \in scheduled /\ scheduled' = scheduled \ {c} /\ flight' = flight
      /\ landed' = [landed EXCEPT ![c] = x]
  BY DEF Respond
<1>2. IngressType'
  BY <1>1 DEF IngressInv, IngressType
<1>3. PlacesInv'
  BY <1>1 DEF IngressInv, IngressType, PlacesInv
<1>4. landed[c] = None
  BY <1>1 DEF IngressInv, PlacesInv
<1>5. ResponseInv'
  BY <1>1, CopyFacts DEF IngressInv, IngressType, ResponseInv, CopyKey
<1>6. RegistryInv'
  <2>1. \A k \in Keys : ledger[k] # None => ledger[k].by # c
    BY <1>4 DEF IngressInv, RegistryInv
  <2> QED BY <1>1, <2>1 DEF IngressInv, IngressType, RegistryInv, CopyKey
<1> QED BY <1>2, <1>3, <1>5, <1>6 DEF IngressInv

LEMMA RunInv ==
    ASSUME IngressInv, NEW c \in Copies, Run(c)
    PROVE  /\ IngressInv'
           /\ ledger[CopyKey(c)] = None
           /\ ledger' = [ledger EXCEPT ![CopyKey(c)] = landed'[c]] /\ landed'[c] # None
           /\ runs' = [runs EXCEPT ![CopyKey(c)] = runs[CopyKey(c)] + 1]
<1>1. PICK code \in Outcomes :
         /\ Respond(c, [code |-> code, by |-> c])
         /\ ledger' = [ledger EXCEPT ![CopyKey(c)] = [code |-> code, by |-> c]]
  BY DEF Run
<1> DEFINE x == [code |-> code, by |-> c]
           k == CopyKey(c)
<1>2. /\ ledger[k] = None /\ nonces' = nonces \cup {CopyNonce(c)}
      /\ runs' = [runs EXCEPT ![k] = runs[k] + 1]
  BY DEF Run, New, UseNonce
<1>3. /\ c \in scheduled /\ scheduled' = scheduled \ {c} /\ flight' = flight
      /\ landed' = [landed EXCEPT ![c] = x]
  BY <1>1 DEF Respond
<1>4. k \in Keys /\ CopyNonce(c) \in Nonces
  BY CopyFacts
<1>5. x \in Responses /\ x.by = c /\ x.code \in Outcomes /\ x # None /\ c # None
  BY NoneFacts
<1> HIDE DEF x
<1>6. ledger' = [ledger EXCEPT ![k] = x]
  BY <1>1 DEF x
<1> HIDE DEF k
<1>7. IngressType'
  BY <1>2, <1>3, <1>4, <1>5, <1>6 DEF IngressInv, IngressType
<1>8. PlacesInv'
  BY <1>3 DEF IngressInv, IngressType, PlacesInv
<1>9. landed[c] = None
  BY <1>3 DEF IngressInv, PlacesInv
<1>10. landed'[c] = x /\ \A d \in Copies \ {c} : landed'[d] = landed[d]
  BY <1>3 DEF IngressInv, IngressType
<1>11. ledger'[k] = x /\ \A j \in Keys \ {k} : ledger'[j] = ledger[j]
  BY <1>4, <1>6 DEF IngressInv, IngressType
<1>12. ResponseInv'
  <2> SUFFICES ASSUME NEW d \in Copies, landed'[d] # None
               PROVE  IF landed'[d].by = None THEN landed'[d].code \in Refusals
                      ELSE ledger'[CopyKey(d)] = landed'[d]
    BY DEF ResponseInv, CopyKey
  <2>1. CASE d = c
    BY <1>5, <1>10, <1>11, <2>1 DEF k
  <2>2. CASE d # c
    <3>1. landed'[d] = landed[d] /\ CopyKey(d) \in Keys
      BY <1>10, <2>2, CopyFacts
    <3>2. landed[d].by # None => CopyKey(d) # k
      BY <1>2, <3>1 DEF IngressInv, ResponseInv
    <3> QED BY <1>11, <3>1, <3>2 DEF IngressInv, ResponseInv
  <2> QED BY <2>1, <2>2
<1>13. RegistryInv'
  <2> SUFFICES ASSUME NEW j \in Keys
               PROVE  /\ ledger'[j] = None => runs'[j] = 0
                      /\ ledger'[j] # None =>
                           /\ ledger'[j].by \in Copies /\ CopyKey(ledger'[j].by) = j
                           /\ landed'[ledger'[j].by] = ledger'[j]
                           /\ ledger'[j].code \in Outcomes
                           /\ runs'[j] = 1
    BY DEF RegistryInv, CopyKey
  <2>1. CASE j = k
    <3>1. runs[k] = 0 /\ runs'[k] = 1
      BY <1>2, <1>4 DEF IngressInv, IngressType, RegistryInv
    <3> QED BY <1>5, <1>10, <1>11, <2>1, <3>1 DEF k
  <2>2. CASE j # k
    <3>1. ledger'[j] = ledger[j] /\ runs'[j] = runs[j]
      BY <1>2, <1>11, <2>2 DEF IngressInv, IngressType
    <3>2. ledger[j] # None => ledger[j].by \in Copies \ {c}
      BY <1>9 DEF IngressInv, RegistryInv
    <3> QED BY <1>10, <3>1, <3>2 DEF IngressInv, RegistryInv
  <2> QED BY <2>1, <2>2
<1>14. IngressInv'
  BY <1>7, <1>8, <1>12, <1>13 DEF IngressInv
<1> QED BY <1>2, <1>5, <1>6, <1>10, <1>14 DEF k

LEMMA ComputeInv ==
    ASSUME IngressInv, NEW c \in Copies, Compute(c), ~Run(c)
    PROVE  IngressInv' /\ UNCHANGED <<ledger, runs>>
<1>1. CopyKey(c) \in Keys /\ CopyNonce(c) \in Nonces
  BY CopyFacts
<1>2. nonces \subseteq Nonces
  BY DEF IngressInv, IngressType
<1>3. CASE Replay(c)
  <2> DEFINE x == ledger[CopyKey(c)]
  <2>1. x # None /\ Respond(c, x) /\ UNCHANGED <<ledger, nonces, runs>>
    BY <1>3 DEF Replay, process
  <2>2. x \in Responses /\ x.by \in Copies
    BY <1>1, <2>1 DEF IngressInv, IngressType, RegistryInv
  <2>3. x.by # None
    BY <2>2, NoneFacts
  <2> HIDE DEF x
  <2>4. IF x.by = None THEN x.code \in Refusals ELSE ledger[CopyKey(c)] = x
    BY <2>3 DEF x
  <2> QED BY <1>2, <2>1, <2>2, <2>4, AnsweredInv
<1>4. ASSUME NEW code \in Refusals, Respond(c, Refusal(code)),
             nonces' \subseteq Nonces, UNCHANGED <<ledger, runs>>
      PROVE  IngressInv'
  <2> DEFINE x == Refusal(code)
  <2>1. x \in Responses /\ x.by = None /\ x.code \in Refusals
    BY NoneFacts DEF Refusal
  <2>2. Respond(c, x)
    BY <1>4
  <2> HIDE DEF x
  <2> QED BY <1>4, <2>1, <2>2, AnsweredInv
<1>5. CASE LimitSender(c)
  BY <1>2, <1>4, <1>5 DEF LimitSender, process, Refusals
<1>4a. CASE RefuseStale(c)
  BY <1>2, <1>4, <1>4a DEF RefuseStale, process, Refusals
<1>6. CASE RefuseNonce(c)
  BY <1>2, <1>4, <1>6 DEF RefuseNonce, process, Refusals
<1>7. CASE LimitScope(c)
  BY <1>1, <1>2, <1>4, <1>7 DEF LimitScope, UseNonce, Refusals
<1> QED BY <1>3, <1>4a, <1>5, <1>6, <1>7 DEF Compute

\* What a step of the network or the process leaves as it is.
LEMMA IngressStep ==
    ASSUME IngressInv, IngressNext
    PROVE  /\ IngressInv'
           /\ \A c \in Copies : landed[c] # None => landed'[c] = landed[c]
           /\ \A c \in Copies : Known(c)' => Known(c)
           /\ \A c \in scheduled : c \in scheduled' \/ landed'[c] # None
           /\ \/ UNCHANGED <<ledger, runs>>
              \/ \E k \in Keys, x \in Responses :
                    /\ ledger[k] = None /\ ledger' = [ledger EXCEPT ![k] = x]
                    /\ runs' = [runs EXCEPT ![k] = runs[k] + 1]
<1> USE DEF IngressInv
<1>1. ASSUME NEW c \in Copies, Schedule(c)
      PROVE  /\ IngressInv' /\ UNCHANGED <<landed, ledger, runs>>
             /\ \A d \in Copies : Known(d)' => Known(d)
             /\ scheduled \subseteq scheduled'
  BY <1>1 DEF Schedule, process, Known, IngressType, PlacesInv, ResponseInv, RegistryInv
<1>2. ASSUME NEW c \in Copies, NEW x \in Responses, Respond(c, x)
      PROVE  /\ \A d \in Copies : landed[d] # None => landed'[d] = landed[d]
             /\ \A d \in Copies : Known(d)' => Known(d)
             /\ \A d \in scheduled : d \in scheduled' \/ landed'[d] # None
  <2>1. /\ c \in scheduled /\ scheduled' = scheduled \ {c} /\ flight' = flight
        /\ landed' = [landed EXCEPT ![c] = x] /\ landed[c] = None /\ x # None
    BY <1>2, NoneFacts DEF Respond, PlacesInv
  <2> QED BY <2>1 DEF Known, IngressType
<1>3. ASSUME NEW c \in Copies, Compute(c)
      PROVE  \E x \in Responses : Respond(c, x)
  <2>1. CopyKey(c) \in Keys
    BY CopyFacts
  <2>2. ledger[CopyKey(c)] # None => ledger[CopyKey(c)] \in Responses
    BY <2>1 DEF IngressType
  <2>3. "RATE_LIMITED" \in Refusals /\ "UNAUTHORIZED" \in Refusals
    BY DEF Refusals
  <2> QED BY <1>3, <2>2, <2>3, NoneFacts
             DEF Compute, Replay, RefuseStale, LimitSender, RefuseNonce, LimitScope, Run
<1>4. CASE \E n \in Nonces : NonceLapses(n)
  BY <1>4 DEF NonceLapses, Known, IngressType, PlacesInv, ResponseInv, RegistryInv
<1>5. ASSUME NEW c \in Copies, Run(c)
      PROVE  \E k \in Keys, x \in Responses :
                /\ ledger[k] = None /\ ledger' = [ledger EXCEPT ![k] = x]
                /\ runs' = [runs EXCEPT ![k] = runs[k] + 1]
  <2>1. CopyKey(c) \in Keys
    BY CopyFacts
  <2>2. /\ ledger[CopyKey(c)] = None /\ landed'[c] # None /\ IngressType'
        /\ ledger' = [ledger EXCEPT ![CopyKey(c)] = landed'[c]]
        /\ runs' = [runs EXCEPT ![CopyKey(c)] = runs[CopyKey(c)] + 1]
    BY <1>5, RunInv
  <2>3. landed'[c] \in Responses
    BY <2>2 DEF IngressType
  <2> QED BY <2>1, <2>2, <2>3
<1>6. CASE \E c \in Copies : Schedule(c)
  BY <1>1, <1>6
<1>7. CASE \E c \in Copies : Compute(c)
  <2>1. PICK c \in Copies : Compute(c)
    BY <1>7
  <2>2. IngressInv'
    BY <2>1, ComputeInv, RunInv
  <2>3. \/ UNCHANGED <<ledger, runs>>
        \/ \E k \in Keys, x \in Responses :
              /\ ledger[k] = None /\ ledger' = [ledger EXCEPT ![k] = x]
              /\ runs' = [runs EXCEPT ![k] = runs[k] + 1]
    BY <2>1, <1>5, ComputeInv
  <2> QED BY <1>2, <1>3, <2>1, <2>2, <2>3
<1> QED BY <1>4, <1>6, <1>7 DEF IngressNext

\* The invariant says that a command runs once.
LEMMA RunsOnceHolds == IngressInv => RunsOnce
<1> SUFFICES ASSUME IngressInv, NEW c \in Copies, NEW d \in Copies, Ran(c), Ran(d),
                    KeyOf[c[1]] = KeyOf[d[1]]
             PROVE  c = d
  BY DEF RunsOnce
<1>1. landed[c].by = c /\ landed[d].by = d /\ c # None /\ d # None
  BY NoneFacts DEF Ran
<1>2. ledger[CopyKey(c)] = landed[c] /\ ledger[CopyKey(d)] = landed[d]
  BY <1>1 DEF IngressInv, ResponseInv, Ran
<1> QED BY <1>1, <1>2 DEF CopyKey

=============================================================================
