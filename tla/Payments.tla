------------------------------ MODULE Payments ------------------------------
(***************************************************************************)
(* Orders and their payments (ao/write/process.lua): the payment commands, *)
(* the support commands on orders and refunds, and the webhooks by which   *)
(* the payment service provider reports what became of the money.          *)
(*                                                                         *)
(* The provider is an actor of its own.  A call may be done or refused,    *)
(* and its reply may be lost.  Everything it does it reports in a webhook; *)
(* webhooks arrive in any order, late or never, each event at most once    *)
(* (WebhookRetry models the replay cache that sees to it).  The live calls *)
(* modelled are those of ao/shared/stripe.lua.                             *)
(*                                                                         *)
(* An order has one payment, pay_<orderId>, and each payment intent made   *)
(* for it is an intent of the provider's, numbered in psp.  Amounts are    *)
(* whole units and every intent is for the order's total.  The circuit     *)
(* breaker only refuses commands, which changes nothing here.  Webhooks    *)
(* on an intent in progress (processing, requires_action) and the record   *)
(* of disputes are left out.  Shipments are left out but for the event     *)
(* that a carrier's webhook sends in the name of an order.                 *)
(***************************************************************************)
EXTENDS Naturals, Sequences, SequencesExt, FiniteSets, FiniteSetsExt

CONSTANTS Orders,      \* order ids
          HostedOnly,  \* WRITE_PSP_HOSTED_ONLY
          Total,       \* the total of an order
          None,        \* no value
          MaxIntents,  \* bound on the intents made for an order
          MaxCommands  \* bound on the commands in a behaviour

ASSUME PaymentAssumption ==
    /\ HostedOnly \in BOOLEAN
    /\ Total \in Nat \ {0}
    /\ MaxIntents \in Nat /\ MaxCommands \in Nat
    /\ None \notin Nat

VARIABLES db,       \* order -> its order, its payment and its events
          psp,      \* order -> the provider's intents for it
          sent,     \* webhooks the provider has sent
          applied,  \* webhooks that have been applied
          unnamed,  \* those of them that named no amount (history)
          commands, \* commands so far
          seen,     \* <<order, version, status>> a gateway may have read (history)
          unbacked  \* orders with a refund answered OK that was refused (history)

vars == <<db, psp, sent, applied, unnamed, commands, seen, unbacked>>

PaymentStatus == {"pending", "requires_capture", "captured", "voided", "failed",
                  "disputed", "partially_refunded", "refunded"}

OrderStatus == {"draft", "confirmed", "paid", "fulfilled", "returned",
                "partially_refunded", "refunded", "cancelled", "disputed",
                "payment_failed"}

\* Free text in the code: one of these is also the status of an order.
ShipmentStatus == {"shipped", "cancelled"}

Order == [status : OrderStatus, version : Nat \ {0}, refunded : 0..Total]
Payment == [provider : {"manual", "stripe"}, status : PaymentStatus,
            refunded : 0..Total,
            intent : 0..MaxIntents, \* providerPaymentId; 0 when it has none
            made : 0..MaxIntents]   \* the intent made for it, if any (history)
Event == [status : OrderStatus, version : Nat \ {0}]
ShipmentEvent == [status : ShipmentStatus, version : {None}]
Intent == [state : {"open", "captured", "canceled"}, refunded : 0..Total]

ASSUME NoneAssumption == None \notin Order \cup Payment

\* upto is what the refunds of the intent come to with this one; it tells them
\* apart.
Webhook == [order : Orders, intent : 1..MaxIntents,
            kind : {"succeeded", "failed", "canceled", "refunded", "disputed", "won"},
            amount : 0..Total, upto : 0..Total]

TypeOK ==
    /\ db \in [Orders -> [order : Order \cup {None},
                          payment : Payment \cup {None},
                          event : Event \cup ShipmentEvent \cup {None}, \* the last
                          latest : Event \cup {None}]] \* the last with a version
    /\ psp \in [Orders -> Seq(Intent)]
    /\ \A o \in Orders : Len(psp[o]) <= MaxIntents
    /\ sent \subseteq Webhook
    /\ applied \subseteq sent
    /\ unnamed \subseteq applied
    /\ commands \in 0..MaxCommands
    /\ seen \subseteq Orders \X (Nat \ {0}) \X OrderStatus
    /\ unbacked \subseteq Orders

Init ==
    /\ db = [o \in Orders |-> [order |-> None, payment |-> None,
                               event |-> None, latest |-> None]]
    /\ psp = [o \in Orders |-> <<>>]
    /\ sent = {} /\ applied = {} /\ unnamed = {} /\ commands = 0
    /\ seen = {} /\ unbacked = {}

-----------------------------------------------------------------------------
(* The order and the payment of one entry of db *)

Draft == [status |-> "draft", version |-> 1, refunded |-> 0]

\* allowed_order_transitions; an order that is disputed or whose payment
\* failed has no transition of its own.
Transitions(status) ==
    CASE status = "draft" -> {"confirmed", "cancelled"}
      [] status = "confirmed" -> {"paid", "cancelled"}
      [] status = "paid" -> {"fulfilled", "returned", "partially_refunded",
                             "refunded", "cancelled"}
      [] status = "fulfilled" -> {"returned", "partially_refunded", "refunded"}
      [] status = "returned" -> {"partially_refunded", "refunded"}
      [] status = "partially_refunded" -> {"refunded"}
      [] OTHER -> {}

\* Mutant: the version is not raised.
SetOrderStatusQuietly(d, status) ==
    LET event == [status |-> status, version |-> d.order.version] IN
    [d EXCEPT !.order.status = status, !.event = event, !.latest = event]

\* Mutant: the event carries the version the order had before.
SetOrderStatusLate(d, status) ==
    LET event == [status |-> status, version |-> d.order.version] IN
    [d EXCEPT !.order.status = status, !.order.version = @ + 1,
              !.event = event, !.latest = event]

\* The order takes a status, a new version, and reports both in an event.
SetOrderStatus(d, status) ==
    LET version == d.order.version + 1 IN
    [order |-> [status |-> status, version |-> version,
                refunded |-> d.order.refunded],
     payment |-> d.payment,
     event |-> [status |-> status, version |-> version],
     latest |-> [status |-> status, version |-> version]]

OrderStatusOf(status, current) ==
    CASE status = "captured" -> "paid"
      [] status = "voided" -> "cancelled"
      [] status = "failed" -> "payment_failed"
      [] status = "requires_capture" -> "confirmed"
      [] status = "pending" -> current
      [] OTHER -> status

\* set_payment_status: the order follows the payment, from whatever status.
SetPaymentStatus(d, status) ==
    LET paid == [d EXCEPT !.payment.status = status]
    IN  IF d.order = None THEN paid
        ELSE SetOrderStatus(paid, OrderStatusOf(status, d.order.status))

\* Mutant: the refund total is not capped.
ApplyRefundUncapped(d, amount) ==
    SetPaymentStatus([d EXCEPT !.payment.refunded = @ + amount],
                     IF d.payment.refunded + amount < Total
                       THEN "partially_refunded" ELSE "refunded")

\* Mutant: the provider's "refunded" is taken as it is and not counted.
ApplyRefundUncounted(d, amount) == SetPaymentStatus(d, "refunded")

\* Mutant: a refund of nothing is a partial refund.
ApplyRefundOfNothing(d, amount) ==
    LET refunded == Min({d.payment.refunded + amount, Total})
    IN  SetPaymentStatus([d EXCEPT !.payment.refunded = refunded],
            IF refunded < Total THEN "partially_refunded" ELSE "refunded")

\* apply_refund with the hint "refunded"
ApplyRefund(d, amount) ==
    LET refunded == Min({d.payment.refunded + amount, Total})
        counted ==
            [order |-> IF d.order = None THEN None ELSE
                         [d.order EXCEPT !.refunded =
                             IF refunded = Total THEN Total
                             ELSE Min({@ + amount, Total})],
             payment |-> [d.payment EXCEPT !.refunded = refunded],
             event |-> d.event, latest |-> d.latest]
    IN  SetPaymentStatus(counted,
            IF refunded > 0 /\ refunded < Total THEN "partially_refunded"
                                                ELSE "refunded")

-----------------------------------------------------------------------------
(* The provider *)

Hook(o, i, kind, amount, upto) ==
    [order |-> o, intent |-> i, kind |-> kind, amount |-> amount, upto |-> upto]

\* What the provider can do with an intent: the intent afterwards and the
\* webhook that reports it.
Does(o, i, op, amount) ==
    LET intent == psp[o][i] IN
    CASE op = "capture" /\ intent.state = "open" ->
            {<<[intent EXCEPT !.state = "captured"], Hook(o, i, "succeeded", 0, 0)>>}
      [] op = "cancel" /\ intent.state = "open" ->
            {<<[intent EXCEPT !.state = "canceled"], Hook(o, i, "canceled", 0, 0)>>}
      [] op = "refund" /\ intent.state = "captured" /\ amount > 0
                       /\ intent.refunded + amount <= Total ->
            {<<[intent EXCEPT !.refunded = @ + amount],
               Hook(o, i, "refunded", amount, intent.refunded + amount)>>}
      [] OTHER -> {}

ProviderDoes(o, i, op, amount) ==
    \E done \in Does(o, i, op, amount) :
        /\ psp' = [psp EXCEPT ![o][i] = done[1]]
        /\ sent' = sent \cup {done[2]}

ProviderDoesNot == UNCHANGED <<psp, sent>>

\* Refunds and cancellations made at the provider, payments that fail there,
\* disputes and their end.
ProviderActs(o, i) ==
    /\ \/ \E amount \in 1..Total : ProviderDoes(o, i, "refund", amount)
       \/ ProviderDoes(o, i, "cancel", 0)
       \/ /\ \/ /\ psp[o][i].state = "open"
                /\ sent' = sent \cup {Hook(o, i, "failed", 0, 0)}
             \/ /\ psp[o][i].state = "captured"
                /\ sent' = sent \cup {Hook(o, i, "disputed", 0, 0)}
             \/ /\ Hook(o, i, "disputed", 0, 0) \in sent
                /\ sent' = sent \cup {Hook(o, i, "won", 0, 0)}
          /\ sent' # sent
          /\ UNCHANGED psp
    /\ UNCHANGED <<db, applied, unnamed, commands, seen, unbacked>>

-----------------------------------------------------------------------------
(* Commands *)

Command == /\ commands < MaxCommands
           /\ commands' = commands + 1

\* breaker_allows: hosted-only mode refuses every provider but "manual", and
\* with it the short cuts the handlers have for that mode.
Allows(provider) == HostedOnly => provider = "manual"

\* The payment exists and its provider may be called.
Payable(o) == db[o].payment # None /\ Allows(db[o].payment.provider)

\* The handlers call the provider only when they know its id of the payment.
Live(o) == db[o].payment.provider = "stripe" /\ db[o].payment.intent # 0

Store(o, d) == db' = [db EXCEPT ![o] = d]

\* Gateways may read the orders as the step leaves them.
Read == seen' = seen \cup {<<o, db'[o].order.version, db'[o].order.status>> :
                             o \in {x \in Orders : db'[x].order # None}}

CreateOrder(o) ==
    /\ Command
    /\ db[o].order = None
    /\ Store(o, [db[o] EXCEPT !.order = Draft])
    /\ UNCHANGED <<psp, sent, applied, unnamed, unbacked>>
    /\ Read

\* An order that does not exist is made before anything is checked.
UpsertOrderStatus(o, target) ==
    LET d == IF db[o].order = None THEN [db[o] EXCEPT !.order = Draft] ELSE db[o]
    IN
    /\ Command
    /\ \/ Store(o, d) \* VERSION_CONFLICT, INVALID_STATE, or target is its status
       \/ /\ target \in Transitions(d.order.status)
          /\ Store(o, SetOrderStatus(d, target))
    /\ UNCHANGED <<psp, sent, applied, unnamed, unbacked>>
    /\ Read

\* The payment is replaced, whatever became of the one that was there (the
\* check for a payment that is already linked compares ids, and an order's
\* payment always has the same); the order is not looked at.  A reply that is
\* lost or refuses leaves the payment pending, without the provider's id.
CreatePaymentIntent(o, provider) ==
    LET Made(status, i, made) ==
            Store(o, [db[o] EXCEPT !.payment =
                         [provider |-> provider, status |-> status,
                          refunded |-> 0, intent |-> i, made |-> made]])
        new == Len(psp[o]) + 1
    IN
    /\ Command
    /\ Allows(provider)
    /\ \/ /\ provider = "manual"
          /\ Made("requires_capture", 0, 0)
          /\ UNCHANGED psp
       \/ /\ provider = "stripe"
          /\ Made("pending", 0, 0)
          /\ UNCHANGED psp
       \/ /\ provider = "stripe" /\ new <= MaxIntents
          /\ psp' = [psp EXCEPT ![o] = Append(@, [state |-> "open", refunded |-> 0])]
          /\ \/ \E status \in {"requires_capture", "pending"} : Made(status, new, new)
             \/ Made("pending", 0, new)
    /\ UNCHANGED <<sent, applied, unnamed, unbacked>>
    /\ Read

\* A call whose reply arrives counts as done, also when the reply is a
\* refusal; one whose reply does not arrive leaves the payment as it was.
Calling(o, op, amount, after) ==
    LET i == db[o].payment.intent IN
    /\ \/ /\ ~Live(o)
          /\ Store(o, after)
          /\ ProviderDoesNot /\ UNCHANGED unbacked
       \/ /\ Live(o)
          /\ ProviderDoes(o, i, op, amount)
          /\ Store(o, after) \/ UNCHANGED db
          /\ UNCHANGED unbacked
       \/ /\ Live(o)
          /\ ProviderDoesNot
          /\ \/ /\ Store(o, after)
                /\ unbacked' = IF op = "refund" THEN unbacked \cup {o} ELSE unbacked
             \/ UNCHANGED <<db, unbacked>>
    /\ UNCHANGED <<applied, unnamed>>
    /\ Read

CapturePayment(o) ==
    /\ Command
    /\ Payable(o)
    /\ db[o].payment.status \in {"requires_capture", "pending"}
    /\ Calling(o, "capture", 0, SetPaymentStatus(db[o], "captured"))

\* Only the payment: the order keeps its status.
VoidPayment(o) ==
    /\ Command
    /\ Payable(o)
    /\ Calling(o, "cancel", 0, [db[o] EXCEPT !.payment.status = "voided"])

RefundPayment(o, amount) ==
    /\ Command
    /\ Payable(o)
    /\ Live(o) \/ db[o].payment.provider = "manual"
    /\ Calling(o, "refund", amount, ApplyRefund(db[o], amount))

\* Refunds at the provider and leaves the record to the webhook.
IssueRefund(o, amount) ==
    /\ Command
    /\ Payable(o)
    /\ Live(o)
    /\ ProviderDoes(o, db[o].payment.intent, "refund", amount)
    /\ UNCHANGED <<db, applied, unnamed, unbacked>>
    /\ Read

\* What ConfirmPayment can leave: nothing changed (no reply), or the status
\* set again, to requires_capture if the provider wants something done.
Confirmed(o, d) ==
    IF ~(d.payment.provider = "stripe" /\ d.payment.intent # 0)
      THEN {SetPaymentStatus(d, d.payment.status)}
      ELSE {d, SetPaymentStatus(d, d.payment.status)}
             \cup (IF psp[o][d.payment.intent].state = "open"
                     THEN {SetPaymentStatus(d, "requires_capture")} ELSE {})

ConfirmPayment(o) ==
    /\ Command
    /\ Payable(o)
    /\ \E d \in Confirmed(o, db[o]) : Store(o, d)
    /\ UNCHANGED <<psp, sent, applied, unnamed, unbacked>>
    /\ Read

\* The status the provider gives for an intent, in this process's terms; an
\* open intent may wait for the customer, be processed or be authorised.
LiveStatuses(o, i) ==
    CASE psp[o][i].state = "open" -> {"requires_capture", "pending"}
      [] psp[o][i].state = "captured" -> {"captured"}
      [] psp[o][i].state = "canceled" -> {"voided"}

\* The customer's return says what became of a payment and may name the
\* intent made for it; the provider, if it answers, has the last word.  A return that
\* names no provider makes the payment pending.
PaymentReturn(o) ==
    /\ Command
    /\ Payable(o)
    /\ \/ Store(o, SetPaymentStatus(db[o], "pending"))
       \/ \E says \in {"pending", "requires_capture", "captured", "voided", "failed"},
             i \in IF db[o].payment.intent # 0 THEN {db[o].payment.intent}
                                              ELSE {0, db[o].payment.made} :
             LET named == [db[o] EXCEPT !.payment.intent = i] IN
             \E d \in IF says = "requires_capture" THEN Confirmed(o, named)
                                                   ELSE {named} :
             \E status \in (IF says = "requires_capture" THEN {d.payment.status}
                                                         ELSE {says})
                           \cup (IF i # 0 THEN LiveStatuses(o, i) ELSE {}) :
                Store(o, SetPaymentStatus(d, status))
    /\ UNCHANGED <<psp, sent, applied, unnamed, unbacked>>
    /\ Read

RefreshPaymentStatus(o) ==
    /\ Command
    /\ Payable(o)
    /\ Live(o)
    /\ \E status \in LiveStatuses(o, db[o].payment.intent) \ {db[o].payment.status} :
          Store(o, SetPaymentStatus(db[o], status))
    /\ UNCHANGED <<psp, sent, applied, unnamed, unbacked>>
    /\ Read

-----------------------------------------------------------------------------
(* Webhooks *)

PaymentStatusOf(kind) ==
    CASE kind \in {"succeeded", "won"} -> "captured"
      [] kind = "failed" -> "failed"
      [] kind = "canceled" -> "voided"
      [] kind = "disputed" -> "disputed"

\* handle_psp_webhook, verified and not seen before.  The payment is found by
\* its order, whichever intent the event is about; what it is now and what
\* the order is now are not looked at.  A refund that names no amount sets the
\* status and counts nothing, like a refund of 0.
ProviderWebhook(h) ==
    /\ h \notin applied
    /\ db[h.order].payment # None
    /\ \/ /\ h.kind = "refunded"
          /\ \/ /\ Store(h.order, ApplyRefund(db[h.order], h.amount))
                /\ UNCHANGED unnamed
             \/ /\ Store(h.order, ApplyRefund(db[h.order], 0))
                /\ unnamed' = unnamed \cup {h}
       \/ /\ h.kind # "refunded"
          /\ Store(h.order, SetPaymentStatus(db[h.order], PaymentStatusOf(h.kind)))
          /\ UNCHANGED unnamed
    /\ applied' = applied \cup {h}
    /\ UNCHANGED <<psp, sent, commands, unbacked>>
    /\ Read

\* A carrier's webhook reports the shipment's status as the order's, without a
\* version, and leaves the order, which need not exist, alone.
ProviderShippingWebhook(o, status) ==
    /\ Store(o, [db[o] EXCEPT !.event = [status |-> status, version |-> None]])
    /\ UNCHANGED <<psp, sent, applied, unnamed, commands, unbacked>>
    /\ Read

Next ==
    \/ \E o \in Orders :
          \/ CreateOrder(o)
          \/ \E target \in OrderStatus : UpsertOrderStatus(o, target)
          \/ \E provider \in {"manual", "stripe"} : CreatePaymentIntent(o, provider)
          \/ CapturePayment(o)
          \/ VoidPayment(o)
          \/ \E amount \in 0..Total : RefundPayment(o, amount) \/ IssueRefund(o, amount)
          \/ ConfirmPayment(o)
          \/ PaymentReturn(o)
          \/ RefreshPaymentStatus(o)
          \/ \E i \in DOMAIN psp[o] : ProviderActs(o, i)
          \/ \E status \in ShipmentStatus : ProviderShippingWebhook(o, status)
    \/ \E h \in sent : ProviderWebhook(h)

Spec == Init /\ [][Next]_vars

-----------------------------------------------------------------------------
(* Properties *)

\* An expectedVersion protects what its sender saw: whatever commands and
\* webhooks changed an order in between, two reads of it under one version
\* have seen one status.
VersionIdentifiesStatus ==
    \A r1, r2 \in seen : (r1[1] = r2[1] /\ r1[2] = r2[2]) => r1[3] = r2[3]

\* The last OrderStatusUpdated event with a version carries the status and the
\* version the order has here, so that a reader of the events that keeps the
\* highest version agrees with this process; an event it passes over for
\* having no version is a shipment's and not this order's.
LastEventIsOrder ==
    \A o \in Orders :
        LET d == db[o] IN
        (d.order # None /\ d.order.version > 1) =>
            /\ d.latest = [status |-> d.order.status, version |-> d.order.version]
            /\ d.event \in {d.latest} \cup ShipmentEvent

Uncounted(o, i) ==
    {h \in (sent \ applied) \cup unnamed :
        h.order = o /\ h.intent = i /\ h.kind = "refunded"}

\* The units of money whose refund these webhooks report: each reports the last
\* ones of the sum it comes to, so that no unit is counted twice.
Units(hooks) == UNION {(h.upto - h.amount + 1)..h.upto : h \in hooks}

\* No refund the provider has told the amount of is forgotten: what it has
\* refunded on the intent made for a payment is in the payment's
\* refundedAmount, in webhooks that have not been applied yet, or in webhooks
\* that named no amount; also when a reply was lost and also when the
\* provider's id never became known.
RefundCovered ==
    \A o \in Orders :
        LET p == db[o].payment IN
        (p # None /\ p.made # 0) =>
            p.refunded + Cardinality(Units(Uncounted(o, p.made)))
                >= psp[o][p.made].refunded

\* A payment is partially refunded exactly while some of it is refunded and
\* some is not; a payment event in between may hide it but not fake it.
PartialIsPartial ==
    \A o \in Orders :
        LET p == db[o].payment IN
        (p # None /\ p.status = "partially_refunded") =>
            p.refunded \in 1..(Total - 1)

-----------------------------------------------------------------------------
(* A statement of the tests the code does not keep *)

\* scripts/verify/webhook_psp_spec.lua: a payment's refundedAmount tracks its
\* partial refunds; it does not go beyond what the provider has refunded,
\* unless a refusal was taken for a refund.
RefundTracksProvider ==
    \A o \in Orders \ unbacked :
        LET p == db[o].payment IN
        (p # None /\ p.made # 0) => p.refunded <= psp[o][p.made].refunded

=============================================================================
