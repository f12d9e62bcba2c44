-------------------------- MODULE Payments_proofs --------------------------
(***************************************************************************)
(* Proofs about Payments for any orders, totals and bounds.                *)
(*                                                                         *)
(* Each step replaces the entry of at most one order.  What the new entry  *)
(* may be is said once (Evolves), and shown for the operators the handlers *)
(* are built from; that such an entry keeps the invariant is shown once    *)
(* too (EntryStored).                                                      *)
(***************************************************************************)
EXTENDS Payments, FiniteSetTheorems, TLAPS

-----------------------------------------------------------------------------
(* The inductive invariant *)

Entry == [order : Order \cup {None}, payment : Payment \cup {None},
          event : Event \cup ShipmentEvent \cup {None},
          latest : Event \cup {None}]

\* A payment names only intents the provider has made, of which there are n.
Linked(d, n) == d.payment # None => /\ d.payment.intent \in 0..n
                                    /\ d.payment.made \in 0..n

Partial(d) == (d.payment # None /\ d.payment.status = "partially_refunded") =>
                  d.payment.refunded \in 1..(Total - 1)

\* What has been read of an order is the past of what it is now.
SeenIsPast ==
    \A r \in seen :
        LET order == db[r[1]].order IN
        /\ order # None
        /\ r[2] <= order.version
        /\ r[2] = order.version => r[3] = order.status

Inv == /\ TypeOK
       /\ \A o \in Orders : Linked(db[o], Len(psp[o])) /\ Partial(db[o])
       /\ SeenIsPast
       /\ LastEventIsOrder
       /\ VersionIdentifiesStatus

\* An order stays as it is, is made, or takes a new version and reports it.
Kept(d, e) ==
    /\ e.event \in {d.event} \cup ShipmentEvent
    /\ e.latest = d.latest
    /\ d.order = None => e.order = None
    /\ d.order # None => /\ e.order # None
                         /\ e.order.version = d.order.version
                         /\ e.order.status = d.order.status

Made(d, e) == d.order = None /\ e.order = Draft

Moved(d, e) ==
    /\ e.order # None
    /\ d.order # None => e.order.version > d.order.version
    /\ e.latest = [status |-> e.order.status, version |-> e.order.version]
    /\ e.event \in {e.latest} \cup ShipmentEvent

Follows(d, e) == Kept(d, e) \/ Moved(d, e)

Evolves(d, e) == Follows(d, e) \/ Made(d, e)

\* The payment stays the one it was, with no less refunded.
Pays(d, e) ==
    e.payment # None => /\ d.payment # None
                        /\ e.payment.made = d.payment.made
                        /\ e.payment.refunded >= d.payment.refunded

\* What an operation on a payment may leave.
Updates(d, e, n) == /\ e \in Entry /\ e.payment # None
                    /\ Linked(e, n) /\ Partial(e)
                    /\ Follows(d, e) /\ Pays(d, e)

-----------------------------------------------------------------------------
(* Facts about the operators the handlers are built from *)

LEMMA MinOfTwo ==
    ASSUME NEW a \in Nat, NEW b \in Nat
    PROVE  /\ Min({a, b}) \in Nat
           /\ Min({a, b}) <= a /\ Min({a, b}) <= b
           /\ Min({a, b}) \in {a, b}
<1> DEFINE m == IF a <= b THEN a ELSE b
<1>1. m \in {a, b} /\ \A y \in {a, b} : m <= y
  OBVIOUS
<1>2. Min({a, b}) \in {a, b} /\ \A y \in {a, b} : Min({a, b}) <= y
  BY <1>1 DEF Min
<1> QED BY <1>2

LEMMA OrderStatusSet ==
    ASSUME NEW d \in Entry, d.order # None, NEW s \in OrderStatus
    PROVE  /\ SetOrderStatus(d, s) \in Entry
           /\ SetOrderStatus(d, s).payment = d.payment
           /\ Moved(d, SetOrderStatus(d, s))
<1> DEFINE e == SetOrderStatus(d, s)
           old == d.order
           order == [status |-> s, version |-> old.version + 1,
                     refunded |-> old.refunded]
<1>1. /\ old \in Order
      /\ d = [order |-> old, payment |-> d.payment, event |-> d.event,
              latest |-> d.latest]
  BY DEF Entry
<1>2. /\ order \in Order /\ order.status = s
      /\ order.version = d.order.version + 1
  BY <1>1 DEF Order
<1>3. order # None
  BY <1>2, NoneAssumption
<1>4. e = [order |-> order, payment |-> d.payment,
           event |-> [status |-> s, version |-> d.order.version + 1],
           latest |-> [status |-> s, version |-> d.order.version + 1]]
  BY DEF SetOrderStatus
<1>5. [status |-> s, version |-> d.order.version + 1] \in Event
  BY <1>1 DEF Order, Event
<1> HIDE DEF order
<1>6. e \in Entry
  BY <1>2, <1>4, <1>5 DEF Entry
<1> HIDE DEF e
<1>7. e.payment = d.payment /\ Moved(d, e)
  <2>1. d.order.version \in Nat
    BY <1>1 DEF Order
  <2>2. /\ e.order = order /\ e.payment = d.payment
        /\ e.event = [status |-> s, version |-> d.order.version + 1]
        /\ e.latest = [status |-> s, version |-> d.order.version + 1]
    BY <1>4
  <2>3. order.version > d.order.version
    BY <1>2, <2>1
  <2> QED BY <1>2, <1>3, <2>2, <2>3 DEF Moved
<1> QED BY <1>6, <1>7 DEF e

LEMMA OrderFollows ==
    ASSUME NEW s \in PaymentStatus, NEW c \in OrderStatus
    PROVE  OrderStatusOf(s, c) \in OrderStatus
BY DEF OrderStatusOf, PaymentStatus, OrderStatus

LEMMA PaymentStatusSet ==
    ASSUME NEW d \in Entry, d.payment # None, NEW s \in PaymentStatus
    PROVE  /\ SetPaymentStatus(d, s) \in Entry
           /\ SetPaymentStatus(d, s).payment # None
           /\ SetPaymentStatus(d, s).payment = [d.payment EXCEPT !.status = s]
           /\ Follows(d, SetPaymentStatus(d, s))
<1> DEFINE paid == [d EXCEPT !.payment.status = s]
           payment == [d.payment EXCEPT !.status = s]
<1>1. d.payment \in Payment
  BY DEF Entry
<1>2. payment \in Payment /\ payment # None
  BY <1>1, NoneAssumption DEF Payment
<1>3. paid = [order |-> d.order, payment |-> payment, event |-> d.event,
             latest |-> d.latest]
  BY <1>1 DEF Entry
<1> HIDE DEF payment
<1>4. /\ paid \in Entry /\ paid.payment = payment
      /\ paid.order = d.order /\ paid.event = d.event /\ paid.latest = d.latest
  BY <1>2, <1>3 DEF Entry
<1> HIDE DEF paid
<1>5. CASE d.order = None
  <2>1. SetPaymentStatus(d, s) = paid
    BY <1>5 DEF SetPaymentStatus, paid
  <2> QED BY <1>2, <1>4, <1>5, <2>1 DEF Follows, Kept, payment
<1>6. CASE d.order # None
  <2> DEFINE to == OrderStatusOf(s, d.order.status)
  <2>1. to \in OrderStatus
    BY <1>6, OrderFollows DEF Entry, Order
  <2>2. SetPaymentStatus(d, s) = SetOrderStatus(paid, to)
    BY <1>6 DEF SetPaymentStatus, paid
  <2> HIDE DEF to
  <2>3. /\ SetOrderStatus(paid, to) \in Entry
        /\ SetOrderStatus(paid, to).payment = payment
        /\ Moved(paid, SetOrderStatus(paid, to))
    BY <1>4, <1>6, <2>1, OrderStatusSet
  <2> QED BY <1>2, <1>4, <2>2, <2>3 DEF Follows, Moved, payment
<1> QED BY <1>5, <1>6

LEMMA FollowsChain ==
    ASSUME NEW d \in Entry, NEW e \in Entry, NEW f \in Entry,
           Follows(d, e), Follows(e, f)
    PROVE  Follows(d, f)
<1> DEFINE versions == /\ d.order # None => d.order.version \in Nat
                       /\ e.order # None => e.order.version \in Nat
                       /\ f.order # None => f.order.version \in Nat
<1>1. versions
  BY DEF Entry, Order
<1>2. CASE Kept(d, e) /\ Kept(e, f)
  BY <1>2 DEF Follows, Kept
<1>3. CASE Kept(d, e) /\ Moved(e, f)
  <2>1. d.order # None => f.order.version > d.order.version
    BY <1>3 DEF Kept, Moved
  <2> QED BY <1>3, <2>1 DEF Follows, Moved
<1>4. CASE Moved(d, e) /\ Kept(e, f)
  BY <1>4 DEF Follows, Kept, Moved
<1>5. CASE Moved(d, e) /\ Moved(e, f)
  <2>1. d.order # None => f.order.version > d.order.version
    BY <1>1, <1>5 DEF Moved
  <2> QED BY <1>5, <2>1 DEF Follows, Moved
<1> QED BY <1>2, <1>3, <1>4, <1>5 DEF Follows

LEMMA StatusUpdates ==
    ASSUME NEW d \in Entry, d.payment # None, NEW n \in Nat, Linked(d, n),
           NEW s \in PaymentStatus,
           s = "partially_refunded" => s = d.payment.status /\ Partial(d)
    PROVE  Updates(d, SetPaymentStatus(d, s), n)
<1> DEFINE e == SetPaymentStatus(d, s)
<1>1. /\ e \in Entry /\ e.payment # None /\ Follows(d, e)
      /\ e.payment = [d.payment EXCEPT !.status = s]
  BY PaymentStatusSet
<1>2. d.payment \in Payment
  BY DEF Entry
<1> HIDE DEF e
<1>3. /\ e.payment.status = s
      /\ e.payment.refunded = d.payment.refunded
      /\ e.payment.intent = d.payment.intent /\ e.payment.made = d.payment.made
  BY <1>1, <1>2 DEF Payment
<1>4. Linked(e, n) /\ Partial(e)
  BY <1>3 DEF Linked, Partial
<1>5. Pays(d, e)
  BY <1>2, <1>3 DEF Pays, Payment
<1> QED BY <1>1, <1>4, <1>5 DEF Updates, e

LEMMA RefundUpdates ==
    ASSUME NEW d \in Entry, d.payment # None, NEW n \in Nat, Linked(d, n),
           NEW amount \in Nat
    PROVE  /\ Updates(d, ApplyRefund(d, amount), n)
           /\ ApplyRefund(d, amount).payment.refunded
                 = Min({d.payment.refunded + amount, Total})
<1> DEFINE refunded == Min({d.payment.refunded + amount, Total})
           most == IF refunded = Total THEN Total
                   ELSE Min({d.order.refunded + amount, Total})
           order == IF d.order = None THEN None
                    ELSE [d.order EXCEPT !.refunded = most]
           payment == [d.payment EXCEPT !.refunded = refunded]
           counted == [order |-> order, payment |-> payment, event |-> d.event,
                       latest |-> d.latest]
           s == IF refunded > 0 /\ refunded < Total THEN "partially_refunded"
                                                     ELSE "refunded"
<1>1. /\ d.payment \in Payment /\ d.payment.refunded \in 0..Total /\ Total \in Nat
      /\ d.order # None => d.order \in Order /\ d.order.refunded \in Nat
  BY PaymentAssumption DEF Entry, Payment, Order
<1>2. refunded \in 0..Total /\ refunded >= d.payment.refunded
  BY <1>1, MinOfTwo
<1>3. d.order # None => most \in 0..Total
  BY <1>1, MinOfTwo
<1>4. ApplyRefund(d, amount) = SetPaymentStatus(counted, s)
  BY DEF ApplyRefund
<1> HIDE DEF refunded, most
<1>5. /\ payment \in Payment /\ payment # None
      /\ payment.refunded = refunded
      /\ payment.intent = d.payment.intent /\ payment.made = d.payment.made
  BY <1>1, <1>2, NoneAssumption DEF Payment
<1>6. /\ order \in Order \cup {None}
      /\ d.order = None => order = None
      /\ d.order # None => /\ order # None
                           /\ order.version = d.order.version
                           /\ order.status = d.order.status
  BY <1>1, <1>3, NoneAssumption DEF Order
<1> HIDE DEF order, payment
<1>7. counted \in Entry /\ Kept(d, counted)
  BY <1>5, <1>6 DEF Entry, Kept
<1>8. counted.payment = payment
  OBVIOUS
<1> HIDE DEF counted
<1>9. s \in PaymentStatus
  BY DEF PaymentStatus
<1> DEFINE e == SetPaymentStatus(counted, s)
<1>10. /\ e \in Entry /\ e.payment # None /\ Follows(counted, e)
       /\ e.payment = [payment EXCEPT !.status = s]
  BY <1>5, <1>7, <1>8, <1>9, PaymentStatusSet
<1> HIDE DEF e
<1>11. /\ e.payment.status = s /\ e.payment.refunded = refunded
       /\ e.payment.intent = d.payment.intent
       /\ e.payment.made = d.payment.made
  BY <1>5, <1>10 DEF Payment
<1>12. Linked(e, n) /\ Partial(e)
  BY <1>1, <1>2, <1>11 DEF Linked, Partial
<1>13. Follows(d, e)
  BY <1>7, <1>10, FollowsChain DEF Follows
<1>14. Pays(d, e)
  BY <1>2, <1>11 DEF Pays
<1>15. Updates(d, e, n) /\ e.payment.refunded = refunded
  BY <1>10, <1>11, <1>12, <1>13, <1>14 DEF Updates
<1> QED BY <1>4, <1>15 DEF e, refunded

LEMMA UpdatesNothing ==
    ASSUME NEW d \in Entry, d.payment # None, NEW n \in Nat, Linked(d, n), Partial(d)
    PROVE  Updates(d, d, n)
<1>1. d.payment.refunded \in Nat
  BY DEF Entry, Payment
<1> QED BY <1>1 DEF Updates, Follows, Kept, Pays

LEMMA ConfirmedUpdates ==
    ASSUME NEW d \in Entry, d.payment # None, NEW n \in Nat, Linked(d, n),
           Partial(d), NEW o, NEW e \in Confirmed(o, d)
    PROVE  Updates(d, e, n)
<1>1. d.payment.status \in PaymentStatus
  BY DEF Entry, Payment
<1>2. Updates(d, SetPaymentStatus(d, d.payment.status), n)
  BY <1>1, StatusUpdates
<1>3. Updates(d, SetPaymentStatus(d, "requires_capture"), n)
  BY StatusUpdates DEF PaymentStatus
<1>4. Updates(d, d, n)
  BY UpdatesNothing
<1> QED BY <1>2, <1>3, <1>4 DEF Confirmed

LEMMA UpdatesChain ==
    ASSUME NEW d \in Entry, NEW e, NEW f, NEW n,
           Updates(d, e, n), Updates(e, f, n)
    PROVE  Updates(d, f, n)
<1>1. /\ d.payment # None => d.payment.refunded \in Nat
      /\ e.payment # None => e.payment.refunded \in Nat
      /\ f.payment # None => f.payment.refunded \in Nat
  BY DEF Updates, Entry, Payment
<1>2. Pays(d, f)
  BY <1>1 DEF Updates, Pays
<1> QED BY <1>2, FollowsChain DEF Updates

-----------------------------------------------------------------------------
(* The steps *)

\* The part of the invariant that is about orders and what was read of them.
OrdersInv == /\ db \in [Orders -> Entry]
             /\ seen \subseteq Orders \X (Nat \ {0}) \X OrderStatus
             /\ \A o \in Orders : Linked(db[o], Len(psp[o])) /\ Partial(db[o])
             /\ SeenIsPast
             /\ LastEventIsOrder
             /\ VersionIdentifiesStatus

\* And the part that is about the provider, the webhooks and the counters.
ProviderInv == /\ psp \in [Orders -> Seq(Intent)]
               /\ \A o \in Orders : Len(psp[o]) <= MaxIntents
               /\ sent \subseteq Webhook
               /\ applied \subseteq sent /\ unnamed \subseteq applied
               /\ commands \in 0..MaxCommands
               /\ unbacked \subseteq Orders

LEMMA InvAfter == OrdersInv' /\ ProviderInv' => Inv'
BY DEF Inv, TypeOK, OrdersInv, ProviderInv, Entry

\* The provider makes intents and takes none back.
PspGrows == /\ psp' \in [Orders -> Seq(Intent)]
            /\ \A o \in Orders : Len(psp'[o]) \in Len(psp[o])..MaxIntents

LEMMA StillLinked ==
    ASSUME Inv, NEW o \in Orders, PspGrows
    PROVE  /\ Len(psp'[o]) \in Nat
           /\ \A d \in Entry : Linked(d, Len(psp[o])) => Linked(d, Len(psp'[o]))
<1>1. /\ Len(psp[o]) \in Nat /\ Len(psp'[o]) \in Nat
      /\ Len(psp[o]) <= Len(psp'[o])
  BY PaymentAssumption DEF PspGrows, Inv, TypeOK
<1>2. ASSUME NEW d \in Entry, Linked(d, Len(psp[o])), d.payment # None
      PROVE  /\ d.payment.intent \in 0..Len(psp'[o])
             /\ d.payment.made \in 0..Len(psp'[o])
  BY <1>1, <1>2 DEF Linked
<1> QED BY <1>1, <1>2 DEF Linked

\* Reading the orders is safe: what was read before is the past of what they
\* are, or is what they are.
LEMMA ReadKeeps ==
    ASSUME Inv, db' \in [Orders -> Entry], Read,
           \A o \in Orders : Evolves(db[o], db'[o])
    PROVE  /\ seen' \subseteq Orders \X (Nat \ {0}) \X OrderStatus
           /\ SeenIsPast'
           /\ VersionIdentifiesStatus'
<1> DEFINE now == {<<o, db'[o].order.version, db'[o].order.status>> :
                      o \in {x \in Orders : db'[x].order # None}}
<1>1. seen' = seen \cup now
  BY DEF Read
<1>2. ASSUME NEW o \in Orders, db'[o].order # None
      PROVE  db'[o].order.version \in Nat \ {0} /\ db'[o].order.status \in OrderStatus
  BY <1>2 DEF Entry, Order
<1>3. seen' \subseteq Orders \X (Nat \ {0}) \X OrderStatus
  BY <1>1, <1>2 DEF Inv, TypeOK
<1>4. ASSUME NEW r \in seen
      PROVE  /\ r[1] \in Orders /\ db'[r[1]].order # None
             /\ r[2] <= db'[r[1]].order.version
             /\ r[2] = db'[r[1]].order.version => r[3] = db'[r[1]].order.status
  <2> DEFINE d == db[r[1]]
             e == db'[r[1]]
  <2>1. /\ r[1] \in Orders /\ r[2] \in Nat
        /\ d.order # None /\ r[2] <= d.order.version
        /\ r[2] = d.order.version => r[3] = d.order.status
    BY DEF Inv, TypeOK, SeenIsPast
  <2>2. d \in Entry /\ e \in Entry /\ Follows(d, e)
    BY <2>1 DEF Evolves, Made, Inv, TypeOK, Entry
  <2> HIDE DEF d, e
  <2>3. d.order.version \in Nat /\ (e.order # None => e.order.version \in Nat)
    BY <2>1, <2>2 DEF Entry, Order
  <2>4. /\ e.order # None
        /\ \/ e.order.version = d.order.version /\ e.order.status = d.order.status
           \/ e.order.version > d.order.version
    BY <2>1, <2>2 DEF Follows, Kept, Moved
  <2>5. r[2] <= e.order.version /\ (r[2] = e.order.version => r[3] = e.order.status)
    BY <2>1, <2>3, <2>4
  <2> QED BY <2>1, <2>4, <2>5 DEF e
<1>5. ASSUME NEW r \in now
      PROVE  /\ r[1] \in Orders /\ db'[r[1]].order # None
             /\ r[2] <= db'[r[1]].order.version
             /\ r[3] = db'[r[1]].order.status
             /\ r[2] = db'[r[1]].order.version
  BY <1>2
<1> HIDE DEF now
<1>6. SeenIsPast'
  BY <1>1, <1>4, <1>5 DEF SeenIsPast
<1>7. ASSUME NEW r1 \in seen', NEW r2 \in seen', r1[1] = r2[1], r1[2] = r2[2]
      PROVE  r1[3] = r2[3]
  <2>1. CASE r1 \in seen /\ r2 \in seen
    BY <1>7, <2>1 DEF Inv, VersionIdentifiesStatus
  <2>2. CASE r1 \in now \/ r2 \in now
    BY <1>1, <1>4, <1>5, <1>7, <2>2
  <2> QED BY <1>1, <2>1, <2>2
<1> QED BY <1>3, <1>6, <1>7 DEF VersionIdentifiesStatus

\* A step that gives one order an entry that follows from the one it had.
LEMMA EntryStored ==
    ASSUME Inv, NEW o \in Orders, NEW e \in Entry,
           Evolves(db[o], e), Linked(e, Len(psp'[o])), Partial(e),
           Store(o, e), Read, PspGrows
    PROVE  OrdersInv'
<1>1. /\ db \in [Orders -> Entry] /\ db' = [db EXCEPT ![o] = e]
      /\ db'[o] = e /\ \A x \in Orders \ {o} : db'[x] = db[x]
      /\ db' \in [Orders -> Entry]
  BY DEF Inv, TypeOK, Entry, Store
<1>2. \A x \in Orders : Evolves(db[x], db'[x])
  BY <1>1 DEF Evolves, Follows, Kept
<1>3. /\ seen' \subseteq Orders \X (Nat \ {0}) \X OrderStatus
      /\ SeenIsPast' /\ VersionIdentifiesStatus'
  BY <1>1, <1>2, ReadKeeps
<1>4. \A x \in Orders : Linked(db'[x], Len(psp'[x])) /\ Partial(db'[x])
  BY <1>1, StillLinked DEF Inv
<1>5. ASSUME NEW x \in Orders, db'[x].order # None, db'[x].order.version > 1
      PROVE  /\ db'[x].latest = [status |-> db'[x].order.status,
                                 version |-> db'[x].order.version]
             /\ db'[x].event \in {db'[x].latest} \cup ShipmentEvent
  <2>1. CASE Kept(db[x], db'[x])
    BY <1>5, <2>1 DEF Kept, Inv, LastEventIsOrder
  <2>2. CASE Made(db[x], db'[x])
    BY <1>5, <2>2 DEF Made, Draft
  <2>3. CASE Moved(db[x], db'[x])
    BY <2>3 DEF Moved
  <2> QED BY <1>2, <2>1, <2>2, <2>3 DEF Evolves, Follows
<1>6. LastEventIsOrder'
  BY <1>5 DEF LastEventIsOrder
<1> QED BY <1>1, <1>3, <1>4, <1>6 DEF OrdersInv

\* A step that only reads.
LEMMA NothingStored ==
    ASSUME Inv, UNCHANGED db, Read, PspGrows
    PROVE  OrdersInv'
<1>1. db \in [Orders -> Entry]
  BY DEF Inv, TypeOK, Entry
<1>2. \A x \in Orders : Evolves(db[x], db'[x])
  BY DEF Evolves, Follows, Kept
<1>3. /\ seen' \subseteq Orders \X (Nat \ {0}) \X OrderStatus
      /\ SeenIsPast' /\ VersionIdentifiesStatus'
  BY <1>1, <1>2, ReadKeeps
<1>4. \A x \in Orders : Linked(db'[x], Len(psp'[x])) /\ Partial(db'[x])
  BY <1>1, StillLinked DEF Inv
<1>5. LastEventIsOrder'
  BY DEF LastEventIsOrder, Inv
<1> QED BY <1>1, <1>3, <1>4, <1>5 DEF OrdersInv

\* And one that leaves the orders to themselves.
LEMMA OrdersLeft ==
    ASSUME Inv, UNCHANGED <<db, seen>>, PspGrows
    PROVE  OrdersInv'
<1>1. \A x \in Orders : Linked(db[x], Len(psp'[x]))
  BY StillLinked DEF Inv, TypeOK, Entry
<1> QED BY <1>1 DEF Inv, TypeOK, OrdersInv, Entry, SeenIsPast, LastEventIsOrder,
                    VersionIdentifiesStatus, Partial

LEMMA PaymentStored ==
    ASSUME Inv, NEW o \in Orders, NEW e, Updates(db[o], e, Len(psp[o])),
           Store(o, e), Read, PspGrows
    PROVE  OrdersInv'
<1>1. e \in Entry /\ Linked(e, Len(psp'[o])) /\ Partial(e) /\ Evolves(db[o], e)
  BY StillLinked DEF Updates, Evolves
<1> QED BY <1>1, EntryStored

LEMMA SamePsp == Inv /\ UNCHANGED psp => PspGrows
<1> SUFFICES ASSUME Inv, UNCHANGED psp PROVE PspGrows
  OBVIOUS
<1>1. \A o \in Orders : Len(psp[o]) \in Nat /\ Len(psp[o]) <= MaxIntents
  BY DEF Inv, TypeOK
<1> QED BY <1>1, PaymentAssumption DEF PspGrows, Inv, TypeOK

\* What the provider does is a webhook and a change to one intent.
LEMMA ProviderKeeps ==
    ASSUME Inv, NEW o \in Orders, NEW i \in DOMAIN psp[o], NEW op,
           NEW amount \in Nat, ProviderDoes(o, i, op, amount)
    PROVE  PspGrows /\ sent \subseteq sent' /\ sent' \subseteq Webhook
<1> DEFINE intent == psp[o][i]
<1>1. /\ intent \in Intent /\ psp[o] \in Seq(Intent) /\ Total \in Nat
      /\ i \in 1..Len(psp[o]) /\ i \in 1..MaxIntents
  BY PaymentAssumption DEF Inv, TypeOK
<1>2. PICK done \in Does(o, i, op, amount) :
         psp' = [psp EXCEPT ![o][i] = done[1]] /\ sent' = sent \cup {done[2]}
  BY DEF ProviderDoes
<1>3. done[1] \in Intent /\ done[2] \in Webhook
  <2>1. CASE op = "capture" /\ intent.state = "open"
    <3>1. done = <<[intent EXCEPT !.state = "captured"],
                   Hook(o, i, "succeeded", 0, 0)>>
      BY <1>2, <2>1 DEF Does
    <3>2. [intent EXCEPT !.state = "captured"] \in Intent
      BY <1>1 DEF Intent
    <3> QED BY <1>1, <3>1, <3>2 DEF Hook, Webhook
  <2>2. CASE op = "cancel" /\ intent.state = "open"
    <3>1. done = <<[intent EXCEPT !.state = "canceled"],
                   Hook(o, i, "canceled", 0, 0)>>
      BY <1>2, <2>2 DEF Does
    <3>2. [intent EXCEPT !.state = "canceled"] \in Intent
      BY <1>1 DEF Intent
    <3> QED BY <1>1, <3>1, <3>2 DEF Hook, Webhook
  <2>3. CASE /\ op = "refund" /\ intent.state = "captured" /\ amount > 0
             /\ intent.refunded + amount <= Total
    <3>1. done = <<[intent EXCEPT !.refunded = @ + amount],
                   Hook(o, i, "refunded", amount, intent.refunded + amount)>>
      BY <1>2, <2>3 DEF Does
    <3>2. intent.refunded \in Nat
      BY <1>1 DEF Intent
    <3>3. amount \in 0..Total /\ intent.refunded + amount \in 0..Total
      BY <1>1, <2>3, <3>2
    <3>4. [intent EXCEPT !.refunded = @ + amount] \in Intent
      BY <1>1, <3>3 DEF Intent
    <3> HIDE DEF intent
    <3> QED BY <1>1, <3>1, <3>3, <3>4 DEF Hook, Webhook
  <2> QED BY <1>2, <2>1, <2>2, <2>3 DEF Does
<1>4. \A x \in Orders : /\ psp'[x] \in Seq(Intent)
                         /\ Len(psp'[x]) = Len(psp[x])
  <2>1. psp'[o] = [psp[o] EXCEPT ![i] = done[1]]
    BY <1>2 DEF Inv, TypeOK
  <2>2. psp'[o] \in Seq(Intent) /\ Len(psp'[o]) = Len(psp[o])
    BY <1>1, <1>3, <2>1
  <2>3. \A x \in Orders \ {o} : psp'[x] = psp[x]
    BY <1>2 DEF Inv, TypeOK
  <2> QED BY <2>2, <2>3 DEF Inv, TypeOK
<1>5. /\ psp' \in [Orders -> Seq(Intent)]
      /\ \A x \in Orders : Len(psp[x]) \in Nat /\ Len(psp[x]) <= MaxIntents
  BY <1>2, <1>4 DEF Inv, TypeOK
<1>6. PspGrows
  BY <1>4, <1>5, PaymentAssumption DEF PspGrows
<1> QED BY <1>2, <1>3, <1>6 DEF Inv, TypeOK

\* The rest of the invariant after a command.
LEMMA ProviderAfter ==
    ASSUME Inv, PspGrows, sent \subseteq sent', sent' \subseteq Webhook,
           applied' \subseteq sent', unnamed' \subseteq applied', commands' \in 0..MaxCommands,
           unbacked' \subseteq Orders
    PROVE  ProviderInv'
<1>1. \A o \in Orders : Len(psp'[o]) <= MaxIntents
  BY PaymentAssumption DEF PspGrows, Inv, TypeOK
<1> QED BY <1>1 DEF ProviderInv, PspGrows

\* After a command that leaves the provider alone.
LEMMA ProviderLeft ==
    ASSUME Inv, Command, UNCHANGED <<psp, sent, applied, unnamed, unbacked>>
    PROVE  PspGrows /\ ProviderInv'
<1>1. commands' \in 0..MaxCommands
  BY PaymentAssumption DEF Command, Inv, TypeOK
<1>2. PspGrows
  BY SamePsp
<1> QED BY <1>1, <1>2, ProviderAfter DEF Inv, TypeOK

LEMMA CreateOrderInv ==
    ASSUME Inv, NEW o \in Orders, CreateOrder(o) PROVE Inv'
<1> DEFINE e == [db[o] EXCEPT !.order = Draft]
<1>1. PspGrows /\ ProviderInv'
  BY ProviderLeft DEF CreateOrder
<1>2. db[o] \in Entry /\ Draft \in Order
  BY PaymentAssumption DEF Inv, TypeOK, Entry, Order, Draft, OrderStatus
<1>3. /\ e \in Entry /\ e.order = Draft /\ e.payment = db[o].payment
  BY <1>2 DEF Entry
<1> HIDE DEF e
<1>4. Evolves(db[o], e)
  BY <1>3 DEF CreateOrder, Evolves, Made
<1>5. Linked(e, Len(psp'[o])) /\ Partial(e)
  BY <1>1, <1>2, <1>3, StillLinked DEF Inv, Linked, Partial
<1>6. OrdersInv'
  BY <1>1, <1>3, <1>4, <1>5, EntryStored DEF CreateOrder, e
<1> QED BY <1>1, <1>6, InvAfter

LEMMA UpsertOrderStatusInv ==
    ASSUME Inv, NEW o \in Orders, NEW target \in OrderStatus,
           UpsertOrderStatus(o, target)
    PROVE  Inv'
<1> DEFINE d == IF db[o].order = None THEN [db[o] EXCEPT !.order = Draft] ELSE db[o]
           e == SetOrderStatus(d, target)
<1>1. PspGrows /\ ProviderInv'
  BY ProviderLeft DEF UpsertOrderStatus
<1>2. db[o] \in Entry /\ Draft \in Order /\ Draft # None
  BY PaymentAssumption, NoneAssumption
     DEF Inv, TypeOK, Entry, Order, Draft, OrderStatus
<1>3. /\ d \in Entry /\ d.payment = db[o].payment /\ d.order # None
      /\ db[o].order # None => d = db[o]
      /\ db[o].order = None => d.order = Draft
  BY <1>2 DEF Entry
<1>4. Evolves(db[o], d)
  BY <1>3 DEF Evolves, Follows, Kept, Made
<1>5. (Store(o, d) \/ Store(o, e)) /\ Read
  BY DEF UpsertOrderStatus
<1> HIDE DEF d
<1>6. e \in Entry /\ e.payment = d.payment /\ Moved(d, e)
  BY <1>3, OrderStatusSet
<1> HIDE DEF e
<1>7. Evolves(db[o], e)
  BY <1>3, <1>6 DEF Evolves, Follows, Moved
<1>8. /\ Linked(d, Len(psp'[o])) /\ Partial(d)
      /\ Linked(e, Len(psp'[o])) /\ Partial(e)
  BY <1>1, <1>2, <1>3, <1>6, StillLinked DEF Inv, Linked, Partial
<1>9. OrdersInv'
  BY <1>1, <1>3, <1>4, <1>5, <1>6, <1>7, <1>8, EntryStored
<1> QED BY <1>1, <1>9, InvAfter

\* The payment that is made names the new intent, or none.
LEMMA CreatePaymentIntentInv ==
    ASSUME Inv, NEW o \in Orders, NEW provider \in {"manual", "stripe"},
           CreatePaymentIntent(o, provider)
    PROVE  Inv'
<1> DEFINE new == Len(psp[o]) + 1
           entry(status, i, made) ==
               [db[o] EXCEPT !.payment = [provider |-> provider, status |-> status,
                                          refunded |-> 0, intent |-> i, made |-> made]]
<1>1. /\ db[o] \in Entry /\ psp[o] \in Seq(Intent) /\ Len(psp[o]) \in Nat
      /\ Len(psp[o]) <= MaxIntents /\ MaxIntents \in Nat /\ Total \in Nat
  BY PaymentAssumption DEF Inv, TypeOK, Entry
<1>2. PICK status \in {"requires_capture", "pending"}, i \in {0, new},
           made \in {0, new} :
         /\ Store(o, entry(status, i, made))
         /\ \/ psp' = psp /\ i = 0 /\ made = 0
            \/ /\ new <= MaxIntents
               /\ psp' = [psp EXCEPT ![o] =
                              Append(@, [state |-> "open", refunded |-> 0])]
  BY DEF CreatePaymentIntent
<1>3. PspGrows /\ i \in 0..Len(psp'[o]) /\ made \in 0..Len(psp'[o])
  <2>1. CASE psp' = psp /\ i = 0 /\ made = 0
    BY <1>1, <2>1, SamePsp
  <2>2. CASE /\ new <= MaxIntents
             /\ psp' = [psp EXCEPT ![o] =
                            Append(@, [state |-> "open", refunded |-> 0])]
    <3> DEFINE intent == [state |-> "open", refunded |-> 0]
    <3>1. intent \in Intent
      BY <1>1 DEF Intent
    <3> HIDE DEF intent
    <3>2. /\ psp'[o] = Append(psp[o], intent)
          /\ \A x \in Orders \ {o} : psp'[x] = psp[x]
          /\ DOMAIN psp' = Orders /\ psp' = [x \in Orders |-> psp'[x]]
      BY <2>2 DEF Inv, TypeOK, intent
    <3>3. psp'[o] \in Seq(Intent) /\ Len(psp'[o]) = new
      BY <1>1, <3>1, <3>2
    <3>4. \A x \in Orders : psp[x] \in Seq(Intent) /\ Len(psp[x]) <= MaxIntents
      BY DEF Inv, TypeOK
    <3>5. psp' \in [Orders -> Seq(Intent)]
      BY <3>2, <3>3, <3>4
    <3>6. \A x \in Orders : Len(psp'[x]) \in Len(psp[x])..MaxIntents
      BY <1>1, <2>2, <3>2, <3>3, <3>4
    <3> QED BY <1>1, <3>3, <3>5, <3>6 DEF PspGrows
  <2> QED BY <1>2, <2>1, <2>2
<1> DEFINE payment == [provider |-> provider, status |-> status, refunded |-> 0,
                       intent |-> i, made |-> made]
           e == entry(status, i, made)
<1>4. payment \in Payment
  <2>1. Len(psp'[o]) <= MaxIntents
    BY <1>1, <1>3 DEF PspGrows
  <2>2. i \in 0..MaxIntents /\ made \in 0..MaxIntents
    BY <1>1, <1>2, <1>3, <2>1
  <2> QED BY <1>1, <2>2 DEF Payment, PaymentStatus
<1>5. /\ payment.status # "partially_refunded" /\ payment.intent = i
      /\ payment.made = made
  OBVIOUS
<1>6. e = [db[o] EXCEPT !.payment = payment]
  OBVIOUS
<1>7. Store(o, e)
  BY <1>2
<1> HIDE DEF payment, e
<1>8. /\ e \in Entry /\ e.payment = payment
      /\ e.order = db[o].order /\ e.event = db[o].event
      /\ e.latest = db[o].latest
  BY <1>1, <1>4, <1>6 DEF Entry
<1>9. Evolves(db[o], e) /\ Linked(e, Len(psp'[o])) /\ Partial(e)
  BY <1>3, <1>5, <1>8 DEF Evolves, Follows, Kept, Linked, Partial
<1>10. OrdersInv'
  BY <1>3, <1>7, <1>8, <1>9, EntryStored DEF CreatePaymentIntent
<1>11. ProviderInv'
  <2>1. commands' \in 0..MaxCommands
    BY PaymentAssumption DEF CreatePaymentIntent, Command, Inv, TypeOK
  <2>2. UNCHANGED <<sent, applied, unnamed, unbacked>>
    BY DEF CreatePaymentIntent
  <2> QED BY <1>3, <2>1, <2>2, ProviderAfter DEF Inv, TypeOK
<1> QED BY <1>10, <1>11, InvAfter

\* A payment with the provider's id names one of the provider's intents.
LEMMA LiveIntent ==
    ASSUME Inv, NEW o \in Orders, db[o].payment # None
    PROVE  /\ db[o] \in Entry /\ Len(psp[o]) \in Nat
           /\ Linked(db[o], Len(psp[o])) /\ Partial(db[o])
           /\ Live(o) => db[o].payment.intent \in DOMAIN psp[o]
<1>1. /\ db[o] \in Entry /\ psp[o] \in Seq(Intent)
      /\ Linked(db[o], Len(psp[o])) /\ Partial(db[o])
  BY DEF Inv, TypeOK, Entry
<1> QED BY <1>1 DEF Linked, Live

\* A call to the provider, whatever comes of it.
LEMMA CallingKeeps ==
    ASSUME Inv, NEW o \in Orders, db[o].payment # None, Command, NEW op,
           NEW amount \in Nat, NEW after, Updates(db[o], after, Len(psp[o])),
           Calling(o, op, amount, after)
    PROVE  Inv'
<1> DEFINE i == db[o].payment.intent
<1>1. Live(o) => i \in DOMAIN psp[o]
  BY LiveIntent
<1>2. /\ Store(o, after) \/ UNCHANGED db
      /\ ProviderDoesNot \/ (Live(o) /\ ProviderDoes(o, i, op, amount))
      /\ unbacked' = unbacked \/ unbacked' = unbacked \cup {o}
      /\ applied' = applied /\ unnamed' = unnamed /\ Read
  BY DEF Calling
<1>3. PspGrows /\ sent \subseteq sent' /\ sent' \subseteq Webhook
  <2>1. CASE ProviderDoesNot
    BY <2>1, SamePsp DEF ProviderDoesNot, Inv, TypeOK
  <2>2. CASE Live(o) /\ ProviderDoes(o, i, op, amount)
    BY <1>1, <2>2, ProviderKeeps
  <2> QED BY <1>2, <2>1, <2>2
<1>4. OrdersInv'
  BY <1>2, <1>3, PaymentStored, NothingStored
<1>5. /\ commands' \in 0..MaxCommands
      /\ applied' \subseteq sent' /\ unnamed' \subseteq applied'
      /\ unbacked' \subseteq Orders
  BY <1>2, <1>3, PaymentAssumption DEF Command, Inv, TypeOK
<1> QED BY <1>3, <1>4, <1>5, ProviderAfter, InvAfter

LEMMA CapturePaymentInv ==
    ASSUME Inv, NEW o \in Orders, CapturePayment(o) PROVE Inv'
<1>1. db[o].payment # None /\ Command
  BY DEF CapturePayment, Payable
<1>2. Updates(db[o], SetPaymentStatus(db[o], "captured"), Len(psp[o]))
  BY <1>1, LiveIntent, StatusUpdates DEF PaymentStatus
<1> QED BY <1>1, <1>2, CallingKeeps DEF CapturePayment

LEMMA VoidUpdates ==
    ASSUME Inv, NEW o \in Orders, db[o].payment # None
    PROVE  Updates(db[o], [db[o] EXCEPT !.payment.status = "voided"], Len(psp[o]))
<1> DEFINE e == [db[o] EXCEPT !.payment.status = "voided"]
           payment == [db[o].payment EXCEPT !.status = "voided"]
<1>1. db[o] \in Entry /\ db[o].payment \in Payment /\ db[o].payment.refunded \in Nat
  BY LiveIntent DEF Entry, Payment
<1>2. /\ payment \in Payment /\ payment # None /\ payment.status = "voided"
      /\ payment.intent = db[o].payment.intent
      /\ payment.made = db[o].payment.made
      /\ payment.refunded = db[o].payment.refunded
  BY <1>1, NoneAssumption DEF Payment, PaymentStatus
<1>3. e = [order |-> db[o].order, payment |-> payment, event |-> db[o].event,
           latest |-> db[o].latest]
  BY <1>1 DEF Entry
<1> HIDE DEF payment
<1>4. /\ e \in Entry /\ e.payment = payment
      /\ e.order = db[o].order /\ e.event = db[o].event
      /\ e.latest = db[o].latest
  BY <1>1, <1>2, <1>3 DEF Entry
<1> HIDE DEF e
<1>5. Updates(db[o], e, Len(psp[o]))
  BY <1>1, <1>2, <1>4, LiveIntent DEF Updates, Follows, Kept, Linked, Partial, Pays
<1> QED BY <1>5 DEF e

LEMMA VoidPaymentInv ==
    ASSUME Inv, NEW o \in Orders, VoidPayment(o) PROVE Inv'
<1> DEFINE e == [db[o] EXCEPT !.payment.status = "voided"]
<1>1. db[o].payment # None /\ Command
  BY DEF VoidPayment, Payable
<1>2. Updates(db[o], e, Len(psp[o]))
  BY <1>1, VoidUpdates
<1>3. VoidPayment(o) => Calling(o, "cancel", 0, e)
  BY DEF VoidPayment
<1> HIDE DEF e
<1> QED BY <1>1, <1>2, <1>3, CallingKeeps

LEMMA RefundPaymentInv ==
    ASSUME Inv, NEW o \in Orders, NEW amount \in 0..Total,
           RefundPayment(o, amount)
    PROVE  Inv'
<1>1. db[o].payment # None /\ Command /\ amount \in Nat
  BY DEF RefundPayment, Payable
<1>2. Updates(db[o], ApplyRefund(db[o], amount), Len(psp[o]))
  BY <1>1, LiveIntent, RefundUpdates
<1> QED BY <1>1, <1>2, CallingKeeps DEF RefundPayment

LEMMA IssueRefundInv ==
    ASSUME Inv, NEW o \in Orders, NEW amount \in 0..Total,
           IssueRefund(o, amount)
    PROVE  Inv'
<1>1. /\ db[o].payment # None /\ Command /\ amount \in Nat /\ Live(o)
      /\ ProviderDoes(o, db[o].payment.intent, "refund", amount)
      /\ UNCHANGED <<db, applied, unnamed, unbacked>> /\ Read
  BY DEF IssueRefund, Payable
<1>2. PspGrows /\ sent \subseteq sent' /\ sent' \subseteq Webhook
  BY <1>1, LiveIntent, ProviderKeeps
<1>3. OrdersInv'
  BY <1>1, <1>2, NothingStored
<1>4. /\ commands' \in 0..MaxCommands
      /\ applied' \subseteq sent' /\ unnamed' \subseteq applied'
      /\ unbacked' \subseteq Orders
  BY <1>1, <1>2, PaymentAssumption DEF Command, Inv, TypeOK
<1> QED BY <1>2, <1>3, <1>4, ProviderAfter, InvAfter

LEMMA ConfirmPaymentInv ==
    ASSUME Inv, NEW o \in Orders, ConfirmPayment(o) PROVE Inv'
<1>1. db[o].payment # None /\ Command /\ Read
  BY DEF ConfirmPayment, Payable
<1>2. PICK e \in Confirmed(o, db[o]) : Store(o, e)
  BY DEF ConfirmPayment
<1>3. Updates(db[o], e, Len(psp[o]))
  BY <1>1, LiveIntent, ConfirmedUpdates
<1>4. PspGrows /\ ProviderInv'
  BY <1>1, ProviderLeft DEF ConfirmPayment
<1> QED BY <1>1, <1>2, <1>3, <1>4, PaymentStored, InvAfter

\* What the provider says of one of its intents is a status of a payment, and
\* none that is about refunds.
LEMMA LiveStatus ==
    ASSUME Inv, NEW o \in Orders, NEW i \in DOMAIN psp[o],
           NEW s \in LiveStatuses(o, i)
    PROVE  s \in PaymentStatus \ {"partially_refunded"}
<1>1. psp[o][i].state \in {"open", "captured", "canceled"}
  <2>1. psp[o] \in Seq(Intent)
    BY DEF Inv, TypeOK
  <2>2. psp[o][i] \in Intent
    BY <2>1
  <2> QED BY <2>2 DEF Intent
<1> QED BY <1>1 DEF LiveStatuses, PaymentStatus

\* A return that names an intent, is perhaps confirmed, and sets a status.
LEMMA ReturnUpdates ==
    ASSUME Inv, NEW o \in Orders, PaymentReturn(o)
    PROVE  \E e : Updates(db[o], e, Len(psp[o])) /\ Store(o, e)
<1> DEFINE n == Len(psp[o])
<1>1. db[o].payment # None
  BY DEF PaymentReturn, Payable
<1>2. /\ db[o] \in Entry /\ n \in Nat /\ Linked(db[o], n) /\ Partial(db[o])
  BY <1>1, LiveIntent
<1>3. CASE Store(o, SetPaymentStatus(db[o], "pending"))
  <2>1. Updates(db[o], SetPaymentStatus(db[o], "pending"), n)
    BY <1>1, <1>2, StatusUpdates DEF PaymentStatus
  <2> QED BY <1>3, <2>1
<1>4. ASSUME NEW says \in {"pending", "requires_capture", "captured", "voided", "failed"},
             NEW i \in IF db[o].payment.intent # 0 THEN {db[o].payment.intent}
                                                  ELSE {0, db[o].payment.made},
             NEW d \in IF says = "requires_capture"
                         THEN Confirmed(o, [db[o] EXCEPT !.payment.intent = i])
                         ELSE {[db[o] EXCEPT !.payment.intent = i]},
             NEW s \in (IF says = "requires_capture" THEN {d.payment.status}
                                                     ELSE {says})
                        \cup (IF i # 0 THEN LiveStatuses(o, i) ELSE {}),
             Store(o, SetPaymentStatus(d, s))
      PROVE  \E e : Updates(db[o], e, n) /\ Store(o, e)
  <2> DEFINE payment == [db[o].payment EXCEPT !.intent = i]
             named == [db[o] EXCEPT !.payment.intent = i]
  <2>1. db[o].payment \in Payment /\ i \in 0..n /\ n <= MaxIntents
    BY <1>1, <1>2 DEF Entry, Linked, Inv, TypeOK
  <2>2. i \in 0..MaxIntents
    BY <1>2, <2>1, PaymentAssumption
  <2>3. /\ payment \in Payment /\ payment # None /\ payment.intent = i
        /\ payment.made = db[o].payment.made
        /\ payment.status = db[o].payment.status
        /\ payment.refunded = db[o].payment.refunded
        /\ payment.refunded \in Nat
    BY <2>1, <2>2, NoneAssumption DEF Payment
  <2>4. named = [order |-> db[o].order, payment |-> payment, event |-> db[o].event,
                 latest |-> db[o].latest]
    BY <1>2, <2>1 DEF Entry
  <2> HIDE DEF payment
  <2>5. /\ named \in Entry /\ named.payment = payment
        /\ named.order = db[o].order /\ named.event = db[o].event
        /\ named.latest = db[o].latest
    BY <1>2, <2>3, <2>4 DEF Entry
  <2>6. d \in IF says = "requires_capture" THEN Confirmed(o, named) ELSE {named}
    OBVIOUS
  <2> HIDE DEF named
  <2>7. Updates(db[o], named, n)
    BY <1>1, <1>2, <2>1, <2>3, <2>5 DEF Updates, Follows, Kept, Linked, Partial, Pays
  <2>8. Updates(named, d, n)
    <3>1. CASE says = "requires_capture"
      BY <1>2, <2>6, <2>7, <3>1, ConfirmedUpdates DEF Updates
    <3>2. CASE says # "requires_capture"
      BY <1>2, <2>6, <2>7, <3>2, UpdatesNothing DEF Updates
    <3> QED BY <3>1, <3>2
  <2>9. /\ s \in PaymentStatus
        /\ s = "partially_refunded" => s = d.payment.status
    <3>1. d.payment.status \in PaymentStatus
      BY <2>8 DEF Updates, Entry, Payment
    <3>2. ASSUME i # 0, s \in LiveStatuses(o, i)
          PROVE  s \in PaymentStatus \ {"partially_refunded"}
      <4>1. i \in DOMAIN psp[o]
        BY <2>1, <3>2 DEF Inv, TypeOK
      <4> QED BY <3>2, <4>1, LiveStatus
    <3>3. CASE s = d.payment.status
      BY <3>1, <3>3
    <3>4. CASE says # "requires_capture" /\ s = says
      BY <3>4 DEF PaymentStatus
    <3> QED BY <3>2, <3>3, <3>4
  <2>10. Updates(d, SetPaymentStatus(d, s), n)
    BY <1>2, <2>8, <2>9, StatusUpdates DEF Updates
  <2>11. Updates(db[o], SetPaymentStatus(d, s), n)
    <3>1. d \in Entry /\ named \in Entry
      BY <2>7, <2>8 DEF Updates
    <3>2. Updates(named, SetPaymentStatus(d, s), n)
      BY <2>8, <2>10, <3>1, UpdatesChain
    <3> QED BY <1>2, <2>7, <3>2, UpdatesChain
  <2> QED BY <1>4, <2>11
<1> QED BY <1>3, <1>4 DEF PaymentReturn

LEMMA PaymentReturnInv ==
    ASSUME Inv, NEW o \in Orders, PaymentReturn(o) PROVE Inv'
<1>1. Command /\ Read
  BY DEF PaymentReturn
<1>2. PspGrows /\ ProviderInv'
  BY <1>1, ProviderLeft DEF PaymentReturn
<1>3. PICK e : Updates(db[o], e, Len(psp[o])) /\ Store(o, e)
  BY ReturnUpdates
<1> QED BY <1>1, <1>2, <1>3, PaymentStored, InvAfter

LEMMA RefreshPaymentStatusInv ==
    ASSUME Inv, NEW o \in Orders, RefreshPaymentStatus(o) PROVE Inv'
<1>1. db[o].payment # None /\ Command /\ Read /\ Live(o)
  BY DEF RefreshPaymentStatus, Payable
<1>2. PICK s \in LiveStatuses(o, db[o].payment.intent) :
         Store(o, SetPaymentStatus(db[o], s))
  BY DEF RefreshPaymentStatus
<1>3. s \in PaymentStatus \ {"partially_refunded"}
  BY <1>1, LiveIntent, LiveStatus
<1>4. Updates(db[o], SetPaymentStatus(db[o], s), Len(psp[o]))
  BY <1>1, <1>3, LiveIntent, StatusUpdates
<1>5. PspGrows /\ ProviderInv'
  BY <1>1, ProviderLeft DEF RefreshPaymentStatus
<1> QED BY <1>1, <1>2, <1>4, <1>5, PaymentStored, InvAfter

LEMMA ProviderActsInv ==
    ASSUME Inv, NEW o \in Orders, NEW i \in DOMAIN psp[o], ProviderActs(o, i)
    PROVE  Inv'
<1>1. UNCHANGED <<db, applied, unnamed, commands, seen, unbacked>>
  BY DEF ProviderActs
<1>2. i \in 1..MaxIntents
  <2>1. psp[o] \in Seq(Intent) /\ Len(psp[o]) <= MaxIntents
    BY DEF Inv, TypeOK
  <2> QED BY <2>1, PaymentAssumption
<1>3. PspGrows /\ sent \subseteq sent' /\ sent' \subseteq Webhook
  <2>1. CASE \/ \E amount \in 1..Total : ProviderDoes(o, i, "refund", amount)
             \/ ProviderDoes(o, i, "cancel", 0)
    <3>1. CASE \E amount \in 1..Total : ProviderDoes(o, i, "refund", amount)
      BY <3>1, ProviderKeeps, PaymentAssumption
    <3>2. CASE ProviderDoes(o, i, "cancel", 0)
      BY <3>2, ProviderKeeps
    <3> QED BY <2>1, <3>1, <3>2
  <2>2. ASSUME NEW kind \in {"failed", "disputed", "won"},
               sent' = sent \cup {Hook(o, i, kind, 0, 0)}, UNCHANGED psp
        PROVE  PspGrows /\ sent \subseteq sent' /\ sent' \subseteq Webhook
    <3>1. Hook(o, i, kind, 0, 0) \in Webhook
      BY <1>2, PaymentAssumption DEF Hook, Webhook
    <3> QED BY <2>2, <3>1, SamePsp DEF Inv, TypeOK
  <2> QED BY <2>1, <2>2 DEF ProviderActs
<1>4. OrdersInv'
  BY <1>1, <1>3, OrdersLeft
<1>5. /\ commands' \in 0..MaxCommands
      /\ applied' \subseteq sent' /\ unnamed' \subseteq applied'
      /\ unbacked' \subseteq Orders
  BY <1>1, <1>3 DEF Inv, TypeOK
<1> QED BY <1>3, <1>4, <1>5, ProviderAfter, InvAfter

LEMMA ProviderWebhookInv ==
    ASSUME Inv, NEW h \in sent, ProviderWebhook(h) PROVE Inv'
<1> DEFINE o == h.order
<1>1. /\ h \in Webhook /\ o \in Orders /\ h.amount \in Nat
      /\ h.kind \in {"succeeded", "failed", "canceled", "refunded", "disputed", "won"}
  BY PaymentAssumption DEF Inv, TypeOK, Webhook
<1>2. /\ db[o].payment # None /\ Read
      /\ applied' = applied \cup {h}
      /\ unnamed' = unnamed \/ unnamed' = unnamed \cup {h}
      /\ UNCHANGED <<psp, sent, commands, unbacked>>
  BY DEF ProviderWebhook
<1>7. PICK amount \in {h.amount, 0} :
         Store(o, IF h.kind = "refunded" THEN ApplyRefund(db[o], amount)
                  ELSE SetPaymentStatus(db[o], PaymentStatusOf(h.kind)))
  BY DEF ProviderWebhook
<1> DEFINE e == IF h.kind = "refunded" THEN ApplyRefund(db[o], amount)
                ELSE SetPaymentStatus(db[o], PaymentStatusOf(h.kind))
<1>8. Store(o, e) /\ amount \in Nat
  BY <1>1, <1>7
<1> HIDE DEF o
<1>3. Updates(db[o], e, Len(psp[o]))
  <2>1. CASE h.kind = "refunded"
    BY <1>1, <1>2, <1>8, <2>1, LiveIntent, RefundUpdates
  <2>2. CASE h.kind # "refunded"
    <3>1. PaymentStatusOf(h.kind) \in PaymentStatus \ {"partially_refunded"}
      BY <1>1, <2>2 DEF PaymentStatusOf, PaymentStatus
    <3> QED BY <1>1, <1>2, <2>2, <3>1, LiveIntent, StatusUpdates
  <2> QED BY <2>1, <2>2
<1> HIDE DEF e
<1>4. PspGrows
  BY <1>2, SamePsp
<1>5. OrdersInv'
  BY <1>1, <1>2, <1>3, <1>4, <1>8, PaymentStored
<1>6. /\ sent' \subseteq Webhook /\ commands' \in 0..MaxCommands
      /\ applied' \subseteq sent' /\ unnamed' \subseteq applied'
      /\ unbacked' \subseteq Orders
  BY <1>2 DEF Inv, TypeOK
<1> QED BY <1>2, <1>4, <1>5, <1>6, ProviderAfter, InvAfter

LEMMA ProviderShippingWebhookInv ==
    ASSUME Inv, NEW o \in Orders, NEW status \in ShipmentStatus,
           ProviderShippingWebhook(o, status)
    PROVE  Inv'
<1> DEFINE event == [status |-> status, version |-> None]
           e == [db[o] EXCEPT !.event = event]
<1>1. /\ Store(o, e) /\ Read
      /\ UNCHANGED <<psp, sent, applied, unnamed, commands, unbacked>>
  BY DEF ProviderShippingWebhook
<1>2. db[o] \in Entry /\ event \in ShipmentEvent
  BY DEF Inv, TypeOK, Entry, ShipmentEvent
<1> HIDE DEF event
<1>3. /\ e \in Entry /\ e.event = event /\ e.latest = db[o].latest
      /\ e.order = db[o].order /\ e.payment = db[o].payment
  BY <1>2 DEF Entry
<1> HIDE DEF e
<1>4. Evolves(db[o], e)
  BY <1>2, <1>3 DEF Evolves, Follows, Kept
<1>5. PspGrows
  BY <1>1, SamePsp
<1>6. Linked(e, Len(psp'[o])) /\ Partial(e)
  BY <1>1, <1>3 DEF Inv, Linked, Partial
<1>7. OrdersInv'
  BY <1>1, <1>3, <1>4, <1>5, <1>6, EntryStored
<1>8. ProviderInv'
  BY <1>1, <1>5, ProviderAfter DEF Inv, TypeOK
<1> QED BY <1>7, <1>8, InvAfter

-----------------------------------------------------------------------------
(* No refund is forgotten *)

\* A webhook about a refund is about an intent there is, and about the last
\* units of what had been refunded of it by then.
Reports ==
    \A h \in sent : h.kind = "refunded" =>
        /\ h.intent \in DOMAIN psp[h.order]
        /\ h.amount <= h.upto
        /\ h.upto <= psp[h.order][h.intent].refunded

RefundInv == Reports /\ RefundCovered

Pending(o, i) == Cardinality(Units(Uncounted(o, i)))

\* What the step adds to the refunds of an intent, it adds to what is pending.
Reported ==
    \A o \in Orders : \A i \in DOMAIN psp[o] :
        /\ i \in DOMAIN psp'[o]
        /\ Pending(o, i)' \in Nat /\ psp'[o][i].refunded \in Nat
        /\ psp'[o][i].refunded + Pending(o, i) <= psp[o][i].refunded + Pending(o, i)'

LEMMA UnitsFinite ==
    ASSUME NEW H, NEW r \in Nat,
           \A h \in H : h.amount \in Nat /\ h.upto \in Nat /\ h.amount <= h.upto /\ h.upto <= r
    PROVE  /\ Units(H) \subseteq 1..r
           /\ IsFiniteSet(Units(H)) /\ Cardinality(Units(H)) \in Nat
<1>1. Units(H) \subseteq 1..r
  BY DEF Units
<1>2. IsFiniteSet(1..r)
  BY FS_Interval
<1> QED BY <1>1, <1>2, FS_Subset, FS_CardinalityType

\* A refund that goes beyond those before adds its amount.
LEMMA UnitsMore ==
    ASSUME NEW H, NEW r \in Nat,
           \A h \in H : h.amount \in Nat /\ h.upto \in Nat /\ h.amount <= h.upto /\ h.upto <= r,
           NEW g, g.amount \in Nat \ {0}, g.upto = r + g.amount
    PROVE  Cardinality(Units(H \cup {g})) = Cardinality(Units(H)) + g.amount
<1> DEFINE a == g.amount
           told == (r + 1)..(r + a)
<1>1. a \in Nat \ {0} /\ g.upto - a + 1 = r + 1
  OBVIOUS
<1>2. Units(H \cup {g}) = Units(H) \cup told
  BY <1>1 DEF Units
<1>3. /\ Units(H) \subseteq 1..r
      /\ IsFiniteSet(Units(H)) /\ Cardinality(Units(H)) \in Nat
  BY UnitsFinite
<1>4. IsFiniteSet(told) /\ Cardinality(told) = a
  BY <1>1, FS_Interval
<1>5. Units(H) \cap told = {}
  BY <1>1, <1>3
<1> HIDE DEF a, told
<1>6. Cardinality(Units(H) \cup told) = Cardinality(Units(H)) + Cardinality(told) - Cardinality({})
  BY <1>3, <1>4, <1>5, FS_Union
<1>7. Cardinality({}) = 0
  BY FS_EmptySet
<1>8. Cardinality(Units(H) \cup told) = Cardinality(Units(H)) + a
  BY <1>1, <1>3, <1>4, <1>6, <1>7
<1> QED BY <1>2, <1>8 DEF a

\* Without a webhook there are at most as many units less as it reports.
LEMMA UnitsLess ==
    ASSUME NEW H, NEW r \in Nat,
           \A h \in H : h.amount \in Nat /\ h.upto \in Nat /\ h.amount <= h.upto /\ h.upto <= r,
           NEW g \in H
    PROVE  Cardinality(Units(H)) <= Cardinality(Units(H \ {g})) + g.amount
<1> DEFINE rest == Units(H \ {g})
           told == (g.upto - g.amount + 1)..g.upto
<1>1. /\ g.amount \in Nat /\ g.upto \in Nat /\ g.amount <= g.upto
      /\ g.upto - g.amount + 1 \in Int
  OBVIOUS
<1>2. Units(H) = rest \cup told
  BY DEF Units
<1>3. IsFiniteSet(rest) /\ Cardinality(rest) \in Nat
  BY UnitsFinite
<1>4. IsFiniteSet(told) /\ Cardinality(told) = g.amount
  <2> DEFINE a == g.amount
             b == g.upto
             first == b - a + 1
  <2>1. a \in Nat /\ b \in Nat /\ first \in Int /\ told = first..b
    BY <1>1
  <2>2. b - first + 1 = a /\ (first > b => a = 0)
    BY <2>1
  <2> HIDE DEF a, b, first, told
  <2>3. IsFiniteSet(told) /\ Cardinality(told) = IF first > b THEN 0 ELSE b - first + 1
    BY <2>1, FS_Interval
  <2> QED BY <2>2, <2>3 DEF a
<1> HIDE DEF rest, told
<1>5. /\ Cardinality(rest \cup told)
            = Cardinality(rest) + Cardinality(told) - Cardinality(rest \cap told)
      /\ IsFiniteSet(rest \cap told)
  <2>1. IsFiniteSet(rest \cap told)
    BY <1>3, FS_Subset
  <2> QED BY <1>3, <1>4, <2>1, FS_Union
<1>6. Cardinality(rest \cap told) \in Nat
  BY <1>5, FS_CardinalityType
<1> QED BY <1>1, <1>2, <1>3, <1>4, <1>5, <1>6 DEF rest

LEMMA WaitingBounded ==
    ASSUME Inv, Reports, NEW o \in Orders, NEW i \in DOMAIN psp[o]
    PROVE  /\ psp[o][i] \in Intent /\ psp[o][i].refunded \in 0..Total /\ Total \in Nat
           /\ \A h \in Uncounted(o, i) : /\ h.amount \in Nat /\ h.upto \in Nat
                                       /\ h.amount <= h.upto
                                       /\ h.upto <= psp[o][i].refunded
           /\ Pending(o, i) \in Nat
<1>1. psp[o] \in Seq(Intent) /\ Total \in Nat
  BY PaymentAssumption DEF Inv, TypeOK
<1>2. psp[o][i] \in Intent /\ psp[o][i].refunded \in 0..Total
  <2>1. psp[o][i] \in Intent
    BY <1>1
  <2> QED BY <2>1 DEF Intent
<1>3. \A h \in Uncounted(o, i) : /\ h.amount \in Nat /\ h.upto \in Nat
                               /\ h.amount <= h.upto
                               /\ h.upto <= psp[o][i].refunded
  BY <1>1 DEF Uncounted, Reports, Inv, TypeOK, Webhook
<1>4. psp[o][i].refunded \in Nat
  BY <1>1, <1>2
<1> HIDE DEF Inv
<1>5. Pending(o, i) \in Nat
  BY <1>3, <1>4, UnitsFinite DEF Pending
<1> QED BY <1>1, <1>2, <1>3, <1>5

\* A step without refunds, at the provider or from it.
LEMMA NoRefund ==
    ASSUME Inv, Reports,
           \A h : h.kind = "refunded" => /\ h \in sent' <=> h \in sent
                                         /\ h \in (sent' \ applied') \cup unnamed'
                                              <=> h \in (sent \ applied) \cup unnamed,
           \A o \in Orders : \A i \in DOMAIN psp[o] :
               i \in DOMAIN psp'[o] /\ psp'[o][i].refunded = psp[o][i].refunded
    PROVE  Reports' /\ Reported
<1>1. Reports'
  BY DEF Reports, Inv, TypeOK, Webhook
<1>2. ASSUME NEW o \in Orders, NEW i \in DOMAIN psp[o]
      PROVE  Uncounted(o, i)' = Uncounted(o, i)
  BY DEF Uncounted
<1>3. ASSUME NEW o \in Orders, NEW i \in DOMAIN psp[o]
      PROVE  /\ i \in DOMAIN psp'[o]
             /\ Pending(o, i)' \in Nat /\ psp'[o][i].refunded \in Nat
             /\ psp'[o][i].refunded + Pending(o, i) <= psp[o][i].refunded + Pending(o, i)'
  <2>1. Pending(o, i)' = Pending(o, i)
    BY <1>2 DEF Pending
  <2>2. psp[o][i].refunded \in Nat /\ Pending(o, i) \in Nat
    BY WaitingBounded
  <2> QED BY <2>1, <2>2
<1> QED BY <1>1, <1>3 DEF Reported

\* And one that leaves the provider alone.
LEMMA ProviderSilent ==
    ASSUME Inv, Reports, UNCHANGED <<psp, sent, applied, unnamed>>
    PROVE  Reports' /\ Reported
BY NoRefund

LEMMA ProviderReports ==
    ASSUME Inv, Reports, NEW o \in Orders, NEW i \in DOMAIN psp[o], NEW op,
           NEW amount \in Nat, ProviderDoes(o, i, op, amount),
           UNCHANGED <<applied, unnamed>>
    PROVE  Reports' /\ Reported
<1> DEFINE intent == psp[o][i]
<1>1. /\ intent \in Intent /\ intent.refunded \in Nat /\ Total \in Nat
      /\ psp \in [Orders -> Seq(Intent)] /\ i \in DOMAIN psp[o]
  BY WaitingBounded DEF Inv, TypeOK
<1>2. PICK done \in Does(o, i, op, amount) :
         psp' = [psp EXCEPT ![o][i] = done[1]] /\ sent' = sent \cup {done[2]}
  BY DEF ProviderDoes
<1>3. /\ \A x \in Orders : DOMAIN psp'[x] = DOMAIN psp[x]
      /\ psp'[o][i] = done[1]
      /\ \A x \in Orders : \A j \in DOMAIN psp[x] :
            (x # o \/ j # i) => psp'[x][j] = psp[x][j]
  BY <1>1, <1>2
<1>4. CASE (op = "capture" \/ op = "cancel") /\ intent.state = "open"
  <2>1. /\ \/ done = <<[intent EXCEPT !.state = "captured"], Hook(o, i, "succeeded", 0, 0)>>
           \/ done = <<[intent EXCEPT !.state = "canceled"], Hook(o, i, "canceled", 0, 0)>>
    BY <1>2, <1>4 DEF Does
  <2>2. done[1].refunded = intent.refunded /\ done[2].kind # "refunded"
    BY <1>1, <2>1 DEF Intent, Hook
  <2>3. \A x \in Orders : \A j \in DOMAIN psp[x] :
            j \in DOMAIN psp'[x] /\ psp'[x][j].refunded = psp[x][j].refunded
    BY <1>3, <2>2
  <2>4. \A h : h.kind = "refunded" => /\ h \in sent' <=> h \in sent
                                      /\ h \in applied' <=> h \in applied
    BY <1>2, <2>2
  <2> QED BY <2>3, <2>4, NoRefund
<1>5. CASE /\ op = "refund" /\ intent.state = "captured" /\ amount > 0
           /\ intent.refunded + amount <= Total
  <2> DEFINE r == intent.refunded
             g == Hook(o, i, "refunded", amount, r + amount)
  <2>1. done = <<[intent EXCEPT !.refunded = @ + amount], g>>
    BY <1>2, <1>5 DEF Does
  <2>2. /\ done[1].refunded = r + amount /\ done[2] = g
        /\ g.kind = "refunded" /\ g.order = o /\ g.intent = i
        /\ g.amount = amount /\ g.upto = r + amount
    BY <1>1, <2>1 DEF Intent, Hook
  <2>3. r \in Nat /\ amount \in Nat \ {0}
    BY <1>1, <1>5
  <2>4. g \notin sent
    BY <2>2, <2>3 DEF Reports
  <2>5. g \notin applied /\ sent' = sent \cup {g}
    BY <1>2, <2>2, <2>4 DEF Inv, TypeOK
  <2> HIDE DEF g
  <2>6. psp'[o][i].refunded = r + amount
    BY <1>3, <2>2
  <2>7. Reports'
    <3>1. ASSUME NEW h \in sent, h.kind = "refunded"
          PROVE  /\ h.intent \in DOMAIN psp'[h.order]
                 /\ h.amount <= h.upto
                 /\ h.upto <= psp'[h.order][h.intent].refunded
      <4>1. /\ h.order \in Orders /\ h.intent \in DOMAIN psp[h.order]
            /\ h.amount <= h.upto /\ h.upto \in Nat
            /\ h.upto <= psp[h.order][h.intent].refunded
        BY <1>1, <3>1 DEF Reports, Inv, TypeOK, Webhook
      <4>2. CASE h.order = o /\ h.intent = i
        BY <1>3, <2>3, <2>6, <4>1, <4>2
      <4>3. CASE ~(h.order = o /\ h.intent = i)
        BY <1>3, <4>1, <4>3
      <4> QED BY <4>2, <4>3
    <3>2. /\ g.intent \in DOMAIN psp'[g.order]
          /\ g.amount <= g.upto
          /\ g.upto <= psp'[g.order][g.intent].refunded
      BY <1>3, <2>2, <2>3, <2>6
    <3> QED BY <2>5, <3>1, <3>2 DEF Reports
  <2>8. /\ Uncounted(o, i)' = Uncounted(o, i) \cup {g}
        /\ \A x \in Orders : \A j \in DOMAIN psp[x] :
              (x # o \/ j # i) => Uncounted(x, j)' = Uncounted(x, j)
    BY <2>2, <2>5 DEF Uncounted
  <2>9. Pending(o, i)' = Pending(o, i) + amount /\ Pending(o, i) \in Nat
    <3>1. /\ \A h \in Uncounted(o, i) : /\ h.amount \in Nat /\ h.upto \in Nat
                                      /\ h.amount <= h.upto /\ h.upto <= r
          /\ Pending(o, i) \in Nat
      BY WaitingBounded
    <3> HIDE DEF r
    <3>2. Cardinality(Units(Uncounted(o, i) \cup {g})) = Cardinality(Units(Uncounted(o, i))) + amount
      BY <2>2, <2>3, <3>1, UnitsMore
    <3> QED BY <2>8, <3>1, <3>2 DEF Pending
  <2>10. ASSUME NEW x \in Orders, NEW j \in DOMAIN psp[x], x # o \/ j # i
         PROVE  /\ Pending(x, j)' = Pending(x, j) /\ Pending(x, j) \in Nat
                /\ psp'[x][j] = psp[x][j] /\ psp[x][j].refunded \in Nat
    BY <1>3, <2>8, <2>10, WaitingBounded DEF Pending
  <2>11. Reported
    BY <1>3, <2>3, <2>6, <2>9, <2>10 DEF Reported
  <2> QED BY <2>7, <2>11
<1> QED BY <1>2, <1>4, <1>5 DEF Does


\* What is covered stays covered while payments remain what they are and every
\* refund is reported.
LEMMA StaysCovered ==
    ASSUME Inv, Inv', RefundInv, Reported, NEW o \in Orders, Pays(db[o], db'[o]),
           NEW i, db'[o].payment # None, db'[o].payment.made = i, i # 0
    PROVE  db'[o].payment.refunded + Pending(o, i)' >= psp'[o][i].refunded
<1> DEFINE p == db[o].payment
           q == db'[o].payment
<1>1. p # None /\ p.made = i /\ q.refunded >= p.refunded
  BY DEF Pays
<1>2. i \in DOMAIN psp[o] /\ p.refunded \in Nat
  <2>1. psp[o] \in Seq(Intent) /\ p \in Payment /\ i \in 0..Len(psp[o])
    BY <1>1 DEF Inv, TypeOK, Linked
  <2> QED BY <2>1 DEF Payment
<1>3. /\ Pending(o, i)' \in Nat /\ psp'[o][i].refunded \in Nat
      /\ psp'[o][i].refunded + Pending(o, i) <= psp[o][i].refunded + Pending(o, i)'
  BY <1>2 DEF Reported
<1>4. p.refunded + Pending(o, i) >= psp[o][i].refunded
  BY <1>1 DEF RefundInv, RefundCovered, Pending
<1>5. psp[o][i].refunded \in Nat /\ Pending(o, i) \in Nat
  BY <1>2, WaitingBounded DEF RefundInv
<1>6. q.refunded \in Nat
  BY DEF Inv, TypeOK, Payment
<1> HIDE DEF p, q
<1>7. q.refunded + Pending(o, i)' >= psp'[o][i].refunded
  BY <1>1, <1>2, <1>3, <1>4, <1>5, <1>6
<1> QED BY <1>7 DEF q

LEMMA AllCovered ==
    ASSUME Inv, Inv', RefundInv, Reports', Reported,
           \A o \in Orders : Pays(db[o], db'[o])
    PROVE  RefundInv'
<1>1. ASSUME NEW o \in Orders, NEW i, db'[o].payment # None, db'[o].payment.made = i, i # 0
      PROVE  db'[o].payment.refunded + Cardinality(Units(Uncounted(o, i)))' >= psp'[o][i].refunded
  BY <1>1, StaysCovered DEF Pending
<1> QED BY <1>1 DEF RefundInv, RefundCovered

\* A handler that stores what a payment may become.
LEMMA StoredCovers ==
    ASSUME Inv, Inv', RefundInv, Reports', Reported,
           NEW o \in Orders, NEW e, Pays(db[o], e), Store(o, e) \/ UNCHANGED db
    PROVE  RefundInv'
<1>1. \A x \in Orders : db[x].payment # None => db[x].payment.refunded \in Nat
  BY DEF Inv, TypeOK, Payment
<1>2. \A x \in Orders : Pays(db[x], db[x])
  BY <1>1 DEF Pays
<1>3. \A x \in Orders : db'[x] = db[x] \/ (x = o /\ db'[x] = e)
  BY DEF Store, Inv, TypeOK
<1> QED BY <1>2, <1>3, AllCovered

\* The handlers that leave the payments alone.
LEMMA OrderCommandCovers ==
    ASSUME Inv, Inv', RefundInv, NEW o \in Orders,
           \/ CreateOrder(o)
           \/ \E target \in OrderStatus : UpsertOrderStatus(o, target)
    PROVE  RefundInv'
<1>1. Reports' /\ Reported
  BY ProviderSilent DEF CreateOrder, UpsertOrderStatus, RefundInv
<1>2. db[o] \in Entry /\ Draft \in Order /\ Draft # None
  BY PaymentAssumption, NoneAssumption
     DEF Inv, TypeOK, Entry, Order, Draft, OrderStatus
<1>3. ASSUME NEW e, e.payment = db[o].payment, Store(o, e) PROVE RefundInv'
  <2>1. db[o].payment # None => db[o].payment.refunded \in Nat
    BY <1>2 DEF Entry, Payment
  <2>2. Pays(db[o], e)
    BY <1>3, <2>1 DEF Pays
  <2> QED BY <1>1, <1>3, <2>2, StoredCovers
<1>4. CASE CreateOrder(o)
  <2> DEFINE e == [db[o] EXCEPT !.order = Draft]
  <2>1. e.payment = db[o].payment /\ Store(o, e)
    BY <1>2, <1>4 DEF CreateOrder, Entry
  <2> QED BY <1>3, <2>1
<1>5. ASSUME NEW target \in OrderStatus, UpsertOrderStatus(o, target) PROVE RefundInv'
  <2> DEFINE d == IF db[o].order = None THEN [db[o] EXCEPT !.order = Draft] ELSE db[o]
             e == SetOrderStatus(d, target)
  <2>1. d.payment = db[o].payment
    BY <1>2 DEF Entry
  <2>2. e.payment = d.payment
    BY DEF SetOrderStatus
  <2>3. Store(o, d) \/ Store(o, e)
    BY <1>5 DEF UpsertOrderStatus
  <2> HIDE DEF d, e
  <2> QED BY <1>3, <2>1, <2>2, <2>3
<1> QED BY <1>4, <1>5

\* A new payment is for an intent that nothing was refunded on, or for none.
LEMMA CreatePaymentIntentCovers ==
    ASSUME Inv, Inv', RefundInv, NEW o \in Orders,
           NEW provider \in {"manual", "stripe"}, CreatePaymentIntent(o, provider)
    PROVE  RefundInv'
<1> DEFINE new == Len(psp[o]) + 1
           intent == [state |-> "open", refunded |-> 0]
           entry(status, i, made) ==
               [db[o] EXCEPT !.payment = [provider |-> provider, status |-> status,
                                          refunded |-> 0, intent |-> i, made |-> made]]
<1>1. /\ psp \in [Orders -> Seq(Intent)] /\ psp[o] \in Seq(Intent) /\ Len(psp[o]) \in Nat
      /\ db[o] \in Entry
  BY DEF Inv, TypeOK, Entry
<1>2. PICK status \in {"requires_capture", "pending"}, i \in {0, new},
           made \in {0, new} :
         /\ Store(o, entry(status, i, made))
         /\ \/ psp' = psp /\ i = 0 /\ made = 0
            \/ psp' = [psp EXCEPT ![o] = Append(@, intent)]
  BY DEF CreatePaymentIntent
<1>3. UNCHANGED <<sent, applied, unnamed>>
  BY DEF CreatePaymentIntent
<1> DEFINE e == entry(status, i, made)
<1>4. e.payment.made = made /\ e.payment.refunded = 0
  BY <1>1 DEF Entry
<1>5. /\ db'[o] = e /\ \A x \in Orders \ {o} : db'[x] = db[x]
  BY <1>2 DEF Store, Inv, TypeOK
<1> HIDE DEF e, entry
<1>6. /\ \A x \in Orders : \A j \in DOMAIN psp[x] :
            j \in DOMAIN psp'[x] /\ psp'[x][j] = psp[x][j]
      /\ made = 0 \/ psp'[o][made] = intent
  <2>1. CASE psp' = psp /\ i = 0 /\ made = 0
    BY <2>1
  <2>2. CASE psp' = [psp EXCEPT ![o] = Append(@, intent)]
    <3> HIDE DEF intent
    <3>1. psp'[o] = Append(psp[o], intent) /\ \A x \in Orders \ {o} : psp'[x] = psp[x]
      BY <1>1, <2>2
    <3>2. /\ psp'[o][new] = intent
          /\ \A j \in DOMAIN psp[o] : j \in DOMAIN psp'[o] /\ psp'[o][j] = psp[o][j]
      BY <1>1, <3>1
    <3> QED BY <3>1, <3>2
  <2> QED BY <1>2, <2>1, <2>2
<1> HIDE DEF intent
<1>7. Reports' /\ Reported
  BY <1>3, <1>6, NoRefund DEF RefundInv
<1>8. ASSUME NEW x \in Orders, NEW j, db'[x].payment # None, db'[x].payment.made = j, j # 0
      PROVE  db'[x].payment.refunded + Cardinality(Units(Uncounted(x, j)))' >= psp'[x][j].refunded
  <2>1. CASE x = o
    <3>1. j = made /\ j = new /\ db'[x].payment.refunded = 0
      BY <1>2, <1>4, <1>5, <1>8, <2>1
    <3>2. psp'[x][j].refunded = 0
      BY <1>6, <1>8, <2>1, <3>1 DEF intent
    <3>3. Uncounted(x, j) = {}
      BY <1>1, <2>1, <3>1 DEF Uncounted, RefundInv, Reports, Inv, TypeOK
    <3>4. Uncounted(x, j)' = {}
      BY <1>3, <3>3 DEF Uncounted
    <3>5. Units({}) = {}
      BY DEF Units
    <3>6. Cardinality(Units(Uncounted(x, j)))' = 0
      BY <3>4, <3>5, FS_EmptySet
    <3> QED BY <3>1, <3>2, <3>6
  <2>2. CASE x # o
    <3>1. Pays(db[x], db'[x])
      <4>1. db[x].payment # None => db[x].payment.refunded \in Nat
        BY DEF Inv, TypeOK, Payment
      <4> QED BY <1>5, <2>2, <4>1 DEF Pays
    <3> QED BY <1>7, <1>8, <3>1, StaysCovered DEF Pending
  <2> QED BY <2>1, <2>2
<1> QED BY <1>7, <1>8 DEF RefundInv, RefundCovered

LEMMA CallingCovers ==
    ASSUME Inv, Inv', RefundInv, NEW o \in Orders, db[o].payment # None, NEW op,
           NEW amount \in Nat, NEW after, Pays(db[o], after),
           Calling(o, op, amount, after)
    PROVE  RefundInv'
<1>1. /\ Store(o, after) \/ UNCHANGED db
      /\ \/ ProviderDoesNot
         \/ Live(o) /\ ProviderDoes(o, db[o].payment.intent, op, amount)
      /\ UNCHANGED <<applied, unnamed>>
  BY DEF Calling
<1>2. Reports' /\ Reported
  <2>1. CASE ProviderDoesNot
    BY <1>1, <2>1, ProviderSilent DEF ProviderDoesNot, RefundInv
  <2>2. CASE Live(o) /\ ProviderDoes(o, db[o].payment.intent, op, amount)
    BY <1>1, <2>2, LiveIntent, ProviderReports DEF RefundInv
  <2> QED BY <1>1, <2>1, <2>2
<1> QED BY <1>1, <1>2, StoredCovers

LEMMA ProviderCommandCovers ==
    ASSUME Inv, Inv', RefundInv, NEW o \in Orders,
           \/ CapturePayment(o) \/ VoidPayment(o)
           \/ \E amount \in 0..Total : RefundPayment(o, amount) \/ IssueRefund(o, amount)
    PROVE  RefundInv'
<1>1. db[o].payment # None
  BY DEF CapturePayment, VoidPayment, RefundPayment, IssueRefund, Payable
<1>2. /\ db[o] \in Entry /\ Len(psp[o]) \in Nat
      /\ Linked(db[o], Len(psp[o])) /\ Partial(db[o])
      /\ Live(o) => db[o].payment.intent \in DOMAIN psp[o]
  BY <1>1, LiveIntent
<1>3. CASE CapturePayment(o)
  <2>1. Updates(db[o], SetPaymentStatus(db[o], "captured"), Len(psp[o]))
    BY <1>1, <1>2, StatusUpdates DEF PaymentStatus
  <2> QED BY <1>1, <1>3, <2>1, CallingCovers DEF CapturePayment, Updates
<1>4. CASE VoidPayment(o)
  <2> DEFINE e == [db[o] EXCEPT !.payment.status = "voided"]
  <2>1. Updates(db[o], e, Len(psp[o]))
    BY <1>1, VoidUpdates
  <2>2. Calling(o, "cancel", 0, e)
    BY <1>4 DEF VoidPayment
  <2> HIDE DEF e
  <2> QED BY <1>1, <2>1, <2>2, CallingCovers DEF Updates
<1>5. ASSUME NEW amount \in 0..Total, RefundPayment(o, amount) PROVE RefundInv'
  <2>1. amount \in Nat
    BY PaymentAssumption
  <2>2. Updates(db[o], ApplyRefund(db[o], amount), Len(psp[o]))
    BY <1>1, <1>2, <2>1, RefundUpdates
  <2> QED BY <1>1, <1>5, <2>1, <2>2, CallingCovers DEF RefundPayment, Updates
<1>6. ASSUME NEW amount \in 0..Total, IssueRefund(o, amount) PROVE RefundInv'
  <2>1. Reports' /\ Reported
    BY <1>1, <1>2, <1>6, ProviderReports DEF IssueRefund, RefundInv
  <2>2. UNCHANGED db /\ Updates(db[o], db[o], Len(psp[o]))
    BY <1>1, <1>2, <1>6, UpdatesNothing DEF IssueRefund
  <2> QED BY <2>1, <2>2, StoredCovers DEF Updates
<1> QED BY <1>3, <1>4, <1>5, <1>6

LEMMA StatusCommandCovers ==
    ASSUME Inv, Inv', RefundInv, NEW o \in Orders,
           ConfirmPayment(o) \/ PaymentReturn(o) \/ RefreshPaymentStatus(o)
    PROVE  RefundInv'
<1>1. /\ db[o].payment # None
      /\ UNCHANGED <<psp, sent, applied, unnamed>>
  BY DEF ConfirmPayment, PaymentReturn, RefreshPaymentStatus, Payable
<1>2. Reports' /\ Reported
  BY <1>1, ProviderSilent DEF RefundInv
<1>3. /\ db[o] \in Entry /\ Len(psp[o]) \in Nat
      /\ Linked(db[o], Len(psp[o])) /\ Partial(db[o])
      /\ Live(o) => db[o].payment.intent \in DOMAIN psp[o]
  BY <1>1, LiveIntent
<1>4. \E e : Updates(db[o], e, Len(psp[o])) /\ Store(o, e)
  <2>1. CASE ConfirmPayment(o)
    BY <1>1, <1>3, <2>1, ConfirmedUpdates DEF ConfirmPayment
  <2>2. CASE PaymentReturn(o)
    BY <2>2, ReturnUpdates
  <2>3. CASE RefreshPaymentStatus(o)
    <3>1. PICK s \in LiveStatuses(o, db[o].payment.intent) :
             Store(o, SetPaymentStatus(db[o], s))
      BY <2>3 DEF RefreshPaymentStatus
    <3>2. s \in PaymentStatus \ {"partially_refunded"}
      BY <1>3, <2>3, LiveStatus DEF RefreshPaymentStatus
    <3>3. Updates(db[o], SetPaymentStatus(db[o], s), Len(psp[o]))
      BY <1>1, <1>3, <3>2, StatusUpdates
    <3> QED BY <3>1, <3>3
  <2> QED BY <2>1, <2>2, <2>3
<1> QED BY <1>2, <1>4, StoredCovers DEF Updates

\* What the provider does on its own it reports, if it is a refund.
LEMMA ProviderActsCovers ==
    ASSUME Inv, Inv', RefundInv, NEW o \in Orders, NEW i \in DOMAIN psp[o],
           ProviderActs(o, i)
    PROVE  RefundInv'
<1>1. UNCHANGED <<db, applied, unnamed>> /\ Total \in Nat
  BY PaymentAssumption DEF ProviderActs
<1>2. Reports' /\ Reported
  <2>1. CASE \E amount \in 1..Total : ProviderDoes(o, i, "refund", amount)
    BY <1>1, <2>1, ProviderReports DEF RefundInv
  <2>2. CASE ProviderDoes(o, i, "cancel", 0)
    BY <1>1, <2>2, ProviderReports DEF RefundInv
  <2>3. ASSUME NEW kind \in {"failed", "disputed", "won"},
               sent' = sent \cup {Hook(o, i, kind, 0, 0)}, UNCHANGED psp
        PROVE  Reports' /\ Reported
    <3>1. Hook(o, i, kind, 0, 0).kind # "refunded"
      BY DEF Hook
    <3>2. \A h : h.kind = "refunded" =>
              /\ h \in sent' <=> h \in sent
              /\ h \in (sent' \ applied') \cup unnamed'
                    <=> h \in (sent \ applied) \cup unnamed
      BY <1>1, <2>3, <3>1
    <3> QED BY <2>3, <3>2, NoRefund DEF RefundInv
  <2> QED BY <2>1, <2>2, <2>3 DEF ProviderActs
<1>3. \A x \in Orders : Pays(db[x], db'[x])
  BY <1>1 DEF Pays, Inv, TypeOK, Payment
<1> QED BY <1>2, <1>3, AllCovered

LEMMA ShippingCovers ==
    ASSUME Inv, Inv', RefundInv, NEW o \in Orders, NEW status \in ShipmentStatus,
           ProviderShippingWebhook(o, status)
    PROVE  RefundInv'
<1> DEFINE e == [db[o] EXCEPT !.event = [status |-> status, version |-> None]]
<1>1. Reports' /\ Reported
  BY ProviderSilent DEF ProviderShippingWebhook, RefundInv
<1>2. e.payment = db[o].payment
  BY DEF Inv, TypeOK
<1>3. db[o].payment # None => db[o].payment.refunded \in Nat
  BY DEF Inv, TypeOK, Payment
<1>4. Store(o, e)
  BY DEF ProviderShippingWebhook
<1> HIDE DEF e
<1>5. Pays(db[o], e)
  BY <1>2, <1>3 DEF Pays
<1> QED BY <1>1, <1>4, <1>5, StoredCovers

\* A webhook that is applied moves its amount from what is pending to what the
\* payment counts, or the payment counts all there is; one that names no amount
\* leaves it among what is pending.
LEMMA ProviderWebhookCovers ==
    ASSUME Inv, Inv', RefundInv, NEW h \in sent, ProviderWebhook(h)
    PROVE  RefundInv'
<1> DEFINE o == h.order
<1>1. /\ h \in Webhook /\ o \in Orders /\ h.amount \in Nat /\ Total \in Nat
      /\ h.kind \in {"succeeded", "failed", "canceled", "refunded", "disputed", "won"}
  BY PaymentAssumption DEF Inv, TypeOK, Webhook
<1>2. /\ db[o].payment # None /\ h \notin applied /\ h \notin unnamed
      /\ applied' = applied \cup {h} /\ UNCHANGED <<psp, sent>>
  BY DEF ProviderWebhook, Inv, TypeOK
<1>6. \/ /\ h.kind = "refunded" /\ unnamed' = unnamed
         /\ Store(o, ApplyRefund(db[o], h.amount))
      \/ /\ h.kind = "refunded" /\ unnamed' = unnamed \cup {h}
         /\ Store(o, ApplyRefund(db[o], 0))
      \/ /\ h.kind # "refunded" /\ unnamed' = unnamed
         /\ Store(o, SetPaymentStatus(db[o], PaymentStatusOf(h.kind)))
  BY DEF ProviderWebhook
<1> HIDE DEF o
<1>3. /\ db[o] \in Entry /\ Len(psp[o]) \in Nat
      /\ Linked(db[o], Len(psp[o])) /\ Partial(db[o])
  BY <1>1, <1>2, LiveIntent
<1>4. CASE /\ h.kind # "refunded" /\ unnamed' = unnamed
           /\ Store(o, SetPaymentStatus(db[o], PaymentStatusOf(h.kind)))
  <2>1. PaymentStatusOf(h.kind) \in PaymentStatus \ {"partially_refunded"}
    BY <1>1, <1>4 DEF PaymentStatusOf, PaymentStatus
  <2>2. Updates(db[o], SetPaymentStatus(db[o], PaymentStatusOf(h.kind)), Len(psp[o]))
    BY <1>2, <1>3, <2>1, StatusUpdates
  <2>3. \A g : g.kind = "refunded" =>
               /\ g \in sent' <=> g \in sent
               /\ g \in (sent' \ applied') \cup unnamed'
                     <=> g \in (sent \ applied) \cup unnamed
    BY <1>2, <1>4
  <2>4. Reports' /\ Reported
    BY <1>2, <2>3, NoRefund DEF RefundInv
  <2> QED BY <1>1, <1>2, <1>4, <2>2, <2>4, StoredCovers DEF Updates
<1>7. CASE /\ h.kind = "refunded" /\ unnamed' = unnamed \cup {h}
           /\ Store(o, ApplyRefund(db[o], 0))
  <2>1. Updates(db[o], ApplyRefund(db[o], 0), Len(psp[o]))
    BY <1>2, <1>3, RefundUpdates
  <2>2. \A g : /\ g \in sent' <=> g \in sent
               /\ g \in (sent' \ applied') \cup unnamed'
                     <=> g \in (sent \ applied) \cup unnamed
    BY <1>2, <1>7
  <2>3. Reports' /\ Reported
    BY <1>2, <2>2, NoRefund DEF RefundInv
  <2> QED BY <1>1, <1>2, <1>7, <2>1, <2>3, StoredCovers DEF Updates
<1>5. CASE /\ h.kind = "refunded" /\ unnamed' = unnamed
           /\ Store(o, ApplyRefund(db[o], h.amount))
  <2> DEFINE e == ApplyRefund(db[o], h.amount)
  <2>1. /\ Updates(db[o], e, Len(psp[o]))
        /\ e.payment.refunded = Min({db[o].payment.refunded + h.amount, Total})
    BY <1>1, <1>2, <1>3, RefundUpdates
  <2>2. Store(o, e)
    BY <1>5
  <2> HIDE DEF e
  <2>3. /\ db'[o] = e /\ \A x \in Orders \ {o} : db'[x] = db[x]
    BY <1>1, <2>2 DEF Store, Inv, TypeOK
  <2>4. Reports'
    BY <1>2 DEF RefundInv, Reports
  <2>5. \A x \in Orders : \A i : (x # o \/ i # h.intent) => Uncounted(x, i)' = Uncounted(x, i)
    BY <1>2, <1>5 DEF Uncounted, o
  <2>6. Uncounted(o, h.intent)' = Uncounted(o, h.intent) \ {h} /\ h \in Uncounted(o, h.intent)
    BY <1>2, <1>5 DEF Uncounted, o
  <2>7. ASSUME NEW x \in Orders PROVE Pays(db[x], db'[x])
    <3>1. db[x].payment # None => db[x].payment.refunded \in Nat
      BY DEF Inv, TypeOK, Payment
    <3>2. Pays(db[x], db[x])
      BY <3>1 DEF Pays
    <3>3. Pays(db[o], e)
      BY <2>1 DEF Updates
    <3> QED BY <2>3, <3>2, <3>3
  <2>8. ASSUME NEW x \in Orders, NEW i, db'[x].payment # None,
               db'[x].payment.made = i, i # 0
        PROVE  db'[x].payment.refunded + Cardinality(Units(Uncounted(x, i)))'
                  >= psp'[x][i].refunded
    <3> DEFINE p == db[x].payment
               q == db'[x].payment
    <3>1. p # None /\ p.made = i /\ q.refunded >= p.refunded
      BY <2>7, <2>8 DEF Pays
    <3>2. /\ i \in DOMAIN psp[x] /\ p.refunded \in Nat
          /\ q.refunded \in Nat
      <4>1. psp[x] \in Seq(Intent) /\ p \in Payment /\ i \in 0..Len(psp[x])
        BY <3>1 DEF Inv, TypeOK, Linked
      <4>2. q \in Payment
        BY <2>8 DEF Inv, TypeOK
      <4> QED BY <2>8, <4>1, <4>2 DEF Payment
    <3>3. p.refunded + Cardinality(Units(Uncounted(x, i))) >= psp[x][i].refunded
      BY <2>8, <3>1 DEF RefundInv, RefundCovered
    <3>4. /\ psp[x][i].refunded \in 0..Total /\ Cardinality(Units(Uncounted(x, i))) \in Nat
          /\ \A g \in Uncounted(x, i) : /\ g.amount \in Nat /\ g.upto \in Nat
                                      /\ g.amount <= g.upto
                                      /\ g.upto <= psp[x][i].refunded
      BY <3>2, WaitingBounded DEF RefundInv, Pending
    <3> HIDE DEF p, q
    <3>5. CASE x # o \/ i # h.intent
      <4>1. Cardinality(Units(Uncounted(x, i)))' = Cardinality(Units(Uncounted(x, i)))
        BY <2>5, <3>5
      <4>2. q.refunded + Cardinality(Units(Uncounted(x, i))) >= psp[x][i].refunded
        BY <1>1, <3>1, <3>2, <3>3, <3>4
      <4> QED BY <1>2, <4>1, <4>2 DEF q
    <3>6. CASE x = o /\ i = h.intent
      <4> DEFINE rest == Uncounted(o, i) \ {h}
      <4>1. Cardinality(Units(Uncounted(x, i)))' = Cardinality(Units(rest))
        BY <2>6, <3>6
      <4>2. /\ Cardinality(Units(Uncounted(o, i))) <= Cardinality(Units(rest)) + h.amount
            /\ Cardinality(Units(rest)) \in Nat
        <5>1. h \in Uncounted(o, i) /\ psp[o][i].refunded \in Nat
          BY <1>1, <2>6, <3>4, <3>6
        <5>2. /\ \A g \in Uncounted(o, i) : /\ g.amount \in Nat /\ g.upto \in Nat
                                          /\ g.amount <= g.upto
                                          /\ g.upto <= psp[o][i].refunded
              /\ \A g \in rest : g \in Uncounted(o, i)
          BY <3>4, <3>6
        <5> HIDE DEF rest
        <5>3. Cardinality(Units(rest)) \in Nat
          BY <5>1, <5>2, UnitsFinite
        <5> QED BY <5>1, <5>2, <5>3, UnitsLess DEF rest
      <4>3. q.refunded = Min({p.refunded + h.amount, Total})
        BY <2>1, <2>3, <3>6 DEF p, q
      <4>4. q.refunded \in {p.refunded + h.amount, Total}
        BY <1>1, <3>2, <4>3, MinOfTwo
      <4> HIDE DEF rest
      <4>5. q.refunded + Cardinality(Units(rest)) >= psp[x][i].refunded
        BY <1>1, <3>2, <3>3, <3>4, <3>6, <4>2, <4>4
      <4> QED BY <1>2, <4>1, <4>5 DEF q
    <3> QED BY <3>5, <3>6
  <2> QED BY <2>4, <2>8 DEF RefundInv, RefundCovered
<1> QED BY <1>4, <1>5, <1>6, <1>7

-----------------------------------------------------------------------------
(* The theorems *)

LEMMA InitInv == Init => Inv
<1> SUFFICES ASSUME Init PROVE Inv
  OBVIOUS
<1>1. TypeOK
  BY PaymentAssumption DEF Init, TypeOK
<1>2. \A o \in Orders : db[o].payment = None /\ db[o].order = None
  BY DEF Init
<1>3. /\ \A o \in Orders : Linked(db[o], Len(psp[o])) /\ Partial(db[o])
      /\ LastEventIsOrder
  BY <1>2 DEF Linked, Partial, LastEventIsOrder
<1>4. SeenIsPast /\ VersionIdentifiesStatus
  BY DEF Init, SeenIsPast, VersionIdentifiesStatus
<1> QED BY <1>1, <1>3, <1>4 DEF Inv

LEMMA NextInv == Inv /\ [Next]_vars => Inv'
<1> SUFFICES ASSUME Inv, [Next]_vars PROVE Inv'
  OBVIOUS
<1>1. CASE UNCHANGED vars
  BY <1>1 DEF vars, Inv, TypeOK, SeenIsPast, LastEventIsOrder,
              VersionIdentifiesStatus, Linked, Partial
<1>2. CASE \E o \in Orders : CreateOrder(o)
  BY <1>2, CreateOrderInv
<1>3. CASE \E o \in Orders : \E target \in OrderStatus : UpsertOrderStatus(o, target)
  BY <1>3, UpsertOrderStatusInv
<1>4. CASE \E o \in Orders : \E provider \in {"manual", "stripe"} :
              CreatePaymentIntent(o, provider)
  BY <1>4, CreatePaymentIntentInv
<1>5. CASE \E o \in Orders : CapturePayment(o)
  BY <1>5, CapturePaymentInv
<1>6. CASE \E o \in Orders : VoidPayment(o)
  BY <1>6, VoidPaymentInv
<1>7. CASE \E o \in Orders : \E amount \in 0..Total : RefundPayment(o, amount)
  BY <1>7, RefundPaymentInv
<1>8. CASE \E o \in Orders : \E amount \in 0..Total : IssueRefund(o, amount)
  BY <1>8, IssueRefundInv
<1>9. CASE \E o \in Orders : ConfirmPayment(o)
  BY <1>9, ConfirmPaymentInv
<1>10. CASE \E o \in Orders : PaymentReturn(o)
  BY <1>10, PaymentReturnInv
<1>11. CASE \E o \in Orders : RefreshPaymentStatus(o)
  BY <1>11, RefreshPaymentStatusInv
<1>12. CASE \E o \in Orders : \E i \in DOMAIN psp[o] : ProviderActs(o, i)
  BY <1>12, ProviderActsInv
<1>13. CASE \E h \in sent : ProviderWebhook(h)
  BY <1>13, ProviderWebhookInv
<1>14. CASE \E o \in Orders : \E status \in ShipmentStatus :
              ProviderShippingWebhook(o, status)
  BY <1>14, ProviderShippingWebhookInv
<1> QED
  BY <1>1, <1>2, <1>3, <1>4, <1>5, <1>6, <1>7, <1>8, <1>9, <1>10, <1>11, <1>12,
     <1>13, <1>14 DEF Next

LEMMA InitRefund == Init => RefundInv
BY DEF Init, RefundInv, Reports, RefundCovered

LEMMA NextRefund == Inv /\ Inv' /\ RefundInv /\ [Next]_vars => RefundInv'
<1> SUFFICES ASSUME Inv, Inv', RefundInv, [Next]_vars PROVE RefundInv'
  OBVIOUS
<1>1. CASE UNCHANGED vars
  BY <1>1 DEF vars, RefundInv, Reports, RefundCovered, Uncounted
<1>2. CASE \E o \in Orders : \/ CreateOrder(o)
                             \/ \E target \in OrderStatus : UpsertOrderStatus(o, target)
  BY <1>2, OrderCommandCovers
<1>3. CASE \E o \in Orders : \E provider \in {"manual", "stripe"} :
              CreatePaymentIntent(o, provider)
  BY <1>3, CreatePaymentIntentCovers
<1>4. CASE \E o \in Orders :
              \/ CapturePayment(o) \/ VoidPayment(o)
              \/ \E amount \in 0..Total : RefundPayment(o, amount) \/ IssueRefund(o, amount)
  BY <1>4, ProviderCommandCovers
<1>5. CASE \E o \in Orders :
              ConfirmPayment(o) \/ PaymentReturn(o) \/ RefreshPaymentStatus(o)
  BY <1>5, StatusCommandCovers
<1>6. CASE \E o \in Orders : \E i \in DOMAIN psp[o] : ProviderActs(o, i)
  BY <1>6, ProviderActsCovers
<1>7. CASE \E h \in sent : ProviderWebhook(h)
  BY <1>7, ProviderWebhookCovers
<1>8. CASE \E o \in Orders : \E status \in ShipmentStatus :
              ProviderShippingWebhook(o, status)
  BY <1>8, ShippingCovers
<1> QED BY <1>1, <1>2, <1>3, <1>4, <1>5, <1>6, <1>7, <1>8 DEF Next

\* The invariant holds of every state of every behaviour.
THEOREM InvAlways == Spec => []Inv
BY InitInv, NextInv, PTL DEF Spec

\* The orders, payments, intents and webhooks always have their types: no
\* operation drives a refund total above the order's or a status out of its range.
THEOREM TypeCorrect == Spec => []TypeOK
<1>1. Inv => TypeOK
  BY DEF Inv
<1> QED BY <1>1, InvAlways, PTL

\* Whatever commands and webhooks come and in whatever order, two reads of an
\* order under one version have seen one status (set_order_status).
THEOREM VersionsIdentify == Spec => []VersionIdentifiesStatus
<1>1. Inv => VersionIdentifiesStatus
  BY DEF Inv
<1> QED BY <1>1, InvAlways, PTL

\* The last event of an order that has a version carries the order's status and
\* version (set_payment_status, UpsertOrderStatus), and one that has none is a
\* shipment's (ProviderShippingWebhook).
THEOREM EventsAgree == Spec => []LastEventIsOrder
<1>1. Inv => LastEventIsOrder
  BY DEF Inv
<1> QED BY <1>1, InvAlways, PTL

\* A payment that calls itself partially refunded is (apply_refund), however
\* refunds, confirmations and customers' returns come between each other.
THEOREM PartialRefundsArePartial == Spec => []PartialIsPartial
<1>1. Inv => PartialIsPartial
  BY DEF Inv, Partial, PartialIsPartial
<1> QED BY <1>1, InvAlways, PTL

\* What the provider has refunded on the intent made for a payment is in the
\* payment's refundedAmount, in webhooks still to be applied or in webhooks that
\* named no amount, whatever replies were lost (RefundPayment, IssueRefund,
\* handle_psp_webhook).
THEOREM RefundsAreCovered == Spec => []RefundCovered
<1>1. Inv /\ RefundInv /\ [Next]_vars => (Inv /\ RefundInv)'
  BY NextInv, NextRefund
<1>2. RefundInv => RefundCovered
  BY DEF RefundInv
<1> QED BY <1>1, <1>2, InitInv, InitRefund, PTL DEF Spec

=============================================================================
