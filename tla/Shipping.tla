------------------------------ MODULE Shipping ------------------------------
(***************************************************************************)
(* What happens to an order once it is paid: the label bought at Melhor    *)
(* Envio (api/src/shipping/label.service.ts), the parcel's way as its      *)
(* webhooks and the sweep of tracking.service.ts bring it, the staff's     *)
(* changes.                                                                *)
(*                                                                         *)
(* A process is at an await: job[w].at names the statement it does next    *)
(* and the other fields are what it read before.  A parcel stands for its  *)
(* id at Melhor Envio and for its tracking code.  The store is set up for  *)
(* Melhor Envio: where it is not, the label's handler ends before it buys. *)
(* The mail with the tracking code and the dates of the way are left out.  *)
(***************************************************************************)
EXTENDS Naturals, FiniteSets

CONSTANTS
    Orders,      \* orders, paid at the start
    Parcels,     \* parcels Melhor Envio may be asked for, in their order
    NoParcel,    \* carrierShipmentId = null, trackingCode = null
    Workers,     \* server processes with a request, a webhook or a label
    Sweeper,     \* the process that holds the lock rastreio
    Asked,       \* statuses the staff asks for
    MaxCalls,    \* bound: requests, webhooks and automatic labels
    MaxFaults    \* bound: refusals, lost answers and crashes

ASSUME ShippingAssumption ==
    /\ IsFiniteSet(Parcels) /\ NoParcel \notin Parcels
    /\ IsFiniteSet(Workers) /\ Sweeper \notin Workers
    /\ Asked \subseteq {"PROCESSING", "SHIPPED", "DELIVERED", "CANCELLED"}
    /\ Workers \subseteq Nat /\ {MaxCalls, MaxFaults} \subseteq Nat

VARIABLES
    orders,     \* the orders' rows
    parcels,    \* the carrier: whose each parcel is, and where
    job,        \* where each process is
    excused,    \* history: label calls of each order that went wrong
    calls, faults   \* bounds

bounds == <<calls, faults>>
vars == <<orders, parcels, job, excused, bounds>>

-----------------------------------------------------------------------------
(* Rows *)

Processes == Workers \cup {Sweeper}
Code == Parcels \cup {NoParcel}
Way == [none |-> 0, released |-> 1, generated |-> 2, posted |-> 3, attempted |-> 4, delivered |-> 5]
Places == DOMAIN Way
Reached(s, place) == Way[parcels[s].at] >= Way[place]

AnyOrder == CHOOSE o \in Orders : TRUE
\* s: the parcel bought; id, code: what is to be written; todo: the rows of the
\* sweep's page.
Idle == [at |-> "idle", o |-> AnyOrder, s |-> NoParcel, id |-> NoParcel,
         code |-> NoParcel, status |-> "PAID", pdf |-> FALSE, todo |-> {}]

Goto(w, at) == job' = [job EXCEPT ![w].at = at]
Done(w) == job' = [job EXCEPT ![w] = Idle]
\* The processes are alike: the first idle one takes the call.
Free(w) ==
    /\ calls < MaxCalls /\ job[w].at = "idle"
    /\ \A v \in Workers : v < w => job[v].at # "idle"
Begin(w, j) ==
    /\ Free(w) /\ calls' = calls + 1 /\ job' = [job EXCEPT ![w] = j]
    /\ UNCHANGED faults
Fault == faults < MaxFaults /\ faults' = faults + 1 /\ UNCHANGED calls
Move(s, place) == parcels' = [parcels EXCEPT ![s].at = place]

-----------------------------------------------------------------------------
(* The label: generateForOrder and createMelhorEnvioLabel *)

Buying == {"buy", "emit", "store"}
Overlaps(o) == \E v \in Workers : job[v].at \in Buying /\ job[v].o = o

\* Mutant: the label that is there is not looked at.
NeedsPaid(row) == row.approved

\* A label that is there is returned; an order not paid for has none.
NeedsLabel(row) == ~(row.shipment # NoParcel /\ row.label) /\ row.approved

\* The button, or the automatic label after the payment (tryAutoGenerate).
StartLabel(w, o) ==
    /\ Begin(w, IF NeedsLabel(orders[o]) THEN [Idle EXCEPT !.at = "buy", !.o = o] ELSE Idle)
    /\ excused' = [excused EXCEPT ![o] = IF NeedsLabel(orders[o]) /\ Overlaps(o) THEN @ + 1 ELSE @]
    /\ UNCHANGED <<orders, parcels>>

\* POST cart and POST checkout, paid from the store's balance: the next parcel
\* of Melhor Envio.
Fresh(s) == parcels[s].at = "none" /\ \A r \in Parcels : r < s => parcels[r].at # "none"
Buy(w) ==
    /\ job[w].at = "buy"
    /\ \E s \in Parcels :
         /\ Fresh(s)
         /\ parcels' = [parcels EXCEPT ![s] = [of |-> job[w].o, at |-> "released"]]
         /\ job' = [job EXCEPT ![w].at = "emit", ![w].s = s]
    /\ UNCHANGED <<orders, excused, bounds>>

\* POST generate, POST print, perhaps without a url, and the query of the
\* tracking code, whose failure is swallowed.
Emit(w) ==
    /\ job[w].at = "emit" /\ Move(job[w].s, "generated")
    /\ \E pdf \in BOOLEAN, code \in {job[w].s, NoParcel} :
         /\ pdf \/ faults < MaxFaults
         /\ faults' = IF pdf THEN faults ELSE faults + 1
         /\ job' = [job EXCEPT ![w].at = "store", ![w].pdf = pdf, ![w].code = code]
    /\ UNCHANGED <<orders, excused, calls>>

\* A call that Melhor Envio refuses, or does without its answer coming back,
\* and the end of the process: what was paid for is written nowhere.
LabelFails(w) ==
    /\ job[w].at \in Buying /\ Fault /\ Done(w)
    /\ \/ UNCHANGED parcels
       \/ /\ job[w].at = "buy"
          /\ \E s \in Parcels : Fresh(s) /\ parcels' = [parcels EXCEPT ![s] =
                                                    [of |-> job[w].o, at |-> "released"]]
       \/ job[w].at = "emit" /\ Move(job[w].s, "generated")
    /\ excused' = [excused EXCEPT ![job[w].o] = @ + 1]
    /\ UNCHANGED orders

\* The UPDATE by id: over what another call may have stored meanwhile.
StoreLabel(w) ==
    LET j == job[w] IN
    /\ j.at = "store"
    /\ orders' = [orders EXCEPT ![j.o].shipment = j.s, ![j.o].label = j.pdf,
                                ![j.o].code = IF j.code = NoParcel THEN @ ELSE j.code]
    /\ excused' = [excused EXCEPT ![j.o] = IF j.pdf THEN @ ELSE @ + 1]
    /\ Done(w)
    /\ UNCHANGED <<parcels, bounds>>

-----------------------------------------------------------------------------
(* The carrier *)

\* attempted: nobody was at home.
Carry(s) ==
    /\ \/ parcels[s].at = "generated" /\ Move(s, "posted")
       \/ parcels[s].at = "posted" /\ Move(s, "attempted")
       \/ parcels[s].at \in {"posted", "attempted"} /\ Move(s, "delivered")
    /\ UNCHANGED <<orders, job, excused, bounds>>

\* A notice of Melhor Envio: of anything the parcel has been through, late or
\* repeated, with or without its code.  The order is looked for by shipment,
\* then by code; without one nothing is done.
Holder(s, withCode) ==
    LET byId == {o \in Orders : orders[o].shipment = s}
    IN IF byId # {} THEN byId ELSE {o \in Orders : withCode /\ orders[o].code = s}

Branch(event) ==
    CASE event = "delivered" -> "delivered"
      [] event \in {"released", "generated", "posted"} -> "shipped"
      [] OTHER -> "link"

Webhook(w, s) ==
    /\ Free(w) /\ parcels[s].at # "none"
    /\ \E event \in {"other"} \cup {place \in Places : Reached(s, place)},
          withCode \in {FALSE, Reached(s, "generated")} :
         \E o \in Holder(s, withCode) :
           Begin(w, [Idle EXCEPT !.at = Branch(event), !.o = o, !.id = s,
                       !.code = CASE withCode -> s
                                  [] ~withCode /\ Branch(event) = "link" -> NoParcel
                                  [] OTHER -> orders[o].code])
    /\ UNCHANGED <<orders, parcels, excused>>

Fill(old, new) == IF new = NoParcel THEN old ELSE new

\* Neither status: the shipment and the code alone are written.
Link(w) ==
    LET j == job[w] IN
    /\ j.at = "link"
    /\ orders' = [orders EXCEPT ![j.o].shipment = Fill(@, j.id), ![j.o].code = Fill(@, j.code)]
    /\ Done(w)
    /\ UNCHANGED <<parcels, excused, bounds>>

\* markShipped and markDelivered: the order is read, and left alone if it is
\* over; then written by id, whatever it has become.
Over(o) == orders[o].status \in {"DELIVERED", "CANCELLED", "REFUNDED"}
\* The sweep goes on with its page.
NextRow(todo) == job' = [job EXCEPT ![Sweeper] = IF todo = {} THEN Idle
                           ELSE [Idle EXCEPT !.at = "next", !.todo = todo]]
Leave(w) == IF w = Sweeper THEN NextRow(job[w].todo) ELSE Done(w)

ReadCurrent(w) ==
    LET j == job[w] IN
    /\ j.at \in {"shipped", "delivered"}
    /\ IF Over(j.o) THEN Leave(w) ELSE Goto(w, IF j.at = "shipped" THEN "ship" ELSE "deliver")
    /\ UNCHANGED <<orders, parcels, excused, bounds>>

Mark(w) ==
    LET j == job[w] IN
    /\ j.at \in {"ship", "deliver"}
    /\ orders' = [orders EXCEPT ![j.o].status = IF j.at = "ship" THEN "SHIPPED" ELSE "DELIVERED",
                                ![j.o].shipment = Fill(@, j.id), ![j.o].code = Fill(@, j.code)]
    /\ Leave(w)
    /\ UNCHANGED <<parcels, excused, bounds>>

-----------------------------------------------------------------------------
(* The sweep: syncOpenShipments, every 20 minutes *)

\* Mutant: orders already shipped are left to the webhook.
OpenUnshipped(o) ==
    /\ orders[o].approved /\ orders[o].status \in {"PAID", "PROCESSING"}
    /\ orders[o].code # NoParcel \/ orders[o].shipment # NoParcel

Open(o) ==
    /\ orders[o].approved /\ orders[o].status \in {"PAID", "PROCESSING", "SHIPPED"}
    /\ orders[o].code # NoParcel \/ orders[o].shipment # NoParcel

\* What the SELECT takes of an order.
Seen(o) == [shipped |-> orders[o].status = "SHIPPED", shipment |-> orders[o].shipment,
            code |-> orders[o].code]

\* A page of 80 orders: all there are here.
SelectOpen ==
    /\ job[Sweeper].at = "idle" /\ \E o \in Orders : Open(o)
    /\ job' = [job EXCEPT ![Sweeper] = [Idle EXCEPT !.at = "next",
                 !.todo = {[o |-> o, row |-> Seen(o)] : o \in {x \in Orders : Open(x)}}]]
    /\ UNCHANGED <<orders, parcels, excused, bounds>>

\* Mutant: any event of the Correios counts as the delivery.
CorreiosEager(s) == IF Reached(s, "posted") THEN {"delivered"} ELSE {"unknown"}

\* What Melhor Envio may say of a shipment; of an attempt, a status that the code
\* does not know, or the one before.
MelhorEnvio(s) ==
    CASE parcels[s].at = "delivered" -> {"delivered"}
      [] parcels[s].at \in {"released", "generated", "posted"} -> {"shipped"}
      [] parcels[s].at = "attempted" -> {"shipped", "unknown"}
      [] OTHER -> {"unknown"}

\* What is made of the last event at the Correios: "entregue" is in "não entregue"
\* as well, and BDE, BDI and BDR are also the codes of attempts, unless the parcel
\* is on its way again.
Correios(s) ==
    CASE parcels[s].at = "delivered" -> {"delivered"}
      [] parcels[s].at = "attempted" -> {"delivered", "shipped"}
      [] parcels[s].at = "posted" -> {"shipped"}
      [] OTHER -> {"unknown"}

\* Melhor Envio first; what it does not know the Correios may.
Answers(row) ==
    LET first == IF row.shipment = NoParcel THEN {"unknown"} ELSE MelhorEnvio(row.shipment)
    IN IF "unknown" \in first /\ row.code # NoParcel
       THEN (first \ {"unknown"}) \cup Correios(row.code) ELSE first

Ask(answer, t) ==
    LET act == answer = "delivered" \/ (answer = "shipped" /\ ~t.row.shipped) IN
    IF act THEN job' = [job EXCEPT ![Sweeper] = [Idle EXCEPT !.at = answer, !.o = t.o,
                                                   !.todo = job[Sweeper].todo \ {t}]]
           ELSE NextRow(job[Sweeper].todo \ {t})

AskCarrier ==
    /\ job[Sweeper].at = "next"
    /\ \E t \in job[Sweeper].todo : \E answer \in Answers(t.row) : Ask(answer, t)
    /\ UNCHANGED <<orders, parcels, excused, bounds>>

\* Errors of the carrier count as "unknown".
AskFails ==
    /\ job[Sweeper].at = "next" /\ Fault
    /\ \E t \in job[Sweeper].todo : Ask("unknown", t)
    /\ UNCHANGED <<orders, parcels, excused>>

-----------------------------------------------------------------------------
(* The staff, and the end of the order elsewhere *)

\* updateStatus: the staff may type the code of a parcel whose label was lost.
UpdateStatus(w, o) ==
    /\ Free(w)
    /\ \E status \in Asked,
          code \in {NoParcel} \cup {s \in Parcels : parcels[s].of = o /\ Reached(s, "generated")} :
         Begin(w, [Idle EXCEPT !.at = "staff", !.o = o, !.status = status, !.code = code])
    /\ UNCHANGED <<orders, parcels, excused>>

StaffWrite(w) ==
    LET j == job[w] IN
    /\ j.at = "staff"
    /\ orders' = [orders EXCEPT ![j.o].status = j.status,
                                ![j.o].code = Fill(@, j.code)]
    /\ Done(w)
    /\ UNCHANGED <<parcels, excused, bounds>>

\* The refund, by the notice of Mercado Pago (module Payments).
Refunded(o) ==
    /\ orders[o].approved
    /\ orders' = [orders EXCEPT ![o].approved = FALSE, ![o].status = "REFUNDED"]
    /\ UNCHANGED <<parcels, job, excused, bounds>>

Crash(w) ==
    /\ job[w].at \notin Buying \cup {"idle"} /\ Fault /\ Done(w)
    /\ UNCHANGED <<orders, parcels, excused>>

-----------------------------------------------------------------------------

Init ==
    /\ orders = [o \in Orders |-> [status |-> "PAID", approved |-> TRUE, shipment |-> NoParcel,
                                   label |-> FALSE, code |-> NoParcel]]
    /\ parcels = [s \in Parcels |-> [of |-> AnyOrder, at |-> "none"]]
    /\ job = [w \in Processes |-> Idle]
    /\ excused = [o \in Orders |-> 0]
    /\ calls = 0 /\ faults = 0

Request(w) ==
    \/ \E o \in Orders : StartLabel(w, o) \/ UpdateStatus(w, o)
    \/ \E s \in Parcels : Webhook(w, s)

Work(w) ==
    \/ Buy(w) \/ Emit(w) \/ StoreLabel(w)
    \/ Link(w) \/ ReadCurrent(w) \/ Mark(w) \/ StaffWrite(w)

Sweep == SelectOpen \/ AskCarrier \/ Work(Sweeper)

Next ==
    \/ \E w \in Workers : Request(w) \/ Work(w) \/ LabelFails(w)
    \/ \E w \in Processes : Crash(w)
    \/ Sweep \/ AskFails
    \/ \E s \in Parcels : Carry(s)
    \/ \E o \in Orders : Refunded(o)

Spec == Init /\ [][Next]_vars

\* The interval comes round and a handler goes on until it ends.
FairSpec == Spec /\ WF_vars(Sweep) /\ \A w \in Workers : WF_vars(Work(w))

-----------------------------------------------------------------------------
(* Properties *)

Paid(o) == {s \in Parcels : parcels[s].of = o /\ Reached(s, "released")}

\* "Idempotente": the store pays for a second label of an order only if a call
\* before failed on its way, brought no PDF, or was still under way.
PaidAgainForCause == \A o \in Orders : Cardinality(Paid(o)) <= 1 + excused[o]

\* "Atualiza status de envio com base em rastreio real": an order that the
\* staff does not mark itself is delivered only if a parcel of it came to the
\* door, where it arrived or was not taken in (the Correios' events do not tell
\* these apart); never by notices that are late, without a code or of another
\* order, nor by what a handler read before.
DeliveredIsReal ==
    "DELIVERED" \in Asked \/
    \A o \in Orders : orders[o].status = "DELIVERED" =>
        \E s \in Parcels : parcels[s].of = o /\ parcels[s].at \in {"attempted", "delivered"}

\* A shipment that is delivered gets its order marked, whatever notices were
\* lost, late or wrote over one another, unless it is cancelled or refunded.
DeliveryNoted ==
    \A o \in Orders, s \in Parcels :
        orders[o].shipment = s /\ parcels[s].at = "delivered"
            ~> Over(o) \/ ~orders[o].approved \/ orders[o].shipment # s
=============================================================================
