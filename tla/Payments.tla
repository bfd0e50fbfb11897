------------------------------ MODULE Payments ------------------------------
(***************************************************************************)
(* The payments service (api/src/payments/payments.service.ts) over the    *)
(* orders of Orders.tla, and the Mercado Pago gateway as the service sees  *)
(* it: a payment has a status that changes on its own, and a webhook says  *)
(* no more than "look at this payment again".                              *)
(***************************************************************************)
EXTENDS Orders

CONSTANT orderOf   \* [Payments -> Orders], the external_reference

ASSUME PaymentsAssumption == orderOf \in [Payments -> Orders]

VARIABLE gateway   \* status of each payment at Mercado Pago

vars == <<orders, stock, usedCount, pc, job, calls, effects, gateway>>

\* "offered": a preference exists, the customer may pay it at any time.
\* "refunded" stands for refunded, charged_back and refunded in full by parts.
GatewayStatus == {"none", "offered", "pending", "approved", "rejected", "refunded"}

-----------------------------------------------------------------------------
(* Mercado Pago *)

Pay(p, from) ==
    /\ gateway[p] = from
    /\ \E s \in {"pending", "approved", "rejected"} \ {from} :
         gateway' = [gateway EXCEPT ![p] = s]
    /\ UNCHANGED ordersVars

CustomerPays(p) == Pay(p, "offered")
Settle(p) == Pay(p, "pending")

\* A refund from the gateway's own panel, or a chargeback.
RefundOutside(p) ==
    /\ "outside" \in Ops
    /\ gateway[p] = "approved"
    /\ gateway' = [gateway EXCEPT ![p] = "refunded"]
    /\ UNCHANGED ordersVars

-----------------------------------------------------------------------------
(* Paying: loadOrderForPay, then the Brick or a preference *)

\* An order already paid is not refused here.
PayCall(w, p) ==
    LET o == orderOf[p]
        j == [NoJob EXCEPT !.subject = o, !.payment = p] IN
    /\ Created(o) /\ gateway[p] = "none"
    /\ orders[o].status # "CANCELLED" /\ orders[o].paymentStatus # "CANCELLED"
    /\ Take(w, "pay", IF Stale(o) THEN "expireOne" ELSE "payPost", j)
    /\ UNCHANGED <<orders, stock, usedCount, effects, gateway>>

\* Expiry on the spot, again by id alone.
ExpireOne(w) ==
    LET o == job[w].subject IN
    /\ pc[w] = "expireOne"
    /\ Update(o, [orders[o] EXCEPT !.status = "CANCELLED",
                                   !.paymentStatus = "CANCELLED"])
    /\ GiveBack(w, {o})
    /\ UNCHANGED <<stock, usedCount, effects, gateway>>

\* What the handler does with a payment it has just read from the gateway.
AfterPayment(status) ==
    CASE status = "approved" -> "fulfillRead"
      [] status = "rejected" -> "writeRejected"
      [] status = "pending"  -> "writePending"
      [] status = "refunded" -> "hookRead"

\* The POST to the gateway: a payment (Brick), a preference, or a refusal.
PayPost(w) ==
    LET p == job[w].payment IN
    /\ pc[w] = "payPost"
    /\ \/ /\ gateway[p] = "none"
          /\ \E s \in {"approved", "pending", "rejected"} :
               /\ gateway' = [gateway EXCEPT ![p] = s]
               /\ Goto(w, AfterPayment(s))
       \/ /\ gateway[p] = "none"
          /\ gateway' = [gateway EXCEPT ![p] = "offered"]
          /\ Finish(w)
       \/ UNCHANGED gateway /\ Finish(w)
    /\ UNCHANGED <<orders, stock, usedCount, effects>>

-----------------------------------------------------------------------------
(* handleWebhook *)

\* The notification is delivered any number of times, at any moment; the
\* status is the one the GET finds, and is acted on later.
Webhook(w, p) ==
    /\ gateway[p] \notin {"none", "offered"} /\ Created(orderOf[p])
    /\ Take(w, "webhook", AfterPayment(gateway[p]),
            [NoJob EXCEPT !.subject = orderOf[p], !.payment = p])
    /\ UNCHANGED <<orders, stock, usedCount, effects, gateway>>

Refunded(row) == row.status = "REFUNDED" \/ row.paymentStatus = "REFUNDED"

\* matchOrder reads the order; wasRefunded comes from this read.
HookRead(w) ==
    /\ pc[w] = "hookRead"
    /\ Move(w, "hookRefund",
            [job[w] EXCEPT !.changed = ~Refunded(orders[job[w].subject])])
    /\ UNCHANGED <<orders, stock, usedCount, effects, gateway>>

AsRefunded(row) ==
    [row EXCEPT !.status = "REFUNDED", !.paymentStatus = "REFUNDED",
                !.refundStatus = "APPROVED"]

HookRefund(w) ==
    LET o == job[w].subject IN
    /\ pc[w] = "hookRefund"
    /\ Update(o, WithPayment(AsRefunded(orders[o]), job[w].payment))
    /\ IF job[w].changed THEN GiveBack(w, {o})
       ELSE Finish(w)
    /\ UNCHANGED <<stock, usedCount, effects, gateway>>

\* Not approved: the webhook and the Brick write the same two columns by id.
WriteUnpaid(w, l, status) ==
    LET o == job[w].subject IN
    /\ pc[w] = l
    /\ Update(o, [orders[o] EXCEPT !.mpPaymentId = job[w].payment,
                                   !.paymentStatus = status])
    /\ Finish(w)
    /\ UNCHANGED <<stock, usedCount, effects, gateway>>

WriteRejected(w) == WriteUnpaid(w, "writeRejected", "REJECTED")
WritePending(w) == WriteUnpaid(w, "writePending", "PENDING")

-----------------------------------------------------------------------------
(* approveRefund and refundOrder *)

\* Mutant: the money goes back without waiting for the goods.
ApproveAtOnce(w, o) ==
    /\ Created(o)
    /\ Take(w, "refund", "refundRead", [NoJob EXCEPT !.subject = o])
    /\ UNCHANGED <<orders, stock, usedCount, effects, gateway>>

\* With a reason that asks for the goods back, only the return is authorised.
ApproveRefund(w, o) ==
    /\ Created(o)
    /\ Take(w, "refund",
            IF NeedsReturn(orders[o].refundReasonType) /\ ~orders[o].returnReceivedAt
            THEN "pendingRead" ELSE "refundRead",
            [NoJob EXCEPT !.subject = o])
    /\ UNCHANGED <<orders, stock, usedCount, effects, gateway>>

RefundRead(w) ==
    LET row == orders[job[w].subject] IN
    /\ pc[w] = "refundRead"
    /\ IF Refunded(row) \/ row.mpPaymentId = NoPayment THEN Finish(w)
       ELSE Move(w, "refundPost",
                 [job[w] EXCEPT !.payment = row.mpPaymentId])
    /\ UNCHANGED <<orders, stock, usedCount, effects, gateway>>

\* Mutant: the gateway's refusal is not noticed.
RefundPostUnchecked(w) ==
    /\ pc[w] = "refundPost"
    /\ \/ /\ gateway[job[w].payment] \in {"approved", "refunded"}
          /\ gateway' = [gateway EXCEPT ![job[w].payment] = "refunded"]
       \/ UNCHANGED gateway
    /\ Goto(w, "refundWrite")
    /\ UNCHANGED <<orders, stock, usedCount, effects>>

\* The POST carries the key refund-<order>: sent twice it answers with the
\* refund already made.  The gateway may also refuse.
RefundPost(w) ==
    LET p == job[w].payment IN
    /\ pc[w] = "refundPost"
    /\ \/ /\ gateway[p] \in {"approved", "refunded"}
          /\ gateway' = [gateway EXCEPT ![p] = "refunded"]
          /\ Goto(w, "refundWrite")
       \/ UNCHANGED gateway /\ Finish(w)
    /\ UNCHANGED <<orders, stock, usedCount, effects>>

\* Stock goes back only when the row just written says the goods are here;
\* the coupon always does.
RefundWrite(w) ==
    LET o == job[w].subject IN
    /\ pc[w] = "refundWrite"
    /\ Update(o, AsRefunded(orders[o]))
    /\ IF GoesBackToShelf(orders[o]) THEN GiveBack(w, {o})
       ELSE Move(w, "claimCoupon",
                 [job[w] EXCEPT !.todo = {o}, !.order = o])
    /\ UNCHANGED <<stock, usedCount, effects, gateway>>

-----------------------------------------------------------------------------

Init == OrdersInit /\ gateway = [p \in Payments |-> "none"]

PaymentsCall(w) ==
    \/ \E p \in Payments : PayCall(w, p) \/ Webhook(w, p)
    \/ \E o \in Orders : ApproveRefund(w, o)

PaymentsStep(w) ==
    \/ ExpireOne(w) \/ PayPost(w) \/ HookRead(w) \/ HookRefund(w)
    \/ WriteRejected(w) \/ WritePending(w)
    \/ RefundRead(w) \/ RefundPost(w) \/ RefundWrite(w)

\* A handler that is under way does its next statement.
Step(w) == (OrdersStep(w) /\ UNCHANGED gateway) \/ PaymentsStep(w)

Next ==
    \/ \E w \in Workers :
         \/ Step(w)
         \/ (OrdersCall(w) \/ OrdersFailure(w)) /\ UNCHANGED gateway
         \/ PaymentsCall(w)
    \/ \E o \in Orders :
         (Create(o) \/ Age(o) \/ WindowCloses(o)) /\ UNCHANGED gateway
    \/ \E p \in Payments : CustomerPays(p) \/ Settle(p) \/ RefundOutside(p)

Spec == Init /\ [][Next]_vars

\* A handler that started goes on (the Node process runs), and the sweeper
\* comes round every five minutes on some worker.
Fairness ==
    /\ \A w \in Workers : WF_vars(Step(w))
    /\ WF_vars(\E w \in Workers : Sweep(w) /\ UNCHANGED gateway)

FairSpec == Spec /\ Fairness

TypeOK == OrdersTypeOK /\ gateway \in [Payments -> GatewayStatus]
=============================================================================
