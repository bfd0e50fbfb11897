------------------------------- MODULE Orders -------------------------------
(***************************************************************************)
(* The orders service (api/src/orders/orders.service.ts) with the stock    *)
(* and the coupon it reserves.                                             *)
(*                                                                         *)
(* Each request, webhook or sweep runs in a worker.  Between two `await`s  *)
(* on the database any other worker may run, so a worker has a program     *)
(* counter and an action is ONE statement or ONE $transaction.  What a     *)
(* handler read before and uses later is kept in its job.                  *)
(*                                                                         *)
(* Abstractions: an item is one unit of a product; prices, addresses and   *)
(* mail are left out; the clock is the flag `aged` (older than the one     *)
(* hour of UNPAID_ORDER_TTL_MS) and the three values of deliveredAt.       *)
(***************************************************************************)
EXTENDS Integers, FiniteSets

CONSTANTS
    Orders,        \* orders that may be created
    Products,      \* products of the store
    Workers,       \* concurrent handlers (requests, webhooks, the sweeper)
    Payments,      \* payments the gateway may hold
    NoOrder,       \* "no order" in a job
    NoPayment,     \* mpPaymentId = null
    items,         \* [Orders -> SUBSET Products], what each order buys
    initialStock,  \* [Products -> Nat]
    withCoupon,    \* orders whose checkout carries the coupon
    maxUses,       \* the coupon's maxUses
    Ops,           \* operations the environment may call
    Asked,         \* statuses the store's staff asks for
    MaxCalls       \* bound on the calls of the environment

OrderStatus == {"PENDING", "PAID", "PROCESSING", "SHIPPED", "DELIVERED",
                "CANCELLED", "REFUNDED"}

ASSUME OrdersAssumption ==
    /\ IsFiniteSet(Orders) /\ IsFiniteSet(Workers)
    /\ NoOrder \notin Orders /\ NoPayment \notin Payments
    /\ items \in [Orders -> SUBSET Products]
    /\ initialStock \in [Products -> Nat]
    /\ withCoupon \subseteq Orders
    /\ Asked \subseteq OrderStatus
    /\ maxUses \in Nat /\ MaxCalls \in Nat

VARIABLES
    orders,     \* the Order table
    stock,      \* Product.stock
    usedCount,  \* Coupon.usedCount
    pc, job,    \* per worker: next statement, and what it remembers
    calls,      \* calls the environment has made (bound)
    effects     \* history: times an order's "first approval" effects fired

ordersVars == <<orders, stock, usedCount, pc, job, calls, effects>>

-----------------------------------------------------------------------------
(* Data *)

PaymentStatus == {"PENDING", "APPROVED", "REJECTED", "REFUNDED", "CANCELLED"}
RefundStatus == {"NONE", "REQUESTED", "RETURN_PENDING", "APPROVED", "REJECTED"}
RefundReasons == {"ARREPENDIMENTO", "DEFEITO", "NAO_RECEBI", "OUTRO"}

Status == OrderStatus \cup {"ABSENT"}    \* ABSENT: no such row yet

Row == [status           : Status,
        paymentStatus    : PaymentStatus,
        stockReserved    : BOOLEAN,
        couponReserved   : BOOLEAN,
        mpPaymentId      : Payments \cup {NoPayment},
        paidAt           : BOOLEAN,
        shippedAt        : BOOLEAN,
        deliveredAt      : {"NO", "RECENT", "LATE"},  \* LATE: over 7 days ago
        refundStatus     : RefundStatus,
        refundReasonType : RefundReasons \cup {"NONE"},
        returnReceivedAt : BOOLEAN,
        aged             : BOOLEAN]

Absent == [status |-> "ABSENT", paymentStatus |-> "PENDING",
           stockReserved |-> FALSE, couponReserved |-> FALSE,
           mpPaymentId |-> NoPayment, paidAt |-> FALSE, shippedAt |-> FALSE,
           deliveredAt |-> "NO", refundStatus |-> "NONE",
           refundReasonType |-> "NONE", returnReceivedAt |-> FALSE,
           aged |-> FALSE]

PC == {"idle", "expire", "expireOne", "claimStock", "returnStock",
       "claimCoupon", "releaseCoupon", "fulfillRead", "revive",
       "markApproved", "fulfillStatus", "fulfillClaim", "recordPayment",
       "adminWrite", "confirmRead", "confirmWrite", "requestRead",
       "requestWrite", "rejectWrite", "pendingRead", "pendingWrite",
       "receivedWrite", "refundRead", "refundPost",
       "refundWrite", "payPost", "hookRead", "hookRefund", "writeRejected",
       "writePending"}

Job == [subject : Orders \cup {NoOrder},       \* the order the call is about
        order   : Orders \cup {NoOrder},       \* the order being given back
        todo    : SUBSET Orders,               \* orders still to give back
        payment : Payments \cup {NoPayment},   \* the gateway payment
        status  : Status,                      \* a status read or requested
        changed : BOOLEAN,                     \* the guard of a give-back
        next    : {"idle", "confirmRead", "requestRead"},
        reason  : RefundReasons \cup {"NONE"},
        lenient : BOOLEAN]                     \* .catch(() => undefined)

NoJob == [subject |-> NoOrder, order |-> NoOrder, todo |-> {},
          payment |-> NoPayment, status |-> "PENDING", changed |-> FALSE,
          next |-> "idle", reason |-> "NONE", lenient |-> FALSE]

-----------------------------------------------------------------------------
(* Workers *)

Created(o) == orders[o].status # "ABSENT"

\* Worker w, idle, takes a call of the environment and stops before label l.
Take(w, op, l, j) ==
    /\ op \in Ops /\ calls < MaxCalls /\ pc[w] = "idle"
    /\ calls' = calls + 1
    /\ pc' = [pc EXCEPT ![w] = l]
    /\ job' = [job EXCEPT ![w] = j]

\* Worker w goes on to label m, remembering j.
Move(w, m, j) ==
    /\ pc' = [pc EXCEPT ![w] = m]
    /\ job' = [job EXCEPT ![w] = j]
    /\ UNCHANGED calls

Goto(w, m) == Move(w, m, job[w])
Finish(w) == Move(w, "idle", NoJob)

\* The end of the give-back of one order: the next one, or what comes after.
NextOrder(w) ==
    LET rest == job[w].todo \ {job[w].order} IN
    IF rest # {} THEN Move(w, "claimStock", [job[w] EXCEPT !.todo = rest])
    ELSE IF job[w].next = "idle" THEN Finish(w)
    ELSE Move(w, job[w].next, [job[w] EXCEPT !.todo = {}, !.order = NoOrder])

Update(o, row) == orders' = [orders EXCEPT ![o] = row]

-----------------------------------------------------------------------------
(* Stock and coupon *)

\* Mutant: the decrement without its `stock >= quantity` condition.
CanReserveUnchecked(o) == o \in Orders

\* reserveStock: conditional decrements in one transaction, all or nothing.
CanReserve(o) == \A p \in items[o] : stock[p] >= 1
ReserveStock(o) ==
    stock' = [p \in Products |-> IF p \in items[o] THEN stock[p] - 1 ELSE stock[p]]

\* create: the reservation, the coupon use and the row are one transaction.
Create(o) ==
    /\ "create" \in Ops
    /\ ~Created(o)
    /\ CanReserve(o)
    /\ o \in withCoupon => usedCount < maxUses
    /\ ReserveStock(o)
    /\ usedCount' = IF o \in withCoupon THEN usedCount + 1 ELSE usedCount
    /\ Update(o, [Absent EXCEPT !.status = "PENDING", !.stockReserved = TRUE,
                                !.couponReserved = (o \in withCoupon)])
    /\ UNCHANGED <<pc, job, calls, effects>>

\* Mutant: the flag is tested but not cleared by the same UPDATE.
ClaimStockUncleared(w) ==
    /\ pc[w] = "claimStock"
    /\ \E o \in job[w].todo :
         Move(w, IF orders[o].stockReserved THEN "returnStock" ELSE "claimCoupon",
              [job[w] EXCEPT !.order = o])
    /\ UNCHANGED <<orders, stock, usedCount, effects>>

\* restockOrderItems, first statement: whoever clears the flag gives back.
ClaimStock(w) ==
    /\ pc[w] = "claimStock"
    /\ \E o \in job[w].todo :
         LET j == [job[w] EXCEPT !.order = o] IN
         IF orders[o].stockReserved
         THEN /\ Update(o, [orders[o] EXCEPT !.stockReserved = FALSE])
              /\ Move(w, "returnStock", j)
         ELSE /\ UNCHANGED orders
              /\ Move(w, "claimCoupon", j)
    /\ UNCHANGED <<stock, usedCount, effects>>

\* restockOrderItems, its transaction: the units go back to the shelf.
ReturnStock(w) ==
    /\ pc[w] = "returnStock"
    /\ Goto(w, "claimCoupon")
    /\ stock' = [p \in Products |-> IF p \in items[job[w].order]
                                    THEN stock[p] + 1 ELSE stock[p]]
    /\ UNCHANGED <<orders, usedCount, effects>>

\* Mutant: the use is released without clearing couponReserved.
ClaimCouponUncleared(w) ==
    /\ pc[w] = "claimCoupon"
    /\ IF orders[job[w].order].couponReserved
       THEN Goto(w, "releaseCoupon") ELSE NextOrder(w)
    /\ UNCHANGED <<orders, stock, usedCount, effects>>

\* releaseOrderCoupon, first statement.
ClaimCoupon(w) ==
    LET o == job[w].order IN
    /\ pc[w] = "claimCoupon"
    /\ IF orders[o].couponReserved
       THEN /\ Update(o, [orders[o] EXCEPT !.couponReserved = FALSE])
            /\ Goto(w, "releaseCoupon")
       ELSE UNCHANGED orders /\ NextOrder(w)
    /\ UNCHANGED <<stock, usedCount, effects>>

\* releaseUsage.
ReleaseCoupon(w) ==
    /\ pc[w] = "releaseCoupon"
    /\ NextOrder(w)
    /\ usedCount' = IF usedCount > 0 THEN usedCount - 1 ELSE usedCount
    /\ UNCHANGED <<orders, stock, effects>>

\* Mutant: the write that ends the order forgets the give-back.
GiveNothingBack(w, S) == S # {} /\ Finish(w)

\* After a write that ends an order: give back stock and coupon, then go on.
GiveBack(w, S) == Move(w, "claimStock", [job[w] EXCEPT !.todo = S])

-----------------------------------------------------------------------------
(* Expiry of abandoned orders *)

\* Mutant: age is all that is looked at.
StaleByAge(o) == Created(o) /\ orders[o].aged

Stale(o) == /\ orders[o].status = "PENDING"
            /\ orders[o].paymentStatus = "PENDING"
            /\ orders[o].aged

\* expireAbandonedUnpaidOrders: the SELECT.  No stale order, nothing to do.
Sweep(w) ==
    /\ "sweep" \in Ops
    /\ pc[w] = "idle" /\ \E o \in Orders : Stale(o)
    /\ pc' = [pc EXCEPT ![w] = "expire"]
    /\ job' = [job EXCEPT ![w] = [NoJob EXCEPT !.todo = {o \in Orders : Stale(o)}]]
    /\ UNCHANGED <<orders, stock, usedCount, calls, effects>>

\* getForCustomer sweeps first, then reads the order for `next`.
SweepThen(w, op, o, next, reason) ==
    LET j == [NoJob EXCEPT !.subject = o, !.next = next, !.reason = reason,
                           !.todo = {x \in Orders : Stale(x)}] IN
    Take(w, op, IF j.todo = {} THEN next ELSE "expire", j)

\* The UPDATE goes by id alone: it does not look at the status again.
Expire(w) ==
    /\ pc[w] = "expire"
    /\ orders' = [o \in Orders |-> IF o \in job[w].todo
                    THEN [orders[o] EXCEPT !.status = "CANCELLED",
                                           !.paymentStatus = "CANCELLED"]
                    ELSE orders[o]]
    /\ GiveBack(w, job[w].todo)
    /\ UNCHANGED <<stock, usedCount, effects>>

-----------------------------------------------------------------------------
(* fulfillPaidOrder *)

FulfillRead(w) ==
    LET row == orders[job[w].subject] IN
    /\ pc[w] = "fulfillRead"
    /\ Goto(w, IF row.status = "CANCELLED" /\ ~row.stockReserved
            THEN "revive" ELSE "fulfillStatus")
    /\ UNCHANGED <<orders, stock, usedCount, effects>>

\* Mutant: the order is marked as holding stock, but none is taken.
ReviveWithoutUnits(w) ==
    LET o == job[w].subject IN
    /\ pc[w] = "revive"
    /\ Update(o, [orders[o] EXCEPT !.stockReserved = TRUE, !.status = "PENDING",
                                   !.paymentStatus = "PENDING"])
    /\ Goto(w, "fulfillStatus")
    /\ UNCHANGED <<stock, usedCount, effects>>

\* Mutant: the units are taken, but the order is not marked.
ReviveUnmarked(w) ==
    LET o == job[w].subject IN
    /\ pc[w] = "revive" /\ CanReserve(o) /\ ReserveStock(o)
    /\ Update(o, [orders[o] EXCEPT !.status = "PENDING", !.paymentStatus = "PENDING"])
    /\ Goto(w, "fulfillStatus")
    /\ UNCHANGED <<usedCount, effects>>

\* tryReviveCancelledOrder: reserve again, or leave the order cancelled; any
\* error of the transaction is taken for missing units.
Revive(w) ==
    LET o == job[w].subject IN
    /\ pc[w] = "revive"
    /\ \/ /\ CanReserve(o) /\ ReserveStock(o)
          /\ Update(o, [orders[o] EXCEPT !.stockReserved = TRUE,
                                         !.status = "PENDING",
                                         !.paymentStatus = "PENDING"])
          /\ Goto(w, "fulfillStatus")
       \/ /\ ~CanReserve(o) \/ "crash" \in Ops
          /\ UNCHANGED <<orders, stock>>
          /\ Goto(w, "markApproved")
    /\ UNCHANGED <<usedCount, effects>>

WithPayment(row, p) ==
    IF p = NoPayment THEN row ELSE [row EXCEPT !.mpPaymentId = p]

\* No stock to revive with: only the payment is recorded.
MarkApproved(w) ==
    LET o == job[w].subject IN
    /\ pc[w] = "markApproved"
    /\ Update(o, [WithPayment(orders[o], job[w].payment)
                    EXCEPT !.paymentStatus = "APPROVED"])
    /\ Finish(w)
    /\ UNCHANGED <<stock, usedCount, effects>>

FulfillStatus(w) ==
    LET status == orders[job[w].subject].status IN
    /\ pc[w] = "fulfillStatus"
    /\ Move(w, "fulfillClaim",
            [job[w] EXCEPT !.status = IF status = "PENDING" THEN "PAID" ELSE status])
    /\ UNCHANGED <<orders, stock, usedCount, effects>>

\* Mutant: paidAt is not looked at.
NotApproved(row) == row.paymentStatus # "APPROVED"

FirstApproval(row) == row.paymentStatus # "APPROVED" /\ ~row.paidAt

\* The conditional UPDATE; its winner sends mail, prints, invoices, labels.
FulfillClaim(w) ==
    LET o == job[w].subject IN
    /\ pc[w] = "fulfillClaim"
    /\ IF FirstApproval(orders[o])
       THEN /\ Update(o, [WithPayment(orders[o], job[w].payment)
                            EXCEPT !.paymentStatus = "APPROVED",
                                   !.status = job[w].status, !.paidAt = TRUE])
            /\ effects' = [effects EXCEPT ![o] = @ + 1]
            /\ Finish(w)
       ELSE /\ UNCHANGED <<orders, effects>>
            /\ IF job[w].payment = NoPayment THEN Finish(w)
               ELSE Goto(w, "recordPayment")
    /\ UNCHANGED <<stock, usedCount>>

RecordPayment(w) ==
    LET o == job[w].subject IN
    /\ pc[w] = "recordPayment"
    /\ Finish(w)
    /\ Update(o, IF orders[o].mpPaymentId = NoPayment
                 THEN WithPayment(orders[o], job[w].payment) ELSE orders[o])
    /\ UNCHANGED <<stock, usedCount, effects>>

-----------------------------------------------------------------------------
(* Status changes by the store's staff and by the customer *)

AlreadyPaid(row) ==
    \/ row.paymentStatus = "APPROVED"
    \/ row.status \in {"PAID", "PROCESSING", "SHIPPED", "DELIVERED"}

\* updateStatus: what it reads decides what it refuses and what it gives back.
AdminStatus(w, o, status) ==
    /\ Created(o)
    /\ status # "REFUNDED"
    /\ ~(status = "PENDING" /\ AlreadyPaid(orders[o]))
    /\ LET j == [NoJob EXCEPT !.subject = o, !.status = status,
                              !.changed = (orders[o].status # status)] IN
       Take(w, "status",
            IF status = "PAID" /\ orders[o].paymentStatus # "APPROVED"
            THEN "fulfillRead" ELSE "adminWrite", j)
    /\ UNCHANGED <<orders, stock, usedCount, effects>>

WithStatus(row, status) ==
    [row EXCEPT !.status = status,
                !.shippedAt = @ \/ status \in {"SHIPPED", "DELIVERED"},
                !.deliveredAt = IF status = "DELIVERED" THEN "RECENT" ELSE @]

AdminWrite(w) ==
    LET o == job[w].subject IN
    /\ pc[w] = "adminWrite"
    /\ Update(o, WithStatus(orders[o], job[w].status))
    /\ IF job[w].status = "CANCELLED" /\ job[w].changed
       THEN GiveBack(w, {o}) ELSE Finish(w)
    /\ UNCHANGED <<stock, usedCount, effects>>

\* bulkUpdateStatus: one conditional UPDATE for all the rows.
BulkApplies(row, status) ==
    /\ status = "DELIVERED" => row.status \in {"PAID", "PROCESSING", "SHIPPED"}
    /\ status = "SHIPPED" => /\ row.status \in {"PAID", "PROCESSING"}
                             /\ row.paymentStatus = "APPROVED"

\* Unlike updateStatus, DELIVERED in bulk writes no date.
BulkStatus(w, S, status) ==
    /\ S # {} /\ \A o \in S : Created(o)
    /\ status \notin {"PENDING", "REFUNDED"}
    /\ orders' = [o \in Orders |->
         IF o \in S /\ BulkApplies(orders[o], status)
         THEN [orders[o] EXCEPT !.status = status,
                                !.shippedAt = @ \/ status = "SHIPPED"]
         ELSE orders[o]]
    /\ IF status = "CANCELLED"
       THEN Take(w, "bulk", "claimStock", [NoJob EXCEPT !.todo = S, !.lenient = TRUE])
       ELSE Take(w, "bulk", "idle", NoJob)
    /\ UNCHANGED <<stock, usedCount, effects>>

\* confirmDeliveredByCustomer: sweep, read and check, then write by id.
ConfirmDelivered(w, o) ==
    /\ Created(o) /\ SweepThen(w, "confirm", o, "confirmRead", "NONE")
    /\ UNCHANGED <<orders, stock, usedCount, effects>>

ConfirmRead(w) ==
    LET row == orders[job[w].subject] IN
    /\ pc[w] = "confirmRead"
    /\ IF row.paymentStatus = "APPROVED" /\ row.status \in {"PAID", "PROCESSING", "SHIPPED"}
       THEN Goto(w, "confirmWrite") ELSE Finish(w)
    /\ UNCHANGED <<orders, stock, usedCount, effects>>

ConfirmWrite(w) ==
    LET o == job[w].subject IN
    /\ pc[w] = "confirmWrite"
    /\ Update(o, WithStatus(orders[o], "DELIVERED"))
    /\ Finish(w)
    /\ UNCHANGED <<stock, usedCount, effects>>

-----------------------------------------------------------------------------
(* Refund requests and returns *)

NeedsReturn(reason) == reason \in {"ARREPENDIMENTO", "DEFEITO"}

\* dentroDoPrazoArrependimento: the 7 days only start with the delivery.
WithinWindow(row) == row.deliveredAt # "LATE"

\* podeRecusarPedido.
MayReject(row) == row.refundReasonType = "ARREPENDIMENTO" => ~WithinWindow(row)

\* deveDevolverEstoque.
GoesBackToShelf(row) ==
    \/ row.returnReceivedAt
    \/ row.refundReasonType # "NAO_RECEBI" /\ ~row.shippedAt

\* requestRefund: sweep, read and check, then write by id.
RequestRefund(w, o, reason) ==
    /\ Created(o) /\ SweepThen(w, "request", o, "requestRead", reason)
    /\ UNCHANGED <<orders, stock, usedCount, effects>>

MayRequest(row, reason) ==
    /\ row.paymentStatus = "APPROVED" /\ row.status # "REFUNDED"
    /\ row.refundStatus \in {"NONE", "REJECTED"}
    /\ reason = "ARREPENDIMENTO" => WithinWindow(row)

RequestRead(w) ==
    /\ pc[w] = "requestRead"
    /\ IF MayRequest(orders[job[w].subject], job[w].reason)
       THEN Goto(w, "requestWrite") ELSE Finish(w)
    /\ UNCHANGED <<orders, stock, usedCount, effects>>

RequestWrite(w) ==
    LET o == job[w].subject IN
    /\ pc[w] = "requestWrite"
    /\ Update(o, [orders[o] EXCEPT !.refundStatus = "REQUESTED",
                                   !.refundReasonType = job[w].reason])
    /\ Finish(w)
    /\ UNCHANGED <<stock, usedCount, effects>>

RejectRefund(w, o) ==
    /\ Created(o)
    /\ orders[o].refundStatus = "REQUESTED" /\ MayReject(orders[o])
    /\ Take(w, "reject", "rejectWrite", [NoJob EXCEPT !.subject = o])
    /\ UNCHANGED <<orders, stock, usedCount, effects>>

RejectWrite(w) ==
    LET o == job[w].subject IN
    /\ pc[w] = "rejectWrite"
    /\ Update(o, [orders[o] EXCEPT !.refundStatus = "REJECTED"])
    /\ Finish(w)
    /\ UNCHANGED <<stock, usedCount, effects>>

\* markReturnPending, reached from approveRefund.
PendingRead(w) ==
    /\ pc[w] = "pendingRead"
    /\ IF orders[job[w].subject].refundStatus = "REQUESTED"
       THEN Goto(w, "pendingWrite") ELSE Finish(w)
    /\ UNCHANGED <<orders, stock, usedCount, effects>>

PendingWrite(w) ==
    LET o == job[w].subject IN
    /\ pc[w] = "pendingWrite"
    /\ Update(o, [orders[o] EXCEPT !.refundStatus = "RETURN_PENDING"])
    /\ Finish(w)
    /\ UNCHANGED <<stock, usedCount, effects>>

\* markReturnReceived, the first half of confirmReturnAndRefund.
ReturnReceived(w, o) ==
    /\ Created(o)
    /\ orders[o].refundStatus = "RETURN_PENDING"
    /\ Take(w, "received", "receivedWrite", [NoJob EXCEPT !.subject = o])
    /\ UNCHANGED <<orders, stock, usedCount, effects>>

ReceivedWrite(w) ==
    LET o == job[w].subject IN
    /\ pc[w] = "receivedWrite"
    /\ Update(o, [orders[o] EXCEPT !.returnReceivedAt = TRUE])
    /\ Goto(w, "refundRead")
    /\ UNCHANGED <<stock, usedCount, effects>>

-----------------------------------------------------------------------------
(* Time and failure *)

\* The order passes the age of one hour.
Age(o) ==
    /\ "sweep" \in Ops
    /\ Created(o) /\ ~orders[o].aged
    /\ Update(o, [orders[o] EXCEPT !.aged = TRUE])
    /\ UNCHANGED <<stock, usedCount, pc, job, calls, effects>>

\* Seven days pass since the delivery.
WindowCloses(o) ==
    /\ "request" \in Ops
    /\ orders[o].deliveredAt = "RECENT"
    /\ Update(o, [orders[o] EXCEPT !.deliveredAt = "LATE"])
    /\ UNCHANGED <<stock, usedCount, pc, job, calls, effects>>

\* The process dies, or the statement throws: the rest of the handler is lost.
Crash(w) ==
    /\ "crash" \in Ops /\ pc[w] # "idle"
    /\ pc' = [pc EXCEPT ![w] = "idle"]
    /\ job' = [job EXCEPT ![w] = NoJob]
    /\ UNCHANGED <<orders, stock, usedCount, calls, effects>>

\* The sweep's try/catch, when it runs at the start of another handler.
SweepFails(w) ==
    /\ "crash" \in Ops
    /\ job[w].next # "idle"
    /\ pc[w] \in {"expire", "claimStock", "returnStock", "claimCoupon", "releaseCoupon"}
    /\ pc' = [pc EXCEPT ![w] = job[w].next]
    /\ job' = [job EXCEPT ![w] = [@ EXCEPT !.todo = {}, !.order = NoOrder]]
    /\ UNCHANGED <<orders, stock, usedCount, calls, effects>>

\* bulkUpdateStatus swallows the error of a statement and goes on with the
\* coupon, or with the next order.
BulkFails(w) ==
    /\ "crash" \in Ops
    /\ job[w].lenient
    /\ \/ /\ pc[w] = "claimStock"
          /\ \E o \in job[w].todo : Move(w, "claimCoupon", [job[w] EXCEPT !.order = o])
       \/ pc[w] = "returnStock" /\ Goto(w, "claimCoupon")
       \/ pc[w] \in {"claimCoupon", "releaseCoupon"} /\ NextOrder(w)
    /\ UNCHANGED <<orders, stock, usedCount, effects>>

-----------------------------------------------------------------------------

OrdersInit ==
    /\ orders = [o \in Orders |-> Absent]
    /\ stock = initialStock
    /\ usedCount = 0
    /\ pc = [w \in Workers |-> "idle"]
    /\ job = [w \in Workers |-> NoJob]
    /\ calls = 0
    /\ effects = [o \in Orders |-> 0]

\* What a call of the environment may start.
OrdersCall(w) ==
    \/ Sweep(w)
    \/ \E o \in Orders :
         \/ \E s \in Asked : AdminStatus(w, o, s)
         \/ ConfirmDelivered(w, o)
         \/ \E r \in RefundReasons : RequestRefund(w, o, r)
         \/ RejectRefund(w, o)
         \/ ReturnReceived(w, o)
    \/ \E S \in SUBSET Orders, s \in Asked : BulkStatus(w, S, s)

GiveBackStep(w) ==
    ClaimStock(w) \/ ReturnStock(w) \/ ClaimCoupon(w) \/ ReleaseCoupon(w)

FulfillStep(w) ==
    \/ FulfillRead(w) \/ Revive(w) \/ MarkApproved(w)
    \/ FulfillStatus(w) \/ FulfillClaim(w) \/ RecordPayment(w)

\* The next statement of a handler of this module that is under way.
OrdersStep(w) ==
    \/ Expire(w) \/ GiveBackStep(w) \/ FulfillStep(w)
    \/ AdminWrite(w) \/ ConfirmRead(w) \/ ConfirmWrite(w)
    \/ RequestRead(w) \/ RequestWrite(w) \/ RejectWrite(w)
    \/ PendingRead(w) \/ PendingWrite(w) \/ ReceivedWrite(w)

OrdersFailure(w) == Crash(w) \/ SweepFails(w) \/ BulkFails(w)

OrdersTypeOK ==
    /\ orders \in [Orders -> Row]
    /\ stock \in [Products -> Nat]
    /\ usedCount \in Nat
    /\ pc \in [Workers -> PC]
    /\ job \in [Workers -> Job]
    /\ calls \in Nat
    /\ effects \in [Orders -> Nat]
=============================================================================
