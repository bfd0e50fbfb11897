---------------------------- MODULE OrderProofs -----------------------------
(***************************************************************************)
(* Safety of the order and payment handlers for every number of orders,    *)
(* products, workers and payments.                                         *)
(*                                                                         *)
(* Most statements neither move units nor coupon uses nor fire effects:    *)
(* Quiet says what those leave alone, and each theorem then looks only at  *)
(* the few statements that are not quiet.                                  *)
(*                                                                         *)
(* Typing comes first: every other proof rests on it.                      *)
(***************************************************************************)
EXTENDS OrderGuarantees, FiniteSetTheorems, TLAPS

-----------------------------------------------------------------------------
(* Typing *)

WithSubject == {"expireOne", "fulfillRead", "revive", "markApproved",
    "fulfillStatus", "fulfillClaim", "recordPayment", "adminWrite",
    "confirmRead", "confirmWrite", "requestRead", "requestWrite",
    "rejectWrite", "pendingRead", "pendingWrite", "receivedWrite",
    "refundRead", "refundPost", "refundWrite", "payPost", "hookRead",
    "hookRefund", "writeRejected", "writePending"}
WithOrder == {"returnStock", "claimCoupon", "releaseCoupon"}

\* A handler that is about to touch an order has one.
Grounded ==
    \A w \in Workers :
        /\ pc[w] \in WithSubject => job[w].subject \in Orders
        /\ job[w].next # "idle" => job[w].subject \in Orders
        /\ pc[w] \in WithOrder => job[w].order \in Orders

Typed == TypeOK /\ Grounded

LEMMA TakeTyped ==
    ASSUME Typed, NEW w \in Workers, NEW op, NEW l \in PC, NEW j \in Job,
           l \in WithSubject \/ j.next # "idle" => j.subject \in Orders,
           l \notin WithOrder,
           Take(w, op, l, j)
    PROVE  /\ pc' \in [Workers -> PC] /\ job' \in [Workers -> Job]
           /\ calls' \in Nat /\ Grounded'
  BY DEF Take, Typed, TypeOK, OrdersTypeOK, Grounded

LEMMA MoveTyped ==
    ASSUME Typed, NEW w \in Workers, NEW l \in PC, NEW j \in Job,
           l \in WithSubject \/ j.next # "idle" => j.subject \in Orders,
           l \in WithOrder => j.order \in Orders,
           Move(w, l, j)
    PROVE  /\ pc' \in [Workers -> PC] /\ job' \in [Workers -> Job]
           /\ calls' \in Nat /\ Grounded'
  BY DEF Move, Typed, TypeOK, OrdersTypeOK, Grounded

LEMMA FinishTyped ==
    ASSUME Typed, NEW w \in Workers, Finish(w)
    PROVE  /\ pc' \in [Workers -> PC] /\ job' \in [Workers -> Job]
           /\ calls' \in Nat /\ Grounded'
  <1>1. NoJob \in Job /\ NoJob.next = "idle"
    BY DEF NoJob, Job, Status, OrderStatus
  <1>2. "idle" \in PC /\ "idle" \notin WithSubject /\ "idle" \notin WithOrder
    BY DEF PC, WithSubject, WithOrder
  <1> QED
    BY <1>1, <1>2, MoveTyped DEF Finish

LEMMA GotoTyped ==
    ASSUME Typed, NEW w \in Workers, NEW l \in PC, Goto(w, l),
           l \in WithSubject => job[w].subject \in Orders,
           l \in WithOrder => job[w].order \in Orders
    PROVE  /\ pc' \in [Workers -> PC] /\ job' \in [Workers -> Job]
           /\ calls' \in Nat /\ Grounded'
  BY MoveTyped DEF Goto, Typed, TypeOK, OrdersTypeOK, Grounded

LEMMA GiveBackTyped ==
    ASSUME Typed, NEW w \in Workers, NEW S \in SUBSET Orders, GiveBack(w, S)
    PROVE  /\ pc' \in [Workers -> PC] /\ job' \in [Workers -> Job]
           /\ calls' \in Nat /\ Grounded'
  <1> DEFINE j == [job[w] EXCEPT !.todo = S]
  <1>1. j \in Job /\ j.subject = job[w].subject /\ j.next = job[w].next
    BY DEF Typed, TypeOK, OrdersTypeOK, Job
  <1>2. /\ "claimStock" \in PC
        /\ "claimStock" \notin WithSubject /\ "claimStock" \notin WithOrder
    BY DEF PC, WithSubject, WithOrder
  <1>3. j.next # "idle" => j.subject \in Orders
    BY <1>1 DEF Typed, Grounded
  <1>4. Move(w, "claimStock", j)
    BY DEF GiveBack
  <1> HIDE DEF j
  <1> QED
    BY <1>1, <1>2, <1>3, <1>4, MoveTyped

LEMMA NextOrderTyped ==
    ASSUME Typed, NEW w \in Workers, NextOrder(w)
    PROVE  /\ pc' \in [Workers -> PC] /\ job' \in [Workers -> Job]
           /\ calls' \in Nat /\ Grounded'
  <1> DEFINE rest == job[w].todo \ {job[w].order}
  <1>1. job[w] \in Job
    BY DEF Typed, TypeOK, OrdersTypeOK
  <1>2. CASE rest # {}
    BY <1>1, <1>2, MoveTyped DEF NextOrder, Typed, Grounded, Job, PC,
                                 WithSubject, WithOrder
  <1>3. CASE rest = {} /\ job[w].next = "idle"
    BY <1>3, FinishTyped DEF NextOrder
  <1>4. CASE rest = {} /\ job[w].next # "idle"
    <2>1. Move(w, job[w].next, [job[w] EXCEPT !.todo = {}, !.order = NoOrder])
      BY <1>4 DEF NextOrder
    <2>2. [job[w] EXCEPT !.todo = {}, !.order = NoOrder] \in Job
      BY <1>1 DEF Job
    <2>3. job[w].next \in {"confirmRead", "requestRead"}
      BY <1>1, <1>4 DEF Job
    <2>4. /\ job[w].next \in PC /\ job[w].next \notin WithOrder
          /\ [job[w] EXCEPT !.todo = {}, !.order = NoOrder].subject \in Orders
      BY <1>1, <1>4, <2>3 DEF PC, WithOrder, Typed, Grounded, Job
    <2> QED
      BY <2>1, <2>2, <2>4, MoveTyped
  <1> QED
    BY <1>2, <1>3, <1>4

LEMMA UpdateTyped ==
    ASSUME Typed, NEW o, NEW row, o \in Orders => row \in Row, Update(o, row)
    PROVE  orders' \in [Orders -> Row]
  BY DEF Update, Typed, TypeOK, OrdersTypeOK

LEMMA FlagsTyped ==
    ASSUME NEW row \in Row
    PROVE  /\ [row EXCEPT !.stockReserved = FALSE] \in Row
           /\ [row EXCEPT !.couponReserved = FALSE] \in Row
           /\ [row EXCEPT !.aged = TRUE] \in Row
           /\ [row EXCEPT !.returnReceivedAt = TRUE] \in Row
           /\ [row EXCEPT !.stockReserved = TRUE, !.status = "PENDING",
                          !.paymentStatus = "PENDING"] \in Row
           /\ [row EXCEPT !.status = "CANCELLED",
                          !.paymentStatus = "CANCELLED"] \in Row
           /\ AsRefunded(row) \in Row
  <1>0. /\ {"PENDING", "CANCELLED", "REFUNDED"} \subseteq PaymentStatus
        /\ {"PENDING", "CANCELLED", "REFUNDED"} \subseteq Status
        /\ "APPROVED" \in RefundStatus
    BY DEF Status, OrderStatus, PaymentStatus, RefundStatus
  <1> QED
    BY <1>0, Zenon DEF Row, AsRefunded

LEMMA AnswersTyped ==
    ASSUME NEW row \in Row, NEW p \in Payments \cup {NoPayment},
           NEW q \in PaymentStatus
    PROVE  [row EXCEPT !.mpPaymentId = p, !.paymentStatus = q] \in Row
  BY DEF Row

LEMMA RequestTyped ==
    ASSUME NEW row \in Row, NEW r \in RefundReasons \cup {"NONE"}
    PROVE  [row EXCEPT !.refundStatus = "REQUESTED", !.refundReasonType = r] \in Row
  BY DEF Row, RefundStatus

LEMMA AbsentTyped == Absent \in Row
  <1>1. /\ "ABSENT" \in Status /\ "PENDING" \in PaymentStatus
        /\ NoPayment \in Payments \cup {NoPayment}
        /\ "NO" \in {"NO", "RECENT", "LATE"}
        /\ "NONE" \in RefundStatus /\ "NONE" \in RefundReasons \cup {"NONE"}
    BY DEF RefundStatus, Status, PaymentStatus
  <1> QED
    BY <1>1, Zenon DEF Absent, Row

\* Rows written with one of the helpers are rows.
LEMMA RowsTyped ==
    ASSUME NEW row \in Row, NEW p \in Payments \cup {NoPayment},
           NEW s \in Status, NEW q \in PaymentStatus
    PROVE  /\ [row EXCEPT !.paymentStatus = q, !.status = s, !.paidAt = TRUE] \in Row
           /\ [row EXCEPT !.status = s,
                          !.shippedAt = @ \/ s = "SHIPPED"] \in Row
           /\ WithPayment(row, p) \in Row
           /\ WithStatus(row, s) \in Row
  <1>0. /\ s \in Status /\ "PENDING" \in PaymentStatus
        /\ (row.shippedAt \/ s = "SHIPPED") \in BOOLEAN
        /\ (row.shippedAt \/ s \in {"SHIPPED", "DELIVERED"}) \in BOOLEAN
    BY Zenon DEF Status, OrderStatus, PaymentStatus
  <1>3. [row EXCEPT !.paymentStatus = q, !.status = s, !.paidAt = TRUE] \in Row
    BY <1>0, Zenon DEF Row
  <1>4. [row EXCEPT !.status = s, !.shippedAt = @ \/ s = "SHIPPED"] \in Row
    BY <1>0, Zenon DEF Row
  <1>5. WithPayment(row, p) \in Row
    BY DEF WithPayment, Row
  <1>6. WithStatus(row, s) \in Row
    <2>1. (IF s = "DELIVERED" THEN "RECENT" ELSE row.deliveredAt)
             \in {"NO", "RECENT", "LATE"}
      BY DEF Row
    <2> QED
      BY <1>0, <2>1, Zenon DEF WithStatus, Row
  <1> QED
    BY <1>3, <1>4, <1>5, <1>6

LEMMA GiveBackStepTyped ==
    ASSUME Typed, NEW w \in Workers, GiveBackStep(w), UNCHANGED gateway
    PROVE  Typed'
  <1>0. /\ orders \in [Orders -> Row] /\ job \in [Workers -> Job]
        /\ stock \in [Products -> Nat] /\ usedCount \in Nat
        /\ calls \in Nat /\ effects \in [Orders -> Nat]
        /\ gateway \in [Payments -> GatewayStatus]
        /\ pc[w] \in WithOrder => job[w].order \in Orders
        /\ job[w].next # "idle" => job[w].subject \in Orders
    BY DEF Typed, TypeOK, OrdersTypeOK, Grounded
  <1>1. CASE ClaimStock(w)
    <2>1. PICK o \in job[w].todo :
            LET j == [job[w] EXCEPT !.order = o] IN
            \/ /\ Update(o, [orders[o] EXCEPT !.stockReserved = FALSE])
               /\ Move(w, "returnStock", j)
            \/ UNCHANGED orders /\ Move(w, "claimCoupon", j)
      BY <1>1 DEF ClaimStock
    <2> DEFINE j == [job[w] EXCEPT !.order = o]
    <2>2. o \in Orders
      BY <1>0 DEF Job
    <2>3. /\ j \in Job /\ j.order \in Orders
          /\ j.subject = job[w].subject /\ j.next = job[w].next
      BY <1>0, <2>2 DEF Job
    <2>4. [orders[o] EXCEPT !.stockReserved = FALSE] \in Row
      BY <1>0, <2>2, FlagsTyped
    <2>5. orders' \in [Orders -> Row]
      BY <1>0, <2>1, <2>4, UpdateTyped
    <2>6. \E l \in {"returnStock", "claimCoupon"} : Move(w, l, j)
      BY <2>1
    <2> HIDE DEF j
    <2>7. \A l \in {"returnStock", "claimCoupon"} :
             l \in PC /\ l \notin WithSubject
      BY DEF PC, WithSubject
    <2>8. /\ pc' \in [Workers -> PC] /\ job' \in [Workers -> Job]
          /\ calls' \in Nat /\ Grounded'
      BY <1>0, <2>3, <2>6, <2>7, MoveTyped
    <2> QED
      BY <1>0, <1>1, <2>5, <2>8 DEF ClaimStock, Typed, TypeOK, OrdersTypeOK
  <1>2. CASE ReturnStock(w)
    <2>1. /\ pc' \in [Workers -> PC] /\ job' \in [Workers -> Job]
          /\ calls' \in Nat /\ Grounded'
      BY <1>0, <1>2, GotoTyped DEF ReturnStock, PC, WithSubject, WithOrder
    <2> QED
      BY <1>0, <1>2, <2>1 DEF ReturnStock, Typed, TypeOK, OrdersTypeOK
  <1>3. CASE ClaimCoupon(w)
    <2> DEFINE o == job[w].order
    <2>1. o \in Orders
      BY <1>0, <1>3 DEF ClaimCoupon, WithOrder
    <2>2. orders' \in [Orders -> Row]
      BY <1>0, <1>3, <2>1, UpdateTyped, FlagsTyped DEF ClaimCoupon
    <2>3. CASE Goto(w, "releaseCoupon")
      <3>1. /\ pc' \in [Workers -> PC] /\ job' \in [Workers -> Job]
            /\ calls' \in Nat /\ Grounded'
        BY <2>1, <2>3, GotoTyped DEF PC, WithSubject
      <3> QED
        BY <1>0, <1>3, <2>2, <3>1 DEF ClaimCoupon, Typed, TypeOK, OrdersTypeOK
    <2>4. CASE NextOrder(w)
      BY <1>0, <1>3, <2>2, <2>4, NextOrderTyped
         DEF ClaimCoupon, Typed, TypeOK, OrdersTypeOK
    <2> QED
      BY <1>3, <2>3, <2>4 DEF ClaimCoupon
  <1>4. CASE ReleaseCoupon(w)
    BY <1>0, <1>4, NextOrderTyped DEF ReleaseCoupon, Typed, TypeOK, OrdersTypeOK
  <1> QED
    BY <1>1, <1>2, <1>3, <1>4 DEF GiveBackStep

LEMMA FulfillStepTyped ==
    ASSUME Typed, NEW w \in Workers, FulfillStep(w), UNCHANGED gateway
    PROVE  Typed'
  <1>0. /\ orders \in [Orders -> Row] /\ job \in [Workers -> Job]
        /\ stock \in [Products -> Nat] /\ usedCount \in Nat
        /\ calls \in Nat /\ effects \in [Orders -> Nat]
        /\ gateway \in [Payments -> GatewayStatus]
        /\ job[w] \in Job
        /\ pc[w] \in WithSubject => job[w].subject \in Orders
        /\ job[w].next # "idle" => job[w].subject \in Orders
    BY DEF Typed, TypeOK, OrdersTypeOK, Grounded
  <1>x. /\ job[w].todo \in SUBSET Orders
        /\ job[w].payment \in Payments \cup {NoPayment}
        /\ job[w].status \in Status
        /\ job[w].reason \in RefundReasons \cup {"NONE"}
    BY <1>0 DEF Job
  <1> DEFINE o == job[w].subject
  <1>1. CASE FulfillRead(w)
    <2>1. /\ pc' \in [Workers -> PC] /\ job' \in [Workers -> Job]
          /\ calls' \in Nat /\ Grounded'
      BY <1>0, <1>1, GotoTyped DEF FulfillRead, PC, WithSubject, WithOrder
    <2> QED
      BY <1>0, <1>1, <2>1 DEF FulfillRead, Typed, TypeOK, OrdersTypeOK
  <1>2. CASE Revive(w)
    <2>1. /\ pc' \in [Workers -> PC] /\ job' \in [Workers -> Job]
          /\ calls' \in Nat /\ Grounded'
      BY <1>0, <1>2, GotoTyped DEF Revive, PC, WithSubject, WithOrder
    <2>2. o \in Orders
      BY <1>0, <1>2 DEF Revive, WithSubject
    <2>3. orders' \in [Orders -> Row]
      BY <1>0, <1>2, <2>2, UpdateTyped, FlagsTyped DEF Revive
    <2>4. stock' \in [Products -> Nat]
      <3>1. CASE CanReserve(o)
        <4>1. \A p \in Products : p \in items[o] => stock[p] >= 1
          BY <3>1 DEF CanReserve
        <4> QED
          BY <1>0, <1>2, <3>1, <4>1 DEF Revive, ReserveStock
      <3>2. CASE ~CanReserve(o)
        BY <1>0, <1>2, <3>2 DEF Revive
      <3> QED
        BY <3>1, <3>2
    <2> QED
      BY <1>0, <1>2, <2>1, <2>3, <2>4 DEF Revive, Typed, TypeOK, OrdersTypeOK
  <1>3. CASE MarkApproved(w)
    <2>1. o \in Orders
      BY <1>0, <1>3 DEF MarkApproved, WithSubject
    <2>2. WithPayment(orders[o], job[w].payment) \in Row
      BY <1>0, <1>x, <2>1 DEF WithPayment, Row
    <2>3. [WithPayment(orders[o], job[w].payment)
             EXCEPT !.paymentStatus = "APPROVED"] \in Row
      BY <2>2 DEF Row, PaymentStatus
    <2>4. orders' \in [Orders -> Row]
      BY <1>0, <1>3, <2>3, UpdateTyped DEF MarkApproved
    <2> QED
      BY <1>0, <1>3, <2>4, FinishTyped DEF MarkApproved, Typed, TypeOK, OrdersTypeOK
  <1>4. CASE FulfillStatus(w)
    <2>1. o \in Orders
      BY <1>0, <1>4 DEF FulfillStatus, WithSubject
    <2> DEFINE status == IF orders[o].status = "PENDING" THEN "PAID" ELSE orders[o].status
               j == [job[w] EXCEPT !.status = status]
    <2>2. status \in Status
      BY <1>0, <1>4, <2>1 DEF FulfillStatus, Status, OrderStatus, Row
    <2>3. j \in Job /\ j.subject = o /\ j.next = job[w].next
      BY <1>0, <2>2 DEF Job
    <2>4. Move(w, "fulfillClaim", j)
      BY <1>4 DEF FulfillStatus
    <2> HIDE DEF j
    <2>5. /\ pc' \in [Workers -> PC] /\ job' \in [Workers -> Job]
          /\ calls' \in Nat /\ Grounded'
      BY <2>1, <2>3, <2>4, MoveTyped DEF PC, WithOrder
    <2> QED
      BY <1>0, <1>4, <2>5 DEF FulfillStatus, Typed, TypeOK, OrdersTypeOK
  <1>5. CASE FulfillClaim(w)
    <2>1. o \in Orders
      BY <1>0, <1>5 DEF FulfillClaim, WithSubject
    <2>2. WithPayment(orders[o], job[w].payment) \in Row
      BY <1>0, <1>x, <2>1 DEF WithPayment, Row
    <2>3. [WithPayment(orders[o], job[w].payment)
             EXCEPT !.paymentStatus = "APPROVED", !.status = job[w].status,
                    !.paidAt = TRUE] \in Row
      BY <1>x, <2>2, RowsTyped DEF PaymentStatus
    <2>4. orders' \in [Orders -> Row]
      BY <1>0, <1>5, <2>3, UpdateTyped DEF FulfillClaim
    <2>5. effects' \in [Orders -> Nat]
      BY <1>0, <1>5, <2>1 DEF FulfillClaim
    <2>6. /\ pc' \in [Workers -> PC] /\ job' \in [Workers -> Job]
          /\ calls' \in Nat /\ Grounded'
      BY <1>5, <2>1, FinishTyped, GotoTyped DEF FulfillClaim, PC, WithOrder
    <2> QED
      BY <1>0, <1>5, <2>4, <2>5, <2>6 DEF FulfillClaim, Typed, TypeOK, OrdersTypeOK
  <1>6. CASE RecordPayment(w)
    <2>1. o \in Orders
      BY <1>0, <1>6 DEF RecordPayment, WithSubject
    <2>2. WithPayment(orders[o], job[w].payment) \in Row
      BY <1>0, <1>x, <2>1 DEF WithPayment, Row
    <2>3. orders' \in [Orders -> Row]
      BY <1>0, <1>6, <2>1, <2>2, UpdateTyped DEF RecordPayment
    <2> QED
      BY <1>0, <1>6, <2>3, FinishTyped DEF RecordPayment, Typed, TypeOK, OrdersTypeOK
  <1> QED
    BY <1>1, <1>2, <1>3, <1>4, <1>5, <1>6 DEF FulfillStep

LEMMA OrdersStepTyped ==
    ASSUME Typed, NEW w \in Workers, OrdersStep(w), UNCHANGED gateway
    PROVE  Typed'
  <1>0. /\ orders \in [Orders -> Row] /\ job \in [Workers -> Job]
        /\ stock \in [Products -> Nat] /\ usedCount \in Nat
        /\ calls \in Nat /\ effects \in [Orders -> Nat]
        /\ gateway \in [Payments -> GatewayStatus]
        /\ job[w] \in Job
        /\ pc[w] \in WithSubject => job[w].subject \in Orders
        /\ job[w].next # "idle" => job[w].subject \in Orders
    BY DEF Typed, TypeOK, OrdersTypeOK, Grounded
  <1>x. /\ job[w].todo \in SUBSET Orders
        /\ job[w].payment \in Payments \cup {NoPayment}
        /\ job[w].status \in Status
        /\ job[w].reason \in RefundReasons \cup {"NONE"}
    BY <1>0 DEF Job
  <1> DEFINE o == job[w].subject
  <1>1. CASE Expire(w)
    <2>1. \A x \in Orders : [orders[x] EXCEPT !.status = "CANCELLED",
                               !.paymentStatus = "CANCELLED"] \in Row
      BY <1>0, FlagsTyped
    <2>2. orders' \in [Orders -> Row]
      BY <1>0, <1>1, <2>1 DEF Expire
    <2> QED
      BY <1>0, <1>x, <1>1, <2>2, GiveBackTyped DEF Expire, Typed, TypeOK, OrdersTypeOK
  <1>2. CASE AdminWrite(w)
    <2>1. o \in Orders
      BY <1>0, <1>2 DEF AdminWrite, WithSubject
    <2>2. WithStatus(orders[o], job[w].status) \in Row
      BY <1>0, <1>x, <2>1, RowsTyped DEF PaymentStatus
    <2>3. orders' \in [Orders -> Row]
      BY <1>0, <1>2, <2>2, UpdateTyped DEF AdminWrite
    <2>4. /\ pc' \in [Workers -> PC] /\ job' \in [Workers -> Job]
          /\ calls' \in Nat /\ Grounded'
      BY <1>2, <2>1, FinishTyped, GiveBackTyped DEF AdminWrite
    <2> QED
      BY <1>0, <1>2, <2>3, <2>4 DEF AdminWrite, Typed, TypeOK, OrdersTypeOK
  <1>3. CASE ConfirmRead(w)
    <2>1. /\ pc' \in [Workers -> PC] /\ job' \in [Workers -> Job]
          /\ calls' \in Nat /\ Grounded'
      BY <1>0, <1>3, FinishTyped, GotoTyped
         DEF ConfirmRead, PC, WithSubject, WithOrder
    <2> QED
      BY <1>0, <1>3, <2>1 DEF ConfirmRead, Typed, TypeOK, OrdersTypeOK
  <1>4. CASE ConfirmWrite(w)
    <2>1. o \in Orders
      BY <1>0, <1>4 DEF ConfirmWrite, WithSubject
    <2>2. WithStatus(orders[o], "DELIVERED") \in Row
      BY <1>0, <1>x, <2>1, RowsTyped DEF Status, OrderStatus, PaymentStatus
    <2>3. orders' \in [Orders -> Row]
      BY <1>0, <1>4, <2>2, UpdateTyped DEF ConfirmWrite
    <2> QED
      BY <1>0, <1>4, <2>3, FinishTyped DEF ConfirmWrite, Typed, TypeOK, OrdersTypeOK
  <1>5. CASE RequestRead(w)
    <2>1. /\ pc' \in [Workers -> PC] /\ job' \in [Workers -> Job]
          /\ calls' \in Nat /\ Grounded'
      BY <1>0, <1>5, FinishTyped, GotoTyped
         DEF RequestRead, PC, WithSubject, WithOrder
    <2> QED
      BY <1>0, <1>5, <2>1 DEF RequestRead, Typed, TypeOK, OrdersTypeOK
  <1>6. CASE RequestWrite(w)
    <2>1. o \in Orders
      BY <1>0, <1>6 DEF RequestWrite, WithSubject
    <2>2. [orders[o] EXCEPT !.refundStatus = "REQUESTED",
                             !.refundReasonType = job[w].reason] \in Row
      BY <1>0, <1>x, <2>1, RequestTyped
    <2>3. orders' \in [Orders -> Row]
      BY <1>0, <1>6, <2>2, UpdateTyped DEF RequestWrite
    <2> QED
      BY <1>0, <1>6, <2>3, FinishTyped DEF RequestWrite, Typed, TypeOK, OrdersTypeOK
  <1>7. CASE RejectWrite(w)
    <2>1. o \in Orders
      BY <1>0, <1>7 DEF RejectWrite, WithSubject
    <2>2. [orders[o] EXCEPT !.refundStatus = "REJECTED"] \in Row
      BY <1>0, <2>1 DEF Row, RefundStatus
    <2>3. orders' \in [Orders -> Row]
      BY <1>0, <1>7, <2>2, UpdateTyped DEF RejectWrite
    <2> QED
      BY <1>0, <1>7, <2>3, FinishTyped DEF RejectWrite, Typed, TypeOK, OrdersTypeOK
  <1>8. CASE PendingRead(w)
    <2>1. /\ pc' \in [Workers -> PC] /\ job' \in [Workers -> Job]
          /\ calls' \in Nat /\ Grounded'
      BY <1>0, <1>8, FinishTyped, GotoTyped
         DEF PendingRead, PC, WithSubject, WithOrder
    <2> QED
      BY <1>0, <1>8, <2>1 DEF PendingRead, Typed, TypeOK, OrdersTypeOK
  <1>9. CASE PendingWrite(w)
    <2>1. o \in Orders
      BY <1>0, <1>9 DEF PendingWrite, WithSubject
    <2>2. [orders[o] EXCEPT !.refundStatus = "RETURN_PENDING"] \in Row
      BY <1>0, <2>1 DEF Row, RefundStatus
    <2>3. orders' \in [Orders -> Row]
      BY <1>0, <1>9, <2>2, UpdateTyped DEF PendingWrite
    <2> QED
      BY <1>0, <1>9, <2>3, FinishTyped DEF PendingWrite, Typed, TypeOK, OrdersTypeOK
  <1>10. CASE ReceivedWrite(w)
    <2>1. o \in Orders
      BY <1>0, <1>10 DEF ReceivedWrite, WithSubject
    <2>2. [orders[o] EXCEPT !.returnReceivedAt = TRUE] \in Row
      BY <1>0, <2>1, FlagsTyped
    <2>3. orders' \in [Orders -> Row]
      BY <1>0, <1>10, <2>2, UpdateTyped DEF ReceivedWrite
    <2>4. /\ pc' \in [Workers -> PC] /\ job' \in [Workers -> Job]
          /\ calls' \in Nat /\ Grounded'
      BY <1>10, <2>1, GotoTyped DEF ReceivedWrite, PC, WithOrder
    <2> QED
      BY <1>0, <1>10, <2>3, <2>4 DEF ReceivedWrite, Typed, TypeOK, OrdersTypeOK
  <1> QED
    BY <1>1, <1>2, <1>3, <1>4, <1>5, <1>6, <1>7, <1>8, <1>9, <1>10,
       GiveBackStepTyped, FulfillStepTyped DEF OrdersStep

LEMMA PaymentsStepTyped ==
    ASSUME Typed, NEW w \in Workers, PaymentsStep(w)
    PROVE  Typed'
  <1>0. /\ orders \in [Orders -> Row] /\ job \in [Workers -> Job]
        /\ stock \in [Products -> Nat] /\ usedCount \in Nat
        /\ calls \in Nat /\ effects \in [Orders -> Nat]
        /\ gateway \in [Payments -> GatewayStatus]
        /\ job[w] \in Job
        /\ pc[w] \in WithSubject => job[w].subject \in Orders
        /\ job[w].next # "idle" => job[w].subject \in Orders
    BY DEF Typed, TypeOK, OrdersTypeOK, Grounded
  <1>x. /\ job[w].todo \in SUBSET Orders
        /\ job[w].payment \in Payments \cup {NoPayment}
        /\ job[w].status \in Status
        /\ job[w].reason \in RefundReasons \cup {"NONE"}
    BY <1>0 DEF Job
  <1> DEFINE o == job[w].subject
  <1>1. CASE ExpireOne(w)
    <2>1. o \in Orders
      BY <1>0, <1>1 DEF ExpireOne, WithSubject
    <2>2. [orders[o] EXCEPT !.status = "CANCELLED",
                             !.paymentStatus = "CANCELLED"] \in Row
      BY <1>0, <2>1, FlagsTyped
    <2>3. orders' \in [Orders -> Row]
      BY <1>0, <1>1, <2>2, UpdateTyped DEF ExpireOne
    <2>4. /\ pc' \in [Workers -> PC] /\ job' \in [Workers -> Job]
          /\ calls' \in Nat /\ Grounded'
      BY <1>1, <2>1, GiveBackTyped DEF ExpireOne
    <2> QED
      BY <1>0, <1>1, <2>3, <2>4 DEF ExpireOne, Typed, TypeOK, OrdersTypeOK
  <1>2. CASE PayPost(w)
    <2>1. gateway' \in [Payments -> GatewayStatus]
      BY <1>0, <1>2 DEF PayPost, GatewayStatus
    <2>2. /\ pc' \in [Workers -> PC] /\ job' \in [Workers -> Job]
          /\ calls' \in Nat /\ Grounded'
      <3>1. CASE Finish(w)
        BY <3>1, FinishTyped
      <3>2. CASE \E l \in {"fulfillRead", "writeRejected", "writePending"} : Goto(w, l)
        BY <1>0, <1>2, <3>2, GotoTyped DEF PayPost, PC, WithSubject, WithOrder
      <3> QED
        BY <1>2, <3>1, <3>2 DEF PayPost, AfterPayment
    <2> QED
      BY <1>0, <1>2, <2>1, <2>2 DEF PayPost, Typed, TypeOK, OrdersTypeOK
  <1>3. CASE HookRead(w)
    <2>1. o \in Orders
      BY <1>0, <1>3 DEF HookRead, WithSubject
    <2> DEFINE j == [job[w] EXCEPT !.changed = ~Refunded(orders[o])]
    <2>2. (~Refunded(orders[o])) \in BOOLEAN
      OBVIOUS
    <2>3. j \in Job
      BY <1>0, <2>2, Zenon DEF Job
    <2>4. j.subject = o /\ j.next = job[w].next
      BY <1>0 DEF Job
    <2>5. Move(w, "hookRefund", j)
      BY <1>3 DEF HookRead
    <2> HIDE DEF j
    <2>6. /\ pc' \in [Workers -> PC] /\ job' \in [Workers -> Job]
          /\ calls' \in Nat /\ Grounded'
      BY <2>1, <2>3, <2>4, <2>5, MoveTyped DEF PC, WithOrder
    <2> QED
      BY <1>0, <1>3, <2>6 DEF HookRead, Typed, TypeOK, OrdersTypeOK
  <1>4. CASE HookRefund(w)
    <2>1. o \in Orders
      BY <1>0, <1>4 DEF HookRefund, WithSubject
    <2>2. AsRefunded(orders[o]) \in Row
      BY <1>0, <2>1, FlagsTyped
    <2>3. WithPayment(AsRefunded(orders[o]), job[w].payment) \in Row
      BY <1>x, <2>2 DEF WithPayment, Row
    <2>4. orders' \in [Orders -> Row]
      BY <1>0, <1>4, <2>3, UpdateTyped DEF HookRefund
    <2>5. /\ pc' \in [Workers -> PC] /\ job' \in [Workers -> Job]
          /\ calls' \in Nat /\ Grounded'
      BY <1>4, <2>1, FinishTyped, GiveBackTyped DEF HookRefund
    <2> QED
      BY <1>0, <1>4, <2>4, <2>5 DEF HookRefund, Typed, TypeOK, OrdersTypeOK
  <1>5. ASSUME NEW l \in {"writeRejected", "writePending"},
               NEW s \in PaymentStatus, WriteUnpaid(w, l, s)
        PROVE  Typed'
    <2>1. o \in Orders
      BY <1>0, <1>5 DEF WriteUnpaid, WithSubject
    <2>2. [orders[o] EXCEPT !.mpPaymentId = job[w].payment,
                            !.paymentStatus = s] \in Row
      BY <1>0, <1>x, <1>5, <2>1, AnswersTyped
    <2>3. orders' \in [Orders -> Row]
      BY <1>0, <1>5, <2>2, UpdateTyped DEF WriteUnpaid
    <2> QED
      BY <1>0, <1>5, <2>3, FinishTyped DEF WriteUnpaid, Typed, TypeOK, OrdersTypeOK
  <1>6. CASE WriteRejected(w) \/ WritePending(w)
    BY <1>5, <1>6 DEF WriteRejected, WritePending, PaymentStatus
  <1>7. CASE RefundRead(w)
    <2>1. o \in Orders
      BY <1>0, <1>7 DEF RefundRead, WithSubject
    <2> DEFINE j == [job[w] EXCEPT !.payment = orders[o].mpPaymentId]
    <2>2. j \in Job /\ j.subject = o /\ j.next = job[w].next
      BY <1>0, <2>1 DEF Job, Row
    <2>3. Finish(w) \/ Move(w, "refundPost", j)
      BY <1>7 DEF RefundRead
    <2> HIDE DEF j
    <2>4. /\ pc' \in [Workers -> PC] /\ job' \in [Workers -> Job]
          /\ calls' \in Nat /\ Grounded'
      BY <2>1, <2>2, <2>3, FinishTyped, MoveTyped DEF PC, WithOrder
    <2> QED
      BY <1>0, <1>7, <2>4 DEF RefundRead, Typed, TypeOK, OrdersTypeOK
  <1>8. CASE RefundPost(w)
    <2>1. gateway' \in [Payments -> GatewayStatus]
      BY <1>0, <1>8 DEF RefundPost, GatewayStatus
    <2>2. /\ pc' \in [Workers -> PC] /\ job' \in [Workers -> Job]
          /\ calls' \in Nat /\ Grounded'
      BY <1>0, <1>8, FinishTyped, GotoTyped DEF RefundPost, PC, WithSubject, WithOrder
    <2> QED
      BY <1>0, <1>8, <2>1, <2>2 DEF RefundPost, Typed, TypeOK, OrdersTypeOK
  <1>9. CASE RefundWrite(w)
    <2>1. o \in Orders
      BY <1>0, <1>9 DEF RefundWrite, WithSubject
    <2>2. AsRefunded(orders[o]) \in Row
      BY <1>0, <2>1, FlagsTyped
    <2>3. orders' \in [Orders -> Row]
      BY <1>0, <1>9, <2>2, UpdateTyped DEF RefundWrite
    <2> DEFINE j == [job[w] EXCEPT !.todo = {o}, !.order = o]
    <2>4. j \in Job /\ j.subject = o /\ j.next = job[w].next /\ j.order = o
      BY <1>0, <2>1 DEF Job
    <2>5. GiveBack(w, {o}) \/ Move(w, "claimCoupon", j)
      BY <1>9 DEF RefundWrite
    <2> HIDE DEF j
    <2>6. /\ pc' \in [Workers -> PC] /\ job' \in [Workers -> Job]
          /\ calls' \in Nat /\ Grounded'
      BY <2>1, <2>4, <2>5, GiveBackTyped, MoveTyped DEF PC
    <2> QED
      BY <1>0, <1>9, <2>3, <2>6 DEF RefundWrite, Typed, TypeOK, OrdersTypeOK
  <1> QED
    BY <1>1, <1>2, <1>3, <1>4, <1>6, <1>7, <1>8, <1>9 DEF PaymentsStep

\* The job of a new call: only its fields that differ from NoJob matter.
LEMMA NewJobTyped ==
    ASSUME NEW o \in Orders \cup {NoOrder}, NEW S \in SUBSET Orders,
           NEW p \in Payments \cup {NoPayment}, NEW s \in Status,
           NEW c \in BOOLEAN, NEW r \in RefundReasons \cup {"NONE"},
           NEW m \in {"idle", "confirmRead", "requestRead"}
    PROVE  /\ [NoJob EXCEPT !.subject = o] \in Job
           /\ [NoJob EXCEPT !.todo = S] \in Job
           /\ [NoJob EXCEPT !.todo = S, !.lenient = TRUE] \in Job
           /\ [NoJob EXCEPT !.subject = o, !.payment = p] \in Job
           /\ [NoJob EXCEPT !.subject = o, !.status = s, !.changed = c] \in Job
           /\ [NoJob EXCEPT !.subject = o, !.next = m, !.reason = r,
                            !.todo = S] \in Job
  <1>1. /\ NoOrder \in Orders \cup {NoOrder} /\ {} \in SUBSET Orders
        /\ NoPayment \in Payments \cup {NoPayment} /\ "PENDING" \in Status
        /\ "idle" \in {"idle", "confirmRead", "requestRead"}
        /\ "NONE" \in RefundReasons \cup {"NONE"}
    BY DEF Status, OrderStatus
  <1> QED
    BY <1>1, Zenon DEF NoJob, Job

LEMMA SweepThenTyped ==
    ASSUME Typed, NEW w \in Workers, NEW op, NEW o \in Orders,
           NEW next \in {"confirmRead", "requestRead"},
           NEW r \in RefundReasons \cup {"NONE"}, SweepThen(w, op, o, next, r)
    PROVE  /\ pc' \in [Workers -> PC] /\ job' \in [Workers -> Job]
           /\ calls' \in Nat /\ Grounded'
  <1> DEFINE S == {x \in Orders : Stale(x)}
             j == [NoJob EXCEPT !.subject = o, !.next = next, !.reason = r,
                                !.todo = S]
  <1>1. j \in Job
    BY NewJobTyped DEF Status
  <1>2. j.subject = o
    BY DEF NoJob
  <1>3. Take(w, op, IF S = {} THEN next ELSE "expire", j)
    BY DEF SweepThen, NoJob
  <1> HIDE DEF j
  <1> QED
    BY <1>1, <1>2, <1>3, TakeTyped DEF PC, WithOrder

LEMMA OrdersCallTyped ==
    ASSUME Typed, NEW w \in Workers, OrdersCall(w), UNCHANGED gateway
    PROVE  Typed'
  <1>0. /\ orders \in [Orders -> Row] /\ stock \in [Products -> Nat]
        /\ usedCount \in Nat /\ effects \in [Orders -> Nat] /\ calls \in Nat
        /\ gateway \in [Payments -> GatewayStatus] /\ Asked \subseteq Status
    BY OrdersAssumption DEF Typed, TypeOK, OrdersTypeOK, Status
  <1>1. CASE Sweep(w)
    <2> DEFINE j == [NoJob EXCEPT !.todo = {o \in Orders : Stale(o)}]
    <2>1. j \in Job
      BY NewJobTyped DEF Status
    <2>2. j.next = "idle"
      BY DEF NoJob
    <2>3. pc' = [pc EXCEPT ![w] = "expire"] /\ job' = [job EXCEPT ![w] = j]
      BY <1>1 DEF Sweep
    <2> HIDE DEF j
    <2>4. /\ pc' \in [Workers -> PC] /\ job' \in [Workers -> Job] /\ Grounded'
      BY <2>1, <2>2, <2>3 DEF Typed, TypeOK, OrdersTypeOK, Grounded, PC,
                              WithSubject, WithOrder
    <2> QED
      BY <1>0, <1>1, <2>4 DEF Sweep, Typed, TypeOK, OrdersTypeOK
  <1>2. ASSUME NEW o \in Orders, NEW s \in Asked, AdminStatus(w, o, s)
        PROVE  Typed'
    <2> DEFINE c == orders[o].status # s
               j == [NoJob EXCEPT !.subject = o, !.status = s, !.changed = c]
    <2>1. c \in BOOLEAN /\ s \in Status
      BY <1>0
    <2>2. j \in Job
      BY <2>1, NewJobTyped DEF RefundReasons
    <2>3. j.subject = o /\ j.next = "idle"
      BY DEF NoJob
    <2>4. \E l \in {"fulfillRead", "adminWrite"} : Take(w, "status", l, j)
      BY <1>2, Zenon DEF AdminStatus
    <2> HIDE DEF j
    <2>5. /\ pc' \in [Workers -> PC] /\ job' \in [Workers -> Job]
          /\ calls' \in Nat /\ Grounded'
      BY <2>2, <2>3, <2>4, TakeTyped DEF PC, WithOrder
    <2> QED
      BY <1>0, <1>2, <2>5 DEF AdminStatus, Typed, TypeOK, OrdersTypeOK
  <1>3. ASSUME NEW o \in Orders, ConfirmDelivered(w, o)
        PROVE  Typed'
    BY <1>0, <1>3, SweepThenTyped DEF ConfirmDelivered, Typed, TypeOK, OrdersTypeOK
  <1>4. ASSUME NEW o \in Orders, NEW r \in RefundReasons, RequestRefund(w, o, r)
        PROVE  Typed'
    BY <1>0, <1>4, SweepThenTyped DEF RequestRefund, Typed, TypeOK, OrdersTypeOK
  <1>5. ASSUME NEW o \in Orders, NEW l \in {"rejectWrite", "receivedWrite"},
               NEW op, Take(w, op, l, [NoJob EXCEPT !.subject = o]),
               UNCHANGED <<orders, stock, usedCount, effects>>
        PROVE  Typed'
    <2> DEFINE j == [NoJob EXCEPT !.subject = o]
    <2>1. j \in Job
      BY NewJobTyped DEF Status
    <2>2. j.subject = o /\ j.next = "idle"
      BY DEF NoJob
    <2>3. Take(w, op, l, j)
      BY <1>5
    <2> HIDE DEF j
    <2>4. /\ pc' \in [Workers -> PC] /\ job' \in [Workers -> Job]
          /\ calls' \in Nat /\ Grounded'
      BY <2>1, <2>2, <2>3, TakeTyped DEF PC, WithOrder
    <2> QED
      BY <1>0, <1>5, <2>4 DEF Typed, TypeOK, OrdersTypeOK
  <1>6. ASSUME NEW S \in SUBSET Orders, NEW s \in Asked, BulkStatus(w, S, s)
        PROVE  Typed'
    <2>1. \A o \in Orders : [orders[o] EXCEPT !.status = s,
                               !.shippedAt = @ \/ s = "SHIPPED"] \in Row
      BY <1>0, RowsTyped DEF PaymentStatus
    <2>2. orders' \in [Orders -> Row]
      BY <1>0, <1>6, <2>1 DEF BulkStatus
    <2> DEFINE j == [NoJob EXCEPT !.todo = S, !.lenient = TRUE]
    <2>3. j \in Job /\ NoJob \in Job
      <3>1. j \in Job
        BY NewJobTyped DEF Status
      <3> QED
        BY <3>1 DEF NoJob, Job, Status, OrderStatus
    <2>4. j.next = "idle" /\ NoJob.next = "idle"
      BY DEF NoJob
    <2>5. Take(w, "bulk", "claimStock", j) \/ Take(w, "bulk", "idle", NoJob)
      BY <1>6 DEF BulkStatus
    <2> HIDE DEF j
    <2>6. /\ pc' \in [Workers -> PC] /\ job' \in [Workers -> Job]
          /\ calls' \in Nat /\ Grounded'
      BY <2>3, <2>4, <2>5, TakeTyped DEF PC, WithSubject, WithOrder
    <2> QED
      BY <1>0, <1>6, <2>2, <2>6 DEF BulkStatus, Typed, TypeOK, OrdersTypeOK
  <1> QED
    BY <1>1, <1>2, <1>3, <1>4, <1>5, <1>6 DEF OrdersCall, RejectRefund, ReturnReceived

LEMMA PaymentsCallTyped ==
    ASSUME Typed, NEW w \in Workers, PaymentsCall(w)
    PROVE  Typed'
  <1>1. ASSUME NEW j \in Job, j.subject \in Orders, NEW op,
               NEW l \in WithSubject \ WithOrder, Take(w, op, l, j),
               UNCHANGED <<orders, stock, usedCount, effects, gateway>>
        PROVE  Typed'
    <2>1. l \in PC
      BY DEF WithSubject, PC
    <2>2. /\ pc' \in [Workers -> PC] /\ job' \in [Workers -> Job]
          /\ calls' \in Nat /\ Grounded'
      BY <1>1, <2>1, TakeTyped
    <2> QED
      BY <1>1, <2>2 DEF Typed, TypeOK, OrdersTypeOK
  <1>2. ASSUME NEW p \in Payments, PayCall(w, p)
        PROVE  Typed'
    <2> DEFINE j == [NoJob EXCEPT !.subject = orderOf[p], !.payment = p]
    <2>1. orderOf[p] \in Orders
      BY PaymentsAssumption
    <2>2. j \in Job /\ j.subject \in Orders
      BY <2>1, NewJobTyped DEF NoJob, Status
    <2>3. \E l \in {"expireOne", "payPost"} : Take(w, "pay", l, j)
      BY <1>2, Zenon DEF PayCall
    <2> HIDE DEF j
    <2> QED
      BY <1>1, <1>2, <2>2, <2>3 DEF PayCall, WithSubject, WithOrder
  <1>3. ASSUME NEW p \in Payments, Webhook(w, p)
        PROVE  Typed'
    <2> DEFINE j == [NoJob EXCEPT !.subject = orderOf[p], !.payment = p]
    <2>1. orderOf[p] \in Orders
      BY PaymentsAssumption
    <2>2. j \in Job /\ j.subject \in Orders
      BY <2>1, NewJobTyped DEF NoJob, Status
    <2>3. gateway[p] \in {"pending", "approved", "rejected", "refunded"}
      BY <1>3 DEF Webhook, Typed, TypeOK, GatewayStatus
    <2>4. AfterPayment(gateway[p]) \in WithSubject \ WithOrder
      BY <2>3 DEF AfterPayment, WithSubject, WithOrder
    <2>5. Take(w, "webhook", AfterPayment(gateway[p]), j)
      BY <1>3 DEF Webhook
    <2> HIDE DEF j
    <2> QED
      BY <1>1, <1>3, <2>2, <2>4, <2>5 DEF Webhook
  <1>4. ASSUME NEW o \in Orders, ApproveRefund(w, o)
        PROVE  Typed'
    <2> DEFINE j == [NoJob EXCEPT !.subject = o]
    <2>1. j \in Job /\ j.subject \in Orders
      BY NewJobTyped DEF NoJob, Status
    <2>2. \E l \in {"pendingRead", "refundRead"} : Take(w, "refund", l, j)
      BY <1>4, Zenon DEF ApproveRefund
    <2> HIDE DEF j
    <2> QED
      BY <1>1, <1>4, <2>1, <2>2 DEF ApproveRefund, WithSubject, WithOrder
  <1> QED
    BY <1>2, <1>3, <1>4 DEF PaymentsCall

LEMMA OrdersFailureTyped ==
    ASSUME Typed, NEW w \in Workers, OrdersFailure(w), UNCHANGED gateway
    PROVE  Typed'
  <1>0. /\ orders \in [Orders -> Row] /\ stock \in [Products -> Nat]
        /\ usedCount \in Nat /\ effects \in [Orders -> Nat] /\ calls \in Nat
        /\ gateway \in [Payments -> GatewayStatus] /\ job[w] \in Job
        /\ pc \in [Workers -> PC] /\ job \in [Workers -> Job]
        /\ job[w].next # "idle" => job[w].subject \in Orders
        /\ pc[w] \in WithOrder => job[w].order \in Orders
    BY DEF Typed, TypeOK, OrdersTypeOK, Grounded
  <1>1. CASE Crash(w)
    <2>1. NoJob \in Job /\ NoJob.next = "idle"
      BY DEF NoJob, Job, Status, OrderStatus
    <2>2. /\ pc' \in [Workers -> PC] /\ job' \in [Workers -> Job] /\ Grounded'
      BY <1>0, <1>1, <2>1 DEF Crash, PC, WithSubject, WithOrder, Typed, Grounded
    <2> QED
      BY <1>0, <1>1, <2>2 DEF Crash, Typed, TypeOK, OrdersTypeOK
  <1>2. CASE SweepFails(w)
    <2> DEFINE j == [job[w] EXCEPT !.todo = {}, !.order = NoOrder]
    <2>1. /\ j \in Job /\ j.subject \in Orders
          /\ job[w].next \in {"confirmRead", "requestRead"}
      BY <1>0, <1>2 DEF SweepFails, Job
    <2>2. pc' = [pc EXCEPT ![w] = job[w].next] /\ job' = [job EXCEPT ![w] = j]
      BY <1>2 DEF SweepFails
    <2> HIDE DEF j
    <2>3. /\ pc' \in [Workers -> PC] /\ job' \in [Workers -> Job] /\ Grounded'
      BY <1>0, <2>1, <2>2 DEF PC, WithOrder, Typed, Grounded
    <2> QED
      BY <1>0, <1>2, <2>3 DEF SweepFails, Typed, TypeOK, OrdersTypeOK
  <1>3. CASE BulkFails(w)
    <2>1. ASSUME NEW o \in job[w].todo, Move(w, "claimCoupon", [job[w] EXCEPT !.order = o])
          PROVE  /\ pc' \in [Workers -> PC] /\ job' \in [Workers -> Job]
                 /\ calls' \in Nat /\ Grounded'
      <3> DEFINE j == [job[w] EXCEPT !.order = o]
      <3>1. job[w] \in Job /\ o \in Orders
        BY <1>0 DEF Job
      <3>2. j \in Job /\ j.subject = job[w].subject /\ j.next = job[w].next /\ j.order = o
        BY <3>1 DEF Job
      <3>3. "claimCoupon" \in PC /\ "claimCoupon" \notin WithSubject
        BY DEF PC, WithSubject
      <3>4. j.next # "idle" => j.subject \in Orders
        BY <3>2 DEF Typed, Grounded
      <3> HIDE DEF j
      <3>5. Move(w, "claimCoupon", j)
        BY <2>1 DEF j
      <3> QED
        BY <3>1, <3>2, <3>3, <3>4, <3>5, MoveTyped
    <2>2. ASSUME \/ pc[w] = "returnStock" /\ Goto(w, "claimCoupon")
                 \/ NextOrder(w)
          PROVE  /\ pc' \in [Workers -> PC] /\ job' \in [Workers -> Job]
                 /\ calls' \in Nat /\ Grounded'
      BY <1>0, <2>2, NextOrderTyped, GotoTyped DEF PC, WithSubject, WithOrder
    <2>3. /\ pc' \in [Workers -> PC] /\ job' \in [Workers -> Job]
          /\ calls' \in Nat /\ Grounded'
      BY <1>3, <2>1, <2>2, Zenon DEF BulkFails
    <2> QED
      BY <1>0, <1>3, <2>3 DEF BulkFails, Typed, TypeOK, OrdersTypeOK
  <1> QED
    BY <1>1, <1>2, <1>3 DEF OrdersFailure

LEMMA CreateTyped ==
    ASSUME Typed, NEW o \in Orders, Create(o), UNCHANGED gateway
    PROVE  Typed'
  <1>0. /\ stock \in [Products -> Nat] /\ usedCount \in Nat
    BY DEF Typed, TypeOK, OrdersTypeOK
  <1>1. [Absent EXCEPT !.status = "PENDING", !.stockReserved = TRUE,
                       !.couponReserved = (o \in withCoupon)] \in Row
    <2>1. Absent \in Row /\ "PENDING" \in Status /\ (o \in withCoupon) \in BOOLEAN
      BY AbsentTyped DEF Status, OrderStatus
    <2> QED
      BY <2>1, Zenon DEF Row
  <1>2. orders' \in [Orders -> Row]
    BY <1>1, UpdateTyped DEF Create
  <1>3. stock' \in [Products -> Nat]
    <2>1. \A p \in Products : p \in items[o] => stock[p] >= 1
      BY DEF Create, CanReserve
    <2> QED
      BY <1>0, <2>1 DEF Create, ReserveStock
  <1>4. usedCount' \in Nat
    BY <1>0 DEF Create
  <1> QED
    BY <1>2, <1>3, <1>4 DEF Create, Typed, TypeOK, OrdersTypeOK, Grounded

LEMMA TimeTyped ==
    ASSUME Typed, NEW o \in Orders, Age(o) \/ WindowCloses(o), UNCHANGED gateway
    PROVE  Typed'
  <1>1. /\ orders[o] \in Row /\ [orders[o] EXCEPT !.aged = TRUE] \in Row
    BY FlagsTyped DEF Typed, TypeOK, OrdersTypeOK
  <1>2. [orders[o] EXCEPT !.deliveredAt = "LATE"] \in Row
    BY <1>1 DEF Row
  <1>3. orders' \in [Orders -> Row]
    BY <1>1, <1>2, UpdateTyped DEF Age, WindowCloses
  <1> QED
    BY <1>3 DEF Age, WindowCloses, Typed, TypeOK, OrdersTypeOK, Grounded

LEMMA GatewayTyped ==
    ASSUME Typed, NEW p \in Payments,
           CustomerPays(p) \/ Settle(p) \/ RefundOutside(p)
    PROVE  Typed'
  <1>1. gateway' \in [Payments -> GatewayStatus]
    BY DEF CustomerPays, Settle, RefundOutside, Pay, GatewayStatus, Typed, TypeOK
  <1>2. UNCHANGED ordersVars
    BY DEF CustomerPays, Settle, RefundOutside, Pay
  <1> QED
    BY <1>1, <1>2 DEF ordersVars, Typed, TypeOK, OrdersTypeOK, Grounded

\* Every row, job and counter keeps its type, and a handler that is about to
\* touch an order always has one.
THEOREM Typing == Spec => []Typed
  <1>1. Init => Typed
    <2> SUFFICES ASSUME Init PROVE Typed
      OBVIOUS
    <2>1. Absent \in Row
      BY AbsentTyped
    <2>2. NoJob \in Job /\ NoJob.next = "idle"
      BY DEF NoJob, Job, Status, OrderStatus
    <2>3. TypeOK
      BY <2>1, <2>2, OrdersAssumption
         DEF Init, OrdersInit, TypeOK, OrdersTypeOK, PC, GatewayStatus
    <2>4. Grounded
      BY <2>2 DEF Init, OrdersInit, Grounded, WithSubject, WithOrder
    <2> QED
      BY <2>3, <2>4 DEF Typed
  <1>2. Typed /\ [Next]_vars => Typed'
    <2> SUFFICES ASSUME Typed, [Next]_vars PROVE Typed'
      OBVIOUS
    <2>1. ASSUME NEW w \in Workers, Step(w) PROVE Typed'
      BY <2>1, OrdersStepTyped, PaymentsStepTyped DEF Step
    <2>2. ASSUME NEW w \in Workers, UNCHANGED gateway,
                 OrdersCall(w) \/ OrdersFailure(w)
          PROVE  Typed'
      BY <2>2, OrdersCallTyped, OrdersFailureTyped
    <2>3. ASSUME NEW w \in Workers, PaymentsCall(w) PROVE Typed'
      BY <2>3, PaymentsCallTyped
    <2>4. ASSUME NEW o \in Orders, UNCHANGED gateway,
                 Create(o) \/ Age(o) \/ WindowCloses(o)
          PROVE  Typed'
      BY <2>4, CreateTyped, TimeTyped
    <2>5. ASSUME NEW p \in Payments,
                 CustomerPays(p) \/ Settle(p) \/ RefundOutside(p)
          PROVE  Typed'
      BY <2>5, GatewayTyped
    <2>6. CASE UNCHANGED vars
      BY <2>6 DEF vars, Typed, TypeOK, OrdersTypeOK, Grounded
    <2> QED
      BY <2>1, <2>2, <2>3, <2>4, <2>5, <2>6 DEF Next
  <1> QED
    BY <1>1, <1>2, PTL DEF Spec

\* The type invariant the runs check, for every value of the constants.
COROLLARY TypesHold == Spec => []TypeOK
  <1>1. Typed => TypeOK
    BY DEF Typed
  <1> QED
    BY <1>1, Typing, PTL

-----------------------------------------------------------------------------
(* Statements that move nothing *)

Carrying == {"returnStock", "releaseCoupon"}

\* No handler picks up a unit or a coupon use to carry it back.
CarriersStay ==
    \A w \in Workers : pc'[w] \in Carrying =>
        pc'[w] = pc[w] /\ job'[w].order = job[w].order

\* Every order holds the units and the coupon use it held, and a paid one stays
\* paid.
HoldsStay ==
    \A o \in Orders :
        /\ orders'[o].stockReserved = orders[o].stockReserved
        /\ orders'[o].couponReserved = orders[o].couponReserved
        /\ orders[o].paidAt => orders'[o].paidAt
        /\ Created(o) => Created(o)'

Quiet == CarriersStay /\ HoldsStay /\ UNCHANGED <<stock, usedCount, effects>>

\* An order that a handler works on exists, and a status it carries is one.
Existing ==
    \A w \in Workers :
        /\ job[w].status \in OrderStatus
        /\ job[w].subject \in Orders => Created(job[w].subject)

LEMMA MoveQuiet ==
    ASSUME Typed, NEW w \in Workers, NEW l, NEW j, l \notin Carrying,
           pc' = [pc EXCEPT ![w] = l], job' = [job EXCEPT ![w] = j]
    PROVE  CarriersStay
  BY DEF CarriersStay, Typed, TypeOK, OrdersTypeOK

LEMMA NextOrderQuiet ==
    ASSUME Typed, NEW w \in Workers, NextOrder(w)
    PROVE  CarriersStay
  <1>1. job[w].next \notin Carrying
    BY DEF Carrying, Typed, TypeOK, OrdersTypeOK, Job
  <1> QED
    BY <1>1, MoveQuiet DEF NextOrder, Finish, Move, Carrying

LEMMA RowsQuiet ==
    ASSUME UNCHANGED orders
    PROVE  HoldsStay
  BY DEF HoldsStay, Created

LEMMA UpdateQuiet ==
    ASSUME Typed, NEW o, NEW row, Update(o, row), o \in Orders =>
               /\ row.stockReserved = orders[o].stockReserved
               /\ row.couponReserved = orders[o].couponReserved
               /\ orders[o].paidAt => row.paidAt
               /\ row.status # "ABSENT" \/ ~Created(o)
    PROVE  HoldsStay
  BY DEF HoldsStay, Update, Created, Typed, TypeOK, OrdersTypeOK

LEMMA OrdersStepQuiet ==
    ASSUME Typed, Existing, NEW w \in Workers,
           \/ Expire(w) \/ FulfillRead(w) \/ MarkApproved(w)
           \/ FulfillStatus(w) \/ RecordPayment(w) \/ AdminWrite(w)
           \/ ConfirmRead(w) \/ ConfirmWrite(w) \/ RequestRead(w)
           \/ RequestWrite(w) \/ RejectWrite(w) \/ PendingRead(w)
           \/ PendingWrite(w) \/ ReceivedWrite(w)
    PROVE  Quiet
  <1> DEFINE o == job[w].subject
  <1>0. o \in Orders => orders[o] \in Row
    BY DEF Typed, TypeOK, OrdersTypeOK
  <1>1. CASE Expire(w)
    <2>1. CarriersStay
      BY <1>1, MoveQuiet DEF Expire, GiveBack, Move, Carrying
    <2>2. HoldsStay
      BY <1>1 DEF Expire, HoldsStay, Created, Typed, TypeOK, OrdersTypeOK, Row
    <2> QED
      BY <1>1, <2>1, <2>2 DEF Expire, Quiet
  <1>2. CASE FulfillRead(w)
    BY <1>2, MoveQuiet, RowsQuiet DEF FulfillRead, Goto, Move, Carrying, Quiet
  <1>3. CASE FulfillStatus(w)
    BY <1>3, MoveQuiet, RowsQuiet DEF FulfillStatus, Move, Carrying, Quiet
  <1>4. CASE ConfirmRead(w) \/ RequestRead(w) \/ PendingRead(w)
    BY <1>4, MoveQuiet, RowsQuiet
       DEF ConfirmRead, RequestRead, PendingRead, Goto, Finish, Move, Carrying, Quiet
  <1>5. CASE MarkApproved(w)
    <2> DEFINE row == [WithPayment(orders[o], job[w].payment)
                        EXCEPT !.paymentStatus = "APPROVED"]
    <2>1. Created(o) /\ o \in Orders => row.status # "ABSENT"
      BY <1>0, <1>5 DEF MarkApproved, Created, WithPayment, Row
    <2>2. o \in Orders => /\ row.stockReserved = orders[o].stockReserved
                          /\ row.couponReserved = orders[o].couponReserved
                          /\ row.paidAt = orders[o].paidAt
      BY <1>0 DEF WithPayment, Row
    <2>3. Update(o, row)
      BY <1>5 DEF MarkApproved
    <2> HIDE DEF row
    <2>4. HoldsStay
      BY <2>1, <2>2, <2>3, UpdateQuiet
    <2>5. CarriersStay
      BY <1>5, MoveQuiet DEF MarkApproved, Goto, Finish, Move, Carrying
    <2> QED
      BY <1>5, <2>4, <2>5 DEF MarkApproved, Quiet
  <1>6. CASE RecordPayment(w)
    <2> DEFINE row == IF orders[o].mpPaymentId = NoPayment
                      THEN WithPayment(orders[o], job[w].payment) ELSE orders[o]
    <2>1. Created(o) /\ o \in Orders => row.status # "ABSENT"
      BY <1>0, <1>6 DEF RecordPayment, Created, WithPayment, Row
    <2>2. o \in Orders => /\ row.stockReserved = orders[o].stockReserved
                          /\ row.couponReserved = orders[o].couponReserved
                          /\ row.paidAt = orders[o].paidAt
      BY <1>0 DEF WithPayment, Row
    <2>3. Update(o, row)
      BY <1>6 DEF RecordPayment
    <2> HIDE DEF row
    <2>4. HoldsStay
      BY <2>1, <2>2, <2>3, UpdateQuiet
    <2>5. CarriersStay
      BY <1>6, MoveQuiet DEF RecordPayment, Goto, Finish, Move, Carrying
    <2> QED
      BY <1>6, <2>4, <2>5 DEF RecordPayment, Quiet
  <1>7. CASE AdminWrite(w)
    <2> DEFINE row == WithStatus(orders[o], job[w].status)
    <2>1. Created(o) /\ o \in Orders => row.status # "ABSENT"
      BY <1>0, <1>7 DEF AdminWrite, Created, WithStatus, Row, Existing, OrderStatus
    <2>2. o \in Orders => /\ row.stockReserved = orders[o].stockReserved
                          /\ row.couponReserved = orders[o].couponReserved
                          /\ row.paidAt = orders[o].paidAt
      BY <1>0 DEF WithStatus, Row, Existing, OrderStatus
    <2>3. Update(o, row)
      BY <1>7 DEF AdminWrite
    <2> HIDE DEF row
    <2>4. HoldsStay
      BY <2>1, <2>2, <2>3, UpdateQuiet
    <2>5. CarriersStay
      BY <1>7, MoveQuiet DEF AdminWrite, GiveBack, Finish, Move, Carrying
    <2> QED
      BY <1>7, <2>4, <2>5 DEF AdminWrite, Quiet
  <1>8. CASE ConfirmWrite(w)
    <2> DEFINE row == WithStatus(orders[o], "DELIVERED")
    <2>1. Created(o) /\ o \in Orders => row.status # "ABSENT"
      BY <1>0, <1>8 DEF ConfirmWrite, Created, WithStatus, Row
    <2>2. o \in Orders => /\ row.stockReserved = orders[o].stockReserved
                          /\ row.couponReserved = orders[o].couponReserved
                          /\ row.paidAt = orders[o].paidAt
      BY <1>0 DEF WithStatus, Row
    <2>3. Update(o, row)
      BY <1>8 DEF ConfirmWrite
    <2> HIDE DEF row
    <2>4. HoldsStay
      BY <2>1, <2>2, <2>3, UpdateQuiet
    <2>5. CarriersStay
      BY <1>8, MoveQuiet DEF ConfirmWrite, Goto, Finish, Move, Carrying
    <2> QED
      BY <1>8, <2>4, <2>5 DEF ConfirmWrite, Quiet
  <1>9. CASE RequestWrite(w)
    <2> DEFINE row == [orders[o] EXCEPT !.refundStatus = "REQUESTED",
                                     !.refundReasonType = job[w].reason]
    <2>1. Created(o) /\ o \in Orders => row.status # "ABSENT"
      BY <1>0, <1>9 DEF RequestWrite, Created, Row
    <2>2. o \in Orders => /\ row.stockReserved = orders[o].stockReserved
                          /\ row.couponReserved = orders[o].couponReserved
                          /\ row.paidAt = orders[o].paidAt
      BY <1>0 DEF Row
    <2>3. Update(o, row)
      BY <1>9 DEF RequestWrite
    <2> HIDE DEF row
    <2>4. HoldsStay
      BY <2>1, <2>2, <2>3, UpdateQuiet
    <2>5. CarriersStay
      BY <1>9, MoveQuiet DEF RequestWrite, Goto, Finish, Move, Carrying
    <2> QED
      BY <1>9, <2>4, <2>5 DEF RequestWrite, Quiet
  <1>10. CASE RejectWrite(w)
    <2> DEFINE row == [orders[o] EXCEPT !.refundStatus = "REJECTED"]
    <2>1. Created(o) /\ o \in Orders => row.status # "ABSENT"
      BY <1>0, <1>10 DEF RejectWrite, Created, Row
    <2>2. o \in Orders => /\ row.stockReserved = orders[o].stockReserved
                          /\ row.couponReserved = orders[o].couponReserved
                          /\ row.paidAt = orders[o].paidAt
      BY <1>0 DEF Row
    <2>3. Update(o, row)
      BY <1>10 DEF RejectWrite
    <2> HIDE DEF row
    <2>4. HoldsStay
      BY <2>1, <2>2, <2>3, UpdateQuiet
    <2>5. CarriersStay
      BY <1>10, MoveQuiet DEF RejectWrite, Goto, Finish, Move, Carrying
    <2> QED
      BY <1>10, <2>4, <2>5 DEF RejectWrite, Quiet
  <1>11. CASE PendingWrite(w)
    <2> DEFINE row == [orders[o] EXCEPT !.refundStatus = "RETURN_PENDING"]
    <2>1. Created(o) /\ o \in Orders => row.status # "ABSENT"
      BY <1>0, <1>11 DEF PendingWrite, Created, Row
    <2>2. o \in Orders => /\ row.stockReserved = orders[o].stockReserved
                          /\ row.couponReserved = orders[o].couponReserved
                          /\ row.paidAt = orders[o].paidAt
      BY <1>0 DEF Row
    <2>3. Update(o, row)
      BY <1>11 DEF PendingWrite
    <2> HIDE DEF row
    <2>4. HoldsStay
      BY <2>1, <2>2, <2>3, UpdateQuiet
    <2>5. CarriersStay
      BY <1>11, MoveQuiet DEF PendingWrite, Goto, Finish, Move, Carrying
    <2> QED
      BY <1>11, <2>4, <2>5 DEF PendingWrite, Quiet
  <1>12. CASE ReceivedWrite(w)
    <2> DEFINE row == [orders[o] EXCEPT !.returnReceivedAt = TRUE]
    <2>1. Created(o) /\ o \in Orders => row.status # "ABSENT"
      BY <1>0, <1>12 DEF ReceivedWrite, Created, Row
    <2>2. o \in Orders => /\ row.stockReserved = orders[o].stockReserved
                          /\ row.couponReserved = orders[o].couponReserved
                          /\ row.paidAt = orders[o].paidAt
      BY <1>0 DEF Row
    <2>3. Update(o, row)
      BY <1>12 DEF ReceivedWrite
    <2> HIDE DEF row
    <2>4. HoldsStay
      BY <2>1, <2>2, <2>3, UpdateQuiet
    <2>5. CarriersStay
      BY <1>12, MoveQuiet DEF ReceivedWrite, Goto, Finish, Move, Carrying
    <2> QED
      BY <1>12, <2>4, <2>5 DEF ReceivedWrite, Quiet
  <1> QED
    BY <1>1, <1>2, <1>3, <1>4, <1>5, <1>6, <1>7, <1>8, <1>9, <1>10, <1>11, <1>12

LEMMA PaymentsStepQuiet ==
    ASSUME Typed, NEW w \in Workers, PaymentsStep(w)
    PROVE  Quiet
  <1> DEFINE o == job[w].subject
  <1>0. o \in Orders => orders[o] \in Row
    BY DEF Typed, TypeOK, OrdersTypeOK
  <1>1. CASE ExpireOne(w)
    <2> DEFINE row == [orders[o] EXCEPT !.status = "CANCELLED",
                                     !.paymentStatus = "CANCELLED"]
    <2>1. Created(o) /\ o \in Orders => row.status # "ABSENT"
      BY <1>0, <1>1 DEF ExpireOne, Created, Row
    <2>2. o \in Orders => /\ row.stockReserved = orders[o].stockReserved
                          /\ row.couponReserved = orders[o].couponReserved
                          /\ row.paidAt = orders[o].paidAt
      BY <1>0 DEF Row
    <2>3. Update(o, row)
      BY <1>1 DEF ExpireOne
    <2> HIDE DEF row
    <2>4. HoldsStay
      BY <2>1, <2>2, <2>3, UpdateQuiet
    <2>5. CarriersStay
      BY <1>1, MoveQuiet DEF ExpireOne, GiveBack, Move, Carrying
    <2> QED
      BY <1>1, <2>4, <2>5 DEF ExpireOne, Quiet
  <1>2. CASE PayPost(w)
    <2>1. CarriersStay
      BY <1>2, MoveQuiet DEF PayPost, AfterPayment, Goto, Finish, Move, Carrying
    <2> QED
      BY <1>2, <2>1, RowsQuiet DEF PayPost, Quiet
  <1>3. CASE HookRead(w) \/ RefundRead(w) \/ RefundPost(w)
    <2>1. CarriersStay
      BY <1>3, MoveQuiet
         DEF HookRead, RefundRead, RefundPost, Goto, Finish, Move, Carrying
    <2> QED
      BY <1>3, <2>1, RowsQuiet DEF HookRead, RefundRead, RefundPost, Quiet
  <1>4. CASE HookRefund(w)
    <2> DEFINE row == WithPayment(AsRefunded(orders[o]), job[w].payment)
    <2>1. Created(o) /\ o \in Orders => row.status # "ABSENT"
      BY <1>0, <1>4 DEF HookRefund, Created, WithPayment, AsRefunded, Row
    <2>2. o \in Orders => /\ row.stockReserved = orders[o].stockReserved
                          /\ row.couponReserved = orders[o].couponReserved
                          /\ row.paidAt = orders[o].paidAt
      BY <1>0 DEF WithPayment, AsRefunded, Row
    <2>3. Update(o, row)
      BY <1>4 DEF HookRefund
    <2> HIDE DEF row
    <2>4. HoldsStay
      BY <2>1, <2>2, <2>3, UpdateQuiet
    <2>5. CarriersStay
      BY <1>4, MoveQuiet DEF HookRefund, GiveBack, Finish, Move, Carrying
    <2> QED
      BY <1>4, <2>4, <2>5 DEF HookRefund, Quiet
  <1>5. ASSUME NEW l, NEW s, WriteUnpaid(w, l, s)
        PROVE  Quiet
    <2> DEFINE row == [orders[o] EXCEPT !.mpPaymentId = job[w].payment,
                                        !.paymentStatus = s]
    <2>1. Created(o) /\ o \in Orders => row.status # "ABSENT"
      BY <1>0 DEF Created, Row
    <2>2. o \in Orders => /\ row.stockReserved = orders[o].stockReserved
                          /\ row.couponReserved = orders[o].couponReserved
                          /\ row.paidAt = orders[o].paidAt
      BY <1>0 DEF Row
    <2>3. Update(o, row)
      BY <1>5 DEF WriteUnpaid
    <2> HIDE DEF row
    <2>4. HoldsStay
      BY <2>1, <2>2, <2>3, UpdateQuiet
    <2>5. CarriersStay
      BY <1>5, MoveQuiet DEF WriteUnpaid, Finish, Move, Carrying
    <2> QED
      BY <1>5, <2>4, <2>5 DEF WriteUnpaid, Quiet
  <1>6. CASE RefundWrite(w)
    <2> DEFINE row == AsRefunded(orders[o])
    <2>1. Created(o) /\ o \in Orders => row.status # "ABSENT"
      BY <1>0, <1>6 DEF RefundWrite, Created, AsRefunded, Row
    <2>2. o \in Orders => /\ row.stockReserved = orders[o].stockReserved
                          /\ row.couponReserved = orders[o].couponReserved
                          /\ row.paidAt = orders[o].paidAt
      BY <1>0 DEF AsRefunded, Row
    <2>3. Update(o, row)
      BY <1>6 DEF RefundWrite
    <2> HIDE DEF row
    <2>4. HoldsStay
      BY <2>1, <2>2, <2>3, UpdateQuiet
    <2>5. CarriersStay
      BY <1>6, MoveQuiet DEF RefundWrite, GiveBack, Move, Carrying
    <2> QED
      BY <1>6, <2>4, <2>5 DEF RefundWrite, Quiet
  <1> QED
    BY <1>1, <1>2, <1>3, <1>4, <1>5, <1>6 DEF PaymentsStep, WriteRejected, WritePending

LEMMA CallsQuiet ==
    ASSUME Typed, NEW w \in Workers, OrdersCall(w) \/ PaymentsCall(w)
    PROVE  Quiet
  <1>1. ASSUME NEW op, NEW l, NEW j, l \notin Carrying, Take(w, op, l, j)
        PROVE  CarriersStay
    BY <1>1, MoveQuiet DEF Take
  <1>2. CASE Sweep(w)
    BY <1>2, MoveQuiet, RowsQuiet DEF Sweep, Carrying, Quiet
  <1>3. ASSUME NEW o \in Orders, NEW s \in Asked, AdminStatus(w, o, s)
        PROVE  Quiet
    BY <1>1, <1>3, RowsQuiet DEF AdminStatus, Carrying, Quiet
  <1>4. ASSUME NEW op, NEW o, NEW next, NEW r, next \notin Carrying,
               SweepThen(w, op, o, next, r)
        PROVE  CarriersStay
    BY <1>1, <1>4 DEF SweepThen, Carrying
  <1>5. ASSUME NEW o \in Orders, ConfirmDelivered(w, o)
        PROVE  Quiet
    BY <1>4, <1>5, RowsQuiet DEF ConfirmDelivered, Carrying, Quiet
  <1>6. ASSUME NEW o \in Orders, NEW r \in RefundReasons, RequestRefund(w, o, r)
        PROVE  Quiet
    BY <1>4, <1>6, RowsQuiet DEF RequestRefund, Carrying, Quiet
  <1>7. ASSUME NEW o \in Orders, \/ RejectRefund(w, o) \/ ReturnReceived(w, o)
                                 \/ ApproveRefund(w, o)
        PROVE  Quiet
    BY <1>1, <1>7, RowsQuiet
       DEF RejectRefund, ReturnReceived, ApproveRefund, Carrying, Quiet
  <1>8. ASSUME NEW S \in SUBSET Orders, NEW s \in Asked, BulkStatus(w, S, s)
        PROVE  Quiet
    <2>1. CarriersStay
      <3>1. \/ Take(w, "bulk", "idle", NoJob)
            \/ Take(w, "bulk", "claimStock",
                    [NoJob EXCEPT !.todo = S, !.lenient = TRUE])
        BY <1>8, Zenon DEF BulkStatus
      <3>2. "idle" \notin Carrying /\ "claimStock" \notin Carrying
        BY DEF Carrying
      <3> QED
        BY <1>1, <3>1, <3>2, Zenon
    <2>2. s # "ABSENT"
      BY OrdersAssumption DEF OrderStatus
    <2>3. HoldsStay
      <3> SUFFICES ASSUME NEW o \in Orders
                   PROVE  /\ orders'[o].stockReserved = orders[o].stockReserved
                          /\ orders'[o].couponReserved = orders[o].couponReserved
                          /\ orders[o].paidAt => orders'[o].paidAt
                          /\ Created(o) => Created(o)'
        BY DEF HoldsStay
      <3> DEFINE row == [orders[o] EXCEPT !.status = s,
                                          !.shippedAt = @ \/ s = "SHIPPED"]
      <3>1. orders[o] \in Row
        BY DEF Typed, TypeOK, OrdersTypeOK
      <3>2. /\ row.stockReserved = orders[o].stockReserved
            /\ row.couponReserved = orders[o].couponReserved
            /\ row.paidAt = orders[o].paidAt /\ row.status = s
        BY <3>1 DEF Row
      <3>3. orders'[o] = row \/ orders'[o] = orders[o]
        BY <1>8, Zenon DEF BulkStatus
      <3> HIDE DEF row
      <3> QED
        BY <2>2, <3>2, <3>3 DEF Created
    <2> QED
      BY <1>8, <2>1, <2>3 DEF BulkStatus, Quiet
  <1>9. ASSUME NEW p \in Payments, PayCall(w, p) \/ Webhook(w, p)
        PROVE  Quiet
    <2>1. gateway[p] \in GatewayStatus
      BY DEF Typed, TypeOK
    <2>2. CarriersStay
      BY <1>1, <1>9, <2>1 DEF PayCall, Webhook, AfterPayment, GatewayStatus, Carrying
    <2> QED
      BY <1>9, <2>2, RowsQuiet DEF PayCall, Webhook, Quiet
  <1> QED
    BY <1>2, <1>3, <1>5, <1>6, <1>7, <1>8, <1>9 DEF OrdersCall, PaymentsCall

LEMMA FailuresQuiet ==
    ASSUME Typed, NEW w \in Workers, OrdersFailure(w)
    PROVE  Quiet
  <1>1. CASE Crash(w)
    BY <1>1, MoveQuiet, RowsQuiet DEF Crash, Carrying, Quiet
  <1>2. CASE SweepFails(w)
    <2>1. job[w].next \notin Carrying
      BY DEF Carrying, Typed, TypeOK, OrdersTypeOK, Job
    <2> QED
      BY <1>2, <2>1, MoveQuiet, RowsQuiet DEF SweepFails, Quiet
  <1>3. CASE BulkFails(w)
    BY <1>3, NextOrderQuiet, MoveQuiet, RowsQuiet
       DEF BulkFails, Goto, Move, Carrying, Quiet
  <1> QED
    BY <1>1, <1>2, <1>3 DEF OrdersFailure

LEMMA EnvironmentQuiet ==
    ASSUME Typed,
           \/ \E o \in Orders : Age(o) \/ WindowCloses(o)
           \/ \E p \in Payments : CustomerPays(p) \/ Settle(p) \/ RefundOutside(p)
           \/ UNCHANGED vars
    PROVE  Quiet
  <1>1. ASSUME NEW o \in Orders, Age(o) \/ WindowCloses(o)
        PROVE  Quiet
    <2>1. HoldsStay
      BY <1>1, UpdateQuiet DEF Age, WindowCloses, Created, Typed, TypeOK, OrdersTypeOK, Row
    <2>2. CarriersStay
      BY <1>1 DEF Age, WindowCloses, CarriersStay
    <2> QED
      BY <1>1, <2>1, <2>2 DEF Age, WindowCloses, Quiet
  <1>2. ASSUME NEW p \in Payments, CustomerPays(p) \/ Settle(p) \/ RefundOutside(p)
        PROVE  Quiet
    BY <1>2, RowsQuiet DEF CustomerPays, Settle, RefundOutside, Pay, ordersVars,
                           CarriersStay, Quiet
  <1>3. CASE UNCHANGED vars
    BY <1>3, RowsQuiet DEF vars, CarriersStay, Quiet
  <1> QED
    BY <1>1, <1>2, <1>3

\* The statements that are not quiet.
Loud(w) ==
    \/ ClaimStock(w) \/ ReturnStock(w) \/ ClaimCoupon(w) \/ ReleaseCoupon(w)
    \/ Revive(w) \/ FulfillClaim(w)

LEMMA StepsQuietOrLoud ==
    ASSUME Typed, Existing, [Next]_vars
    PROVE  \/ Quiet
           \/ \E w \in Workers : Loud(w)
           \/ \E o \in Orders : Create(o)
  <1>1. ASSUME NEW w \in Workers, Step(w)
        PROVE  Quiet \/ Loud(w)
    BY <1>1, OrdersStepQuiet, PaymentsStepQuiet
       DEF Step, OrdersStep, GiveBackStep, FulfillStep, Loud
  <1>2. ASSUME NEW w \in Workers,
               OrdersCall(w) \/ OrdersFailure(w) \/ PaymentsCall(w)
        PROVE  Quiet
    BY <1>2, CallsQuiet, FailuresQuiet
  <1> QED
    BY <1>1, <1>2, EnvironmentQuiet DEF Next

-----------------------------------------------------------------------------
(* Handlers only work on orders that exist *)

\* Worker w keeps the order and the status it carries, or drops them.
KeepsJob(w) ==
    /\ \A v \in Workers : v # w => job'[v] = job[v]
    /\ job'[w].subject \in {job[w].subject, NoOrder}
    /\ job'[w].status \in {job[w].status, "PENDING"}

LEMMA CreatedStays ==
    ASSUME Typed, Existing, [Next]_vars, NEW o \in Orders, Created(o)
    PROVE  Created(o)'
  <1>0. orders \in [Orders -> Row]
    BY DEF Typed, TypeOK, OrdersTypeOK
  <1>1. ASSUME NEW x, NEW row, Update(x, row), x = o => row.status # "ABSENT"
        PROVE  Created(o)'
    BY <1>0, <1>1 DEF Update, Created
  <1>2. CASE Quiet
    BY <1>2 DEF Quiet, HoldsStay
  <1>3. ASSUME NEW w \in Workers, Loud(w)
        PROVE  Created(o)'
    <2>1. CASE ClaimStock(w)
      <3>1. CASE UNCHANGED orders
        BY <3>1 DEF Created
      <3>2. ASSUME NEW x \in job[w].todo,
                   Update(x, [orders[x] EXCEPT !.stockReserved = FALSE])
            PROVE  Created(o)'
        BY <1>0, <1>1, <3>2 DEF Created, Row
      <3> QED
        BY <2>1, <3>1, <3>2 DEF ClaimStock
    <2>2. CASE ClaimCoupon(w)
      <3>1. CASE UNCHANGED orders
        BY <3>1 DEF Created
      <3>2. CASE Update(job[w].order,
                        [orders[job[w].order] EXCEPT !.couponReserved = FALSE])
        BY <1>0, <1>1, <3>2 DEF Created, Row
      <3> QED
        BY <2>2, <3>1, <3>2 DEF ClaimCoupon
    <2>3. CASE ReturnStock(w) \/ ReleaseCoupon(w)
      BY <2>3 DEF ReturnStock, ReleaseCoupon, Created
    <2> DEFINE s == job[w].subject
    <2>4. CASE Revive(w)
      <3>1. CASE UNCHANGED orders
        BY <3>1 DEF Created
      <3>2. CASE Update(s, [orders[s] EXCEPT !.stockReserved = TRUE,
                                             !.status = "PENDING",
                                             !.paymentStatus = "PENDING"])
        <4>1. s = o => orders[s] \in Row
          BY <1>0 DEF Typed, TypeOK, OrdersTypeOK
        <4>2. s = o => [orders[s] EXCEPT !.stockReserved = TRUE,
                                         !.status = "PENDING",
                                         !.paymentStatus = "PENDING"].status # "ABSENT"
          BY <4>1 DEF Row
        <4> QED
          BY <1>1, <3>2, <4>2
      <3> QED
        BY <2>4, <3>1, <3>2 DEF Revive
    <2>5. CASE FulfillClaim(w)
      <3>1. CASE UNCHANGED orders
        BY <3>1 DEF Created
      <3> DEFINE row == [WithPayment(orders[s], job[w].payment)
                           EXCEPT !.paymentStatus = "APPROVED",
                                  !.status = job[w].status, !.paidAt = TRUE]
      <3>2. CASE Update(s, row)
        <4>1. s = o => row.status # "ABSENT"
          BY <1>0 DEF WithPayment, Row, Existing, OrderStatus
        <4> HIDE DEF row
        <4> QED
          BY <1>1, <3>2, <4>1
      <3> QED
        BY <2>5, <3>1, <3>2 DEF FulfillClaim
    <2> QED
      BY <1>3, <2>1, <2>2, <2>3, <2>4, <2>5 DEF Loud
  <1>4. ASSUME NEW x \in Orders, Create(x)
        PROVE  Created(o)'
    BY <1>0, <1>4 DEF Create, Update, Created, Absent
  <1> QED
    BY <1>2, <1>3, <1>4, StepsQuietOrLoud

LEMMA MovesKeepJob ==
    ASSUME Typed, NEW w \in Workers,
           \/ Finish(w) \/ NextOrder(w)
           \/ \E l : Goto(w, l)
           \/ \E S : GiveBack(w, S)
    PROVE  KeepsJob(w)
  <1>0. job[w] \in Job /\ job \in [Workers -> Job]
    BY DEF Typed, TypeOK, OrdersTypeOK
  <1>1. CASE Finish(w)
    BY <1>0, <1>1 DEF Finish, Move, NoJob, KeepsJob
  <1>2. ASSUME NEW l, Goto(w, l) PROVE KeepsJob(w)
    BY <1>0, <1>2 DEF Goto, Move, KeepsJob
  <1>3. ASSUME NEW S, GiveBack(w, S) PROVE KeepsJob(w)
    BY <1>0, <1>3 DEF GiveBack, Move, KeepsJob, Job
  <1>4. CASE NextOrder(w)
    <2>1. CASE Finish(w)
      BY <1>1, <2>1
    <2>2. ASSUME NEW l, NEW S, Move(w, l, [job[w] EXCEPT !.todo = S])
          PROVE  KeepsJob(w)
      BY <1>0, <2>2 DEF Move, KeepsJob, Job
    <2>3. ASSUME NEW l, Move(w, l, [job[w] EXCEPT !.todo = {}, !.order = NoOrder])
          PROVE  KeepsJob(w)
      BY <1>0, <2>3 DEF Move, KeepsJob, Job
    <2> QED
      BY <1>4, <2>1, <2>2, <2>3, Zenon DEF NextOrder
  <1> QED
    BY <1>1, <1>2, <1>3, <1>4

LEMMA StepsKeepJob ==
    ASSUME Typed, NEW w \in Workers, Step(w) \/ OrdersFailure(w),
           ~FulfillStatus(w)
    PROVE  KeepsJob(w)
  <1>0. job[w] \in Job /\ job \in [Workers -> Job]
    BY DEF Typed, TypeOK, OrdersTypeOK
  <1>1. CASE Expire(w) \/ GiveBackStep(w)
    <2>1. CASE ClaimStock(w)
      <3>1. PICK o \in job[w].todo :
              job' = [job EXCEPT ![w] = [job[w] EXCEPT !.order = o]]
        BY <2>1 DEF ClaimStock, Move
      <3> QED
        BY <1>0, <3>1 DEF KeepsJob, Job
    <2> QED
      BY <1>1, <2>1, MovesKeepJob
         DEF Expire, GiveBackStep, ReturnStock, ClaimCoupon, ReleaseCoupon
  <1>2. CASE FulfillStep(w)
    BY <1>2, MovesKeepJob DEF FulfillStep, FulfillRead, Revive, MarkApproved,
                              FulfillClaim, RecordPayment
  <1>3. CASE \/ AdminWrite(w) \/ ConfirmRead(w) \/ ConfirmWrite(w)
             \/ RequestRead(w) \/ RequestWrite(w) \/ RejectWrite(w)
             \/ PendingRead(w) \/ PendingWrite(w) \/ ReceivedWrite(w)
    BY <1>3, MovesKeepJob
       DEF AdminWrite, ConfirmRead, ConfirmWrite, RequestRead, RequestWrite,
           RejectWrite, PendingRead, PendingWrite, ReceivedWrite
  <1>4. CASE ExpireOne(w) \/ PayPost(w) \/ HookRefund(w) \/ RefundPost(w)
             \/ WriteRejected(w) \/ WritePending(w)
    BY <1>4, MovesKeepJob DEF ExpireOne, PayPost, HookRefund, RefundPost,
                              WriteRejected, WritePending, WriteUnpaid
  <1>5. CASE HookRead(w) \/ RefundRead(w) \/ RefundWrite(w)
    <2>1. CASE HookRead(w)
      BY <1>0, <2>1 DEF HookRead, Move, KeepsJob, Job
    <2>2. ASSUME NEW p, Move(w, "refundPost", [job[w] EXCEPT !.payment = p])
          PROVE  KeepsJob(w)
      BY <1>0, <2>2 DEF Move, KeepsJob, Job
    <2>3. ASSUME NEW S, NEW o,
                 Move(w, "claimCoupon", [job[w] EXCEPT !.todo = S, !.order = o])
          PROVE  KeepsJob(w)
      BY <1>0, <2>3 DEF Move, KeepsJob, Job
    <2> QED
      BY <1>5, <2>1, <2>2, <2>3, MovesKeepJob, Zenon DEF RefundRead, RefundWrite
  <1>6. CASE Crash(w)
    BY <1>0, <1>6 DEF Crash, KeepsJob, NoJob
  <1>7. CASE SweepFails(w)
    BY <1>0, <1>7 DEF SweepFails, KeepsJob, Job
  <1>8. CASE BulkFails(w)
    <2>1. ASSUME NEW o, Move(w, "claimCoupon", [job[w] EXCEPT !.order = o])
          PROVE  KeepsJob(w)
      BY <1>0, <2>1 DEF Move, KeepsJob, Job
    <2> QED
      BY <1>8, <2>1, MovesKeepJob, Zenon DEF BulkFails
  <1> QED
    BY <1>1, <1>2, <1>3, <1>4, <1>5, <1>6, <1>7, <1>8
       DEF Step, OrdersStep, PaymentsStep, OrdersFailure

LEMMA CallsTakeExisting ==
    ASSUME Typed, NEW w \in Workers, OrdersCall(w) \/ PaymentsCall(w)
    PROVE  /\ \A v \in Workers : v # w => job'[v] = job[v]
           /\ job'[w].subject \in Orders => Created(job'[w].subject)
           /\ job'[w].status \in OrderStatus
  <1> DEFINE Goal == /\ \A v \in Workers : v # w => job'[v] = job[v]
                     /\ job'[w].subject \in Orders => Created(job'[w].subject)
                     /\ job'[w].status \in OrderStatus
  <1> SUFFICES Goal
    OBVIOUS
  <1>0. job \in [Workers -> Job]
    BY DEF Typed, TypeOK, OrdersTypeOK
  <1>1. ASSUME NEW j, job' = [job EXCEPT ![w] = j],
               j.subject \in Orders => Created(j.subject), j.status \in OrderStatus
        PROVE  Goal
    BY <1>0, <1>1
  <1>2. ASSUME NEW op, NEW l, NEW j, Take(w, op, l, j),
               j.subject \in Orders => Created(j.subject), j.status \in OrderStatus
        PROVE  Goal
    BY <1>1, <1>2 DEF Take
  <1>3. CASE Sweep(w)
    BY <1>1, <1>3, OrdersAssumption DEF Sweep, NoJob, OrderStatus
  <1>4. ASSUME NEW o \in Orders, NEW s \in Asked, AdminStatus(w, o, s)
        PROVE  Goal
    <2> DEFINE j == [NoJob EXCEPT !.subject = o, !.status = s,
                                  !.changed = (orders[o].status # s)]
    <2>1. \E l : Take(w, "status", l, j)
      BY <1>4, Zenon DEF AdminStatus
    <2>2. j.subject = o /\ j.status = s
      BY DEF NoJob
    <2> HIDE DEF j
    <2> QED
      BY <1>2, <1>4, <2>1, <2>2, OrdersAssumption DEF AdminStatus
  <1>5. ASSUME NEW op, NEW o \in Orders, NEW next, NEW r, Created(o),
               SweepThen(w, op, o, next, r)
        PROVE  Goal
    <2> DEFINE j == [NoJob EXCEPT !.subject = o, !.next = next, !.reason = r,
                                  !.todo = {x \in Orders : Stale(x)}]
    <2>1. \E l : Take(w, op, l, j)
      BY <1>5, Zenon DEF SweepThen
    <2>2. j.subject = o /\ j.status = "PENDING"
      BY DEF NoJob
    <2> HIDE DEF j
    <2> QED
      BY <1>2, <1>5, <2>1, <2>2 DEF OrderStatus
  <1>6. ASSUME NEW op, NEW l, NEW o \in Orders, Created(o),
               Take(w, op, l, [NoJob EXCEPT !.subject = o])
        PROVE  Goal
    BY <1>2, <1>6 DEF NoJob, OrderStatus
  <1>7. ASSUME NEW S \in SUBSET Orders, NEW s \in Asked, BulkStatus(w, S, s)
        PROVE  Goal
    <2>1. \/ Take(w, "bulk", "idle", NoJob)
          \/ Take(w, "bulk", "claimStock",
                  [NoJob EXCEPT !.todo = S, !.lenient = TRUE])
      BY <1>7, Zenon DEF BulkStatus
    <2> QED
      BY <1>2, <2>1, OrdersAssumption DEF NoJob, OrderStatus
  <1>8. ASSUME NEW o \in Orders, NEW p, NEW op, NEW l, Created(o),
               Take(w, op, l, [NoJob EXCEPT !.subject = o, !.payment = p])
        PROVE  Goal
    BY <1>2, <1>8 DEF NoJob, OrderStatus
  <1>9. CASE OrdersCall(w)
    <2>1. ASSUME NEW o \in Orders, NEW r \in RefundReasons, RequestRefund(w, o, r)
          PROVE  Goal
      BY <1>5, <2>1 DEF RequestRefund
    <2>2. ASSUME NEW o \in Orders, ConfirmDelivered(w, o)
          PROVE  Goal
      BY <1>5, <2>2 DEF ConfirmDelivered
    <2>3. ASSUME NEW o \in Orders, RejectRefund(w, o) \/ ReturnReceived(w, o)
          PROVE  Goal
      BY <1>6, <2>3 DEF RejectRefund, ReturnReceived
    <2> HIDE DEF Goal
    <2> QED
      BY <1>3, <1>4, <1>7, <1>9, <2>1, <2>2, <2>3 DEF OrdersCall
  <1>10. CASE PaymentsCall(w)
    <2>1. ASSUME NEW p \in Payments, PayCall(w, p)
          PROVE  Goal
      <3>1. Created(orderOf[p]) /\ orderOf[p] \in Orders
        BY <2>1, PaymentsAssumption DEF PayCall
      <3>2. \E l : Take(w, "pay", l,
                        [NoJob EXCEPT !.subject = orderOf[p], !.payment = p])
        BY <2>1, Zenon DEF PayCall
      <3> HIDE DEF Goal
      <3> QED
        BY <1>8, <3>1, <3>2
    <2>2. ASSUME NEW p \in Payments, Webhook(w, p)
          PROVE  Goal
      BY <1>8, <2>2, PaymentsAssumption DEF Webhook
    <2>3. ASSUME NEW o \in Orders, ApproveRefund(w, o)
          PROVE  Goal
      BY <1>6, <2>3 DEF ApproveRefund
    <2> HIDE DEF Goal
    <2> QED
      BY <1>10, <2>1, <2>2, <2>3 DEF PaymentsCall
  <1> QED
    BY <1>9, <1>10

LEMMA ExistingStep ==
    ASSUME Typed, Existing, [Next]_vars
    PROVE  Existing'
  <1>0. job \in [Workers -> Job]
    BY DEF Typed, TypeOK, OrdersTypeOK
  <1>1. \A o \in Orders : Created(o) => Created(o)'
    BY CreatedStays
  <1>2. ASSUME NEW w \in Workers,
               \A v \in Workers : v # w => job'[v] = job[v],
               job'[w].subject \in Orders => Created(job'[w].subject),
               job'[w].status \in OrderStatus
        PROVE  Existing'
    BY <1>1, <1>2 DEF Existing, Created
  <1>3. ASSUME NEW w \in Workers, Step(w) \/ OrdersFailure(w), ~FulfillStatus(w)
        PROVE  Existing'
    <2>1. KeepsJob(w)
      BY <1>3, StepsKeepJob
    <2> QED
      BY <1>2, <2>1, OrdersAssumption DEF KeepsJob, Existing, OrderStatus
  <1>4. ASSUME NEW w \in Workers, FulfillStatus(w)
        PROVE  Existing'
    <2>1. job[w].subject \in Orders
      BY <1>4 DEF FulfillStatus, Typed, Grounded, WithSubject
    <2>2. orders[job[w].subject].status \in OrderStatus
      BY <2>1 DEF Existing, Created, Typed, TypeOK, OrdersTypeOK, Row, Status
    <2>3. /\ \A v \in Workers : v # w => job'[v] = job[v]
          /\ job'[w].subject = job[w].subject
          /\ job'[w].status \in OrderStatus
      BY <1>0, <1>4, <2>2 DEF FulfillStatus, Move, Job, OrderStatus
    <2> QED
      BY <1>2, <2>3 DEF Existing
  <1>5. ASSUME NEW w \in Workers, OrdersCall(w) \/ PaymentsCall(w)
        PROVE  Existing'
    BY <1>2, <1>5, CallsTakeExisting
  <1>6. CASE UNCHANGED job
    BY <1>1, <1>6 DEF Existing, Created
  <1> QED
    BY <1>3, <1>4, <1>5, <1>6
       DEF Next, Create, Age, WindowCloses, CustomerPays, Settle, RefundOutside,
           Pay, ordersVars, vars

\* No handler ever works on an order that was not placed, and the status it
\* carries from a read to a write is a real one.
THEOREM ExistingHolds == Spec => []Existing
  <1>1. Init => Existing
    BY OrdersAssumption DEF Init, OrdersInit, Existing, NoJob, OrderStatus
  <1>2. Typed /\ Existing /\ [Next]_vars => Existing'
    BY ExistingStep
  <1> QED
    BY <1>1, <1>2, Typing, PTL DEF Spec

-----------------------------------------------------------------------------
(* Effects *)

\* An order's effects fired only if it is marked paid, and then once.
Fired ==
    \A o \in Orders :
        /\ effects[o] <= IF orders[o].paidAt THEN 1 ELSE 0
        /\ ~Created(o) => effects[o] = 0

LEMMA PaidStays ==
    ASSUME Typed, NEW w \in Workers, Loud(w), NEW o \in Orders, orders[o].paidAt
    PROVE  orders'[o].paidAt
  <1>0. orders \in [Orders -> Row] /\ orders[o] \in Row
    BY DEF Typed, TypeOK, OrdersTypeOK
  <1>1. ASSUME NEW x, NEW row, Update(x, row), x = o => row.paidAt
        PROVE  orders'[o].paidAt
    BY <1>0, <1>1 DEF Update
  <1>2. CASE ClaimStock(w)
    <2>1. CASE UNCHANGED orders
      BY <2>1
    <2>2. ASSUME NEW x \in job[w].todo,
                 Update(x, [orders[x] EXCEPT !.stockReserved = FALSE])
          PROVE  orders'[o].paidAt
      BY <1>0, <1>1, <2>2 DEF Row
    <2> QED
      BY <1>2, <2>1, <2>2 DEF ClaimStock
  <1>3. CASE ClaimCoupon(w)
    BY <1>0, <1>1, <1>3 DEF ClaimCoupon, Row
  <1>4. CASE ReturnStock(w) \/ ReleaseCoupon(w)
    BY <1>4 DEF ReturnStock, ReleaseCoupon
  <1>5. CASE Revive(w)
    BY <1>0, <1>1, <1>5 DEF Revive, Row
  <1>6. CASE FulfillClaim(w)
    <2> DEFINE s == job[w].subject
               row == [WithPayment(orders[s], job[w].payment)
                         EXCEPT !.paymentStatus = "APPROVED",
                                !.status = job[w].status, !.paidAt = TRUE]
    <2>1. s = o => row.paidAt
      BY <1>0 DEF WithPayment, Row
    <2>2. UNCHANGED orders \/ Update(s, row)
      BY <1>6 DEF FulfillClaim
    <2> HIDE DEF row
    <2> QED
      BY <1>1, <2>1, <2>2
  <1> QED
    BY <1>2, <1>3, <1>4, <1>5, <1>6 DEF Loud

LEMMA FiredStep ==
    ASSUME Typed, Existing, Fired, [Next]_vars
    PROVE  Fired'
  <1>0. /\ orders \in [Orders -> Row] /\ effects \in [Orders -> Nat]
        /\ \A o \in Orders : Created(o) => Created(o)'
    BY CreatedStays DEF Typed, TypeOK, OrdersTypeOK
  <1>1. CASE Quiet
    BY <1>0, <1>1 DEF Quiet, HoldsStay, Fired
  <1>2. ASSUME NEW w \in Workers, Loud(w), UNCHANGED effects
        PROVE  Fired'
    BY <1>0, <1>2, PaidStays DEF Fired
  <1>3. ASSUME NEW w \in Workers, FulfillClaim(w), ~UNCHANGED effects
        PROVE  Fired'
    <2> DEFINE s == job[w].subject
               row == [WithPayment(orders[s], job[w].payment)
                         EXCEPT !.paymentStatus = "APPROVED",
                                !.status = job[w].status, !.paidAt = TRUE]
    <2>1. /\ s \in Orders /\ Created(s)
      BY <1>3 DEF FulfillClaim, Typed, Grounded, WithSubject, Existing
    <2>2. /\ Update(s, row) /\ effects' = [effects EXCEPT ![s] = @ + 1]
          /\ ~orders[s].paidAt
      BY <1>3 DEF FulfillClaim, FirstApproval
    <2>3. row.paidAt
      BY <1>0, <2>1 DEF WithPayment, Row
    <2> HIDE DEF row
    <2>4. orders'[s].paidAt /\ \A o \in Orders : o # s => orders'[o] = orders[o]
      BY <1>0, <2>1, <2>2, <2>3 DEF Update
    <2>5. \A o \in Orders : effects'[o] <= IF orders'[o].paidAt THEN 1 ELSE 0
      BY <1>0, <2>1, <2>2, <2>4 DEF Fired
    <2>6. \A o \in Orders : ~Created(o)' => o # s /\ effects'[o] = 0
      BY <1>0, <2>1, <2>2, <2>4 DEF Fired
    <2> QED
      BY <2>5, <2>6 DEF Fired
  <1>4. ASSUME NEW x \in Orders, Create(x)
        PROVE  Fired'
    <2>1. /\ UNCHANGED effects /\ effects[x] = 0
          /\ \A o \in Orders : o # x => orders'[o] = orders[o]
      BY <1>0, <1>4 DEF Create, Update, Fired
    <2> QED
      BY <1>0, <2>1 DEF Fired, Created
  <1>5. \A w \in Workers : Loud(w) => UNCHANGED effects \/ FulfillClaim(w)
    BY DEF Loud, ClaimStock, ReturnStock, ClaimCoupon, ReleaseCoupon, Revive
  <1> QED
    BY <1>1, <1>2, <1>3, <1>4, <1>5, StepsQuietOrLoud

\* However many webhooks, Brick answers and manual "paid" marks arrive, in any
\* interleaving, the mails, prints, invoice and label of an approval fire at
\* most once for each order (the conditional update of fulfillPaidOrder).
THEOREM EffectsOnce == Spec => []EffectsFireOnce
  <1>1. Init => Fired
    BY DEF Init, OrdersInit, Fired, Absent
  <1>2. Typed /\ Existing /\ Fired /\ [Next]_vars => Fired'
    BY FiredStep
  <1>3. Typed /\ Fired => EffectsFireOnce
    BY DEF Fired, EffectsFireOnce, Typed, TypeOK, OrdersTypeOK
  <1> QED
    BY <1>1, <1>2, <1>3, Typing, ExistingHolds, PTL DEF Spec

-----------------------------------------------------------------------------
(* Stock *)

LEMMA SmallerSet ==
    ASSUME NEW S, NEW T, IsFiniteSet(S), T \subseteq S
    PROVE  /\ IsFiniteSet(T) /\ Cardinality(T) \in Nat /\ Cardinality(S) \in Nat
           /\ Cardinality(T) <= Cardinality(S)
  BY FS_Subset, FS_CardinalityType

LEMMA OneMore ==
    ASSUME NEW S, NEW T, NEW x, IsFiniteSet(S), T \subseteq S \cup {x}
    PROVE  Cardinality(T) <= Cardinality(S) + 1
  <1>1. /\ IsFiniteSet(S \cup {x}) /\ Cardinality(S) \in Nat
        /\ Cardinality(S \cup {x})
             = IF x \in S THEN Cardinality(S) ELSE Cardinality(S) + 1
    BY FS_AddElement, FS_CardinalityType
  <1>2. Cardinality(T) <= Cardinality(S \cup {x})
    BY <1>1, SmallerSet
  <1>3. Cardinality(T) \in Nat /\ Cardinality(S \cup {x}) \in Nat
    BY <1>1, SmallerSet
  <1> QED
    BY <1>1, <1>2, <1>3

LEMMA OneLess ==
    ASSUME NEW S, NEW T, NEW x, IsFiniteSet(S), x \in S, T \subseteq S \ {x}
    PROVE  Cardinality(T) <= Cardinality(S) - 1
  <1>1. /\ IsFiniteSet(S \ {x}) /\ Cardinality(S) \in Nat
        /\ Cardinality(S \ {x}) = Cardinality(S) - 1
    BY FS_RemoveElement, FS_CardinalityType
  <1>2. Cardinality(T) <= Cardinality(S \ {x})
    BY <1>1, SmallerSet
  <1> QED
    BY <1>1, <1>2

LEMMA HeldFinite ==
    ASSUME NEW p
    PROVE  /\ IsFiniteSet(Held(p)) /\ IsFiniteSet(Held(p)')
           /\ IsFiniteSet(Returning(p)) /\ IsFiniteSet(Returning(p)')
           /\ Cardinality(Held(p)) \in Nat /\ Cardinality(Held(p)') \in Nat
           /\ Cardinality(Returning(p)) \in Nat
           /\ Cardinality(Returning(p)') \in Nat
  <1>1. /\ Held(p) \subseteq Orders /\ Held(p)' \subseteq Orders
        /\ Returning(p) \subseteq Workers /\ Returning(p)' \subseteq Workers
    BY DEF Held, Returning
  <1> QED
    BY <1>1, SmallerSet, OrdersAssumption

\* No units move onto the shelf, into an order or into a handler's hands.
StockQuiet ==
    /\ stock' = stock
    /\ \A o \in Orders : orders'[o].stockReserved => orders[o].stockReserved
    /\ \A w \in Workers : pc'[w] = "returnStock" =>
          pc[w] = "returnStock" /\ job'[w].order = job[w].order

LEMMA StockQuietStep ==
    ASSUME Typed, StockNeverInvented, StockQuiet
    PROVE  StockNeverInvented'
  <1> SUFFICES ASSUME NEW p \in Products
               PROVE  stock'[p] + Cardinality(Held(p)') + Cardinality(Returning(p)')
                        <= initialStock[p]
    BY DEF StockNeverInvented
  <1>1. Held(p)' \subseteq Held(p) /\ Returning(p)' \subseteq Returning(p)
    BY DEF StockQuiet, Held, Returning
  <1>2. /\ Cardinality(Held(p)') <= Cardinality(Held(p))
        /\ Cardinality(Returning(p)') <= Cardinality(Returning(p))
    BY <1>1, HeldFinite, SmallerSet
  <1>3. /\ stock'[p] = stock[p] /\ stock[p] \in Nat /\ initialStock[p] \in Nat
        /\ stock[p] + Cardinality(Held(p)) + Cardinality(Returning(p))
             <= initialStock[p]
    BY OrdersAssumption DEF StockQuiet, StockNeverInvented, Typed, TypeOK, OrdersTypeOK
  <1> QED
    BY <1>2, <1>3, HeldFinite

\* create and tryReviveCancelledOrder: the units of one order leave the shelf.
LEMMA ReserveStep ==
    ASSUME Typed, StockNeverInvented, NEW o \in Orders, CanReserve(o),
           ReserveStock(o),
           \A x \in Orders : x # o => orders'[x] = orders[x],
           \A w \in Workers : pc'[w] = "returnStock" =>
               pc[w] = "returnStock" /\ job'[w].order = job[w].order
    PROVE  StockNeverInvented'
  <1> SUFFICES ASSUME NEW p \in Products
               PROVE  stock'[p] + Cardinality(Held(p)') + Cardinality(Returning(p)')
                        <= initialStock[p]
    BY DEF StockNeverInvented
  <1>1. Returning(p)' \subseteq Returning(p)
    BY DEF Returning
  <1>2. Cardinality(Returning(p)') <= Cardinality(Returning(p))
    BY <1>1, HeldFinite, SmallerSet
  <1>3. /\ stock[p] \in Nat /\ initialStock[p] \in Nat
        /\ stock[p] + Cardinality(Held(p)) + Cardinality(Returning(p))
             <= initialStock[p]
    BY OrdersAssumption DEF StockNeverInvented, Typed, TypeOK, OrdersTypeOK
  <1>4. CASE p \in items[o]
    <2>1. stock'[p] = stock[p] - 1
      BY <1>4 DEF ReserveStock
    <2>2. Held(p)' \subseteq Held(p) \cup {o}
      BY DEF Held
    <2>3. Cardinality(Held(p)') <= Cardinality(Held(p)) + 1
      BY <2>2, HeldFinite, OneMore
    <2> QED
      BY <1>2, <1>3, <2>1, <2>3, HeldFinite
  <1>5. CASE p \notin items[o]
    <2>1. stock'[p] = stock[p]
      BY <1>5 DEF ReserveStock
    <2>2. Held(p)' \subseteq Held(p)
      BY <1>5 DEF Held
    <2>3. Cardinality(Held(p)') <= Cardinality(Held(p))
      BY <2>2, HeldFinite, SmallerSet
    <2> QED
      BY <1>2, <1>3, <2>1, <2>3, HeldFinite
  <1> QED
    BY <1>4, <1>5

\* restockOrderItems, first statement: one order's units go into w's hands.
LEMMA ClaimStockStep ==
    ASSUME Typed, StockNeverInvented, NEW w \in Workers, ClaimStock(w)
    PROVE  StockNeverInvented'
  <1>0. /\ orders \in [Orders -> Row] /\ pc \in [Workers -> PC]
        /\ job \in [Workers -> Job]
    BY DEF Typed, TypeOK, OrdersTypeOK
  <1>1. PICK o \in job[w].todo :
          LET j == [job[w] EXCEPT !.order = o] IN
          IF orders[o].stockReserved
          THEN /\ Update(o, [orders[o] EXCEPT !.stockReserved = FALSE])
               /\ Move(w, "returnStock", j)
          ELSE UNCHANGED orders /\ Move(w, "claimCoupon", j)
    BY DEF ClaimStock
  <1> DEFINE j == [job[w] EXCEPT !.order = o]
  <1>2. o \in Orders /\ j.order = o
    BY <1>0 DEF Job
  <1>3. CASE ~orders[o].stockReserved
    <2>1. UNCHANGED orders /\ Move(w, "claimCoupon", j)
      BY <1>1, <1>3
    <2>2. StockQuiet
      BY <1>0, <2>1 DEF ClaimStock, StockQuiet, Move
    <2> QED
      BY <2>2, StockQuietStep
  <1>4. CASE orders[o].stockReserved
    <2> SUFFICES ASSUME NEW p \in Products
                 PROVE  stock'[p] + Cardinality(Held(p)') + Cardinality(Returning(p)')
                          <= initialStock[p]
      BY DEF StockNeverInvented
    <2>1. /\ Update(o, [orders[o] EXCEPT !.stockReserved = FALSE])
          /\ Move(w, "returnStock", j)
      BY <1>1, <1>4
    <2>2. /\ ~orders'[o].stockReserved
          /\ \A x \in Orders : x # o => orders'[x] = orders[x]
      BY <1>0, <1>2, <2>1 DEF Update, Row
    <2> HIDE DEF j
    <2>3. /\ pc[w] = "claimStock" /\ job'[w].order = o
          /\ \A v \in Workers : v # w => pc'[v] = pc[v] /\ job'[v] = job[v]
      BY <1>0, <1>2, <2>1 DEF ClaimStock, Move
    <2>4. /\ stock'[p] = stock[p] /\ stock[p] \in Nat /\ initialStock[p] \in Nat
          /\ stock[p] + Cardinality(Held(p)) + Cardinality(Returning(p))
               <= initialStock[p]
      BY OrdersAssumption
         DEF ClaimStock, StockNeverInvented, Typed, TypeOK, OrdersTypeOK
    <2>5. CASE p \in items[o]
      <3>1. o \in Held(p) /\ Held(p)' \subseteq Held(p) \ {o}
        BY <1>2, <1>4, <2>2, <2>5 DEF Held
      <3>2. Returning(p)' \subseteq Returning(p) \cup {w}
        BY <2>3 DEF Returning
      <3>3. Cardinality(Held(p)') <= Cardinality(Held(p)) - 1
        BY <3>1, HeldFinite, OneLess
      <3>4. Cardinality(Returning(p)') <= Cardinality(Returning(p)) + 1
        BY <3>2, HeldFinite, OneMore
      <3> QED
        BY <2>4, <3>3, <3>4, HeldFinite
    <2>6. CASE p \notin items[o]
      <3>1. Held(p)' \subseteq Held(p)
        BY <2>2 DEF Held
      <3>2. Returning(p)' \subseteq Returning(p)
        BY <2>3, <2>6 DEF Returning
      <3>3. /\ Cardinality(Held(p)') <= Cardinality(Held(p))
            /\ Cardinality(Returning(p)') <= Cardinality(Returning(p))
        BY <3>1, <3>2, HeldFinite, SmallerSet
      <3> QED
        BY <2>4, <3>3, HeldFinite
    <2> QED
      BY <2>5, <2>6
  <1> QED
    BY <1>3, <1>4

\* restockOrderItems, its transaction: w puts the units on the shelf.
LEMMA ReturnStockStep ==
    ASSUME Typed, StockNeverInvented, NEW w \in Workers, ReturnStock(w)
    PROVE  StockNeverInvented'
  <1> DEFINE o == job[w].order
  <1>0. /\ pc \in [Workers -> PC] /\ job \in [Workers -> Job] /\ o \in Orders
    BY DEF ReturnStock, Typed, TypeOK, OrdersTypeOK, Grounded, WithOrder
  <1> SUFFICES ASSUME NEW p \in Products
               PROVE  stock'[p] + Cardinality(Held(p)') + Cardinality(Returning(p)')
                        <= initialStock[p]
    BY DEF StockNeverInvented
  <1>1. /\ pc[w] = "returnStock" /\ pc'[w] = "claimCoupon"
        /\ \A v \in Workers : v # w => pc'[v] = pc[v] /\ job'[v] = job[v]
    BY <1>0 DEF ReturnStock, Goto, Move
  <1>2. Held(p)' = Held(p)
    BY DEF ReturnStock, Held
  <1>3. /\ stock[p] \in Nat /\ initialStock[p] \in Nat
        /\ stock[p] + Cardinality(Held(p)) + Cardinality(Returning(p))
             <= initialStock[p]
    BY OrdersAssumption DEF StockNeverInvented, Typed, TypeOK, OrdersTypeOK
  <1>4. CASE p \in items[o]
    <2>1. stock'[p] = stock[p] + 1
      BY <1>4 DEF ReturnStock
    <2>2. w \in Returning(p) /\ Returning(p)' \subseteq Returning(p) \ {w}
      BY <1>0, <1>1, <1>4 DEF Returning
    <2>3. Cardinality(Returning(p)') <= Cardinality(Returning(p)) - 1
      BY <2>2, HeldFinite, OneLess
    <2> QED
      BY <1>2, <1>3, <2>1, <2>3, HeldFinite
  <1>5. CASE p \notin items[o]
    <2>1. stock'[p] = stock[p]
      BY <1>5 DEF ReturnStock
    <2>2. Returning(p)' \subseteq Returning(p)
      BY <1>1 DEF Returning
    <2>3. Cardinality(Returning(p)') <= Cardinality(Returning(p))
      BY <2>2, HeldFinite, SmallerSet
    <2> QED
      BY <1>2, <1>3, <2>1, <2>3, HeldFinite
  <1> QED
    BY <1>4, <1>5

LEMMA StockStep ==
    ASSUME Typed, Existing, StockNeverInvented, [Next]_vars
    PROVE  StockNeverInvented'
  <1>0. /\ orders \in [Orders -> Row] /\ pc \in [Workers -> PC]
        /\ job \in [Workers -> Job]
    BY DEF Typed, TypeOK, OrdersTypeOK
  <1>1. CASE Quiet
    BY <1>1, StockQuietStep DEF Quiet, HoldsStay, CarriersStay, Carrying, StockQuiet
  <1>2. ASSUME NEW w \in Workers, ClaimCoupon(w)
        PROVE  StockNeverInvented'
    <2>1. \A o \in Orders : orders'[o].stockReserved => orders[o].stockReserved
      BY <1>0, <1>2 DEF ClaimCoupon, Update, Row
    <2>2. CASE Goto(w, "releaseCoupon")
      BY <1>0, <1>2, <2>1, <2>2, StockQuietStep
         DEF ClaimCoupon, Goto, Move, StockQuiet
    <2>3. CASE NextOrder(w)
      BY <1>2, <2>1, <2>3, NextOrderQuiet, StockQuietStep
         DEF ClaimCoupon, CarriersStay, Carrying, StockQuiet
    <2> QED
      BY <1>2, <2>2, <2>3 DEF ClaimCoupon
  <1>3. ASSUME NEW w \in Workers, ReleaseCoupon(w)
        PROVE  StockNeverInvented'
    BY <1>3, NextOrderQuiet, StockQuietStep
       DEF ReleaseCoupon, CarriersStay, Carrying, StockQuiet
  <1>4. ASSUME NEW w \in Workers, FulfillClaim(w)
        PROVE  StockNeverInvented'
    <2> DEFINE s == job[w].subject
               row == [WithPayment(orders[s], job[w].payment)
                         EXCEPT !.paymentStatus = "APPROVED",
                                !.status = job[w].status, !.paidAt = TRUE]
    <2>1. s \in Orders
      BY <1>4 DEF FulfillClaim, Typed, Grounded, WithSubject
    <2>2. row.stockReserved = orders[s].stockReserved
      BY <1>0, <2>1 DEF WithPayment, Row
    <2>3. UNCHANGED orders \/ Update(s, row)
      BY <1>4 DEF FulfillClaim
    <2> HIDE DEF row
    <2>4. \A o \in Orders : orders'[o].stockReserved => orders[o].stockReserved
      BY <1>0, <2>1, <2>2, <2>3 DEF Update
    <2>5. \A v \in Workers : pc'[v] = "returnStock" =>
             pc[v] = "returnStock" /\ job'[v].order = job[v].order
      BY <1>0, <1>4 DEF FulfillClaim, Goto, Finish, Move
    <2> QED
      BY <1>4, <2>4, <2>5, StockQuietStep DEF FulfillClaim, StockQuiet
  <1>5. ASSUME NEW w \in Workers, Revive(w)
        PROVE  StockNeverInvented'
    <2> DEFINE s == job[w].subject
    <2>1. s \in Orders
      BY <1>5 DEF Revive, Typed, Grounded, WithSubject
    <2>2. \A v \in Workers : pc'[v] = "returnStock" =>
             pc[v] = "returnStock" /\ job'[v].order = job[v].order
      BY <1>0, <1>5 DEF Revive, Goto, Move
    <2>3. CASE CanReserve(s) /\ ReserveStock(s)
      <3>1. \A x \in Orders : x # s => orders'[x] = orders[x]
        BY <1>0, <1>5, <2>3 DEF Revive, Update
      <3> QED
        BY <2>1, <2>2, <2>3, <3>1, ReserveStep
    <2>4. CASE ~(CanReserve(s) /\ ReserveStock(s))
      BY <1>5, <2>2, <2>4, StockQuietStep DEF Revive, StockQuiet
    <2> QED
      BY <2>3, <2>4
  <1>6. ASSUME NEW o \in Orders, Create(o)
        PROVE  StockNeverInvented'
    BY <1>0, <1>6, ReserveStep DEF Create, Update
  <1> QED
    BY <1>1, <1>2, <1>3, <1>4, <1>5, <1>6, ClaimStockStep, ReturnStockStep,
       StepsQuietOrLoud DEF Loud

\* Whatever the interleaving of checkouts, webhooks, sweeps, refunds and staff,
\* and wherever a handler dies, no unit is sold twice or given back twice: shelf,
\* orders and handlers together never have more than the store had.
THEOREM NoUnitInvented == Spec => []StockNeverInvented
  <1>1. Init => StockNeverInvented
    <2> SUFFICES ASSUME Init PROVE StockNeverInvented
      OBVIOUS
    <2>1. \A p \in Products : Held(p) = {} /\ Returning(p) = {}
      BY DEF Init, OrdersInit, Held, Returning, Absent
    <2> QED
      BY <2>1, FS_EmptySet, OrdersAssumption DEF Init, OrdersInit, StockNeverInvented
  <1>2. Typed /\ Existing /\ StockNeverInvented /\ [Next]_vars => StockNeverInvented'
    BY StockStep
  <1> QED
    BY <1>1, <1>2, Typing, ExistingHolds, PTL DEF Spec

-----------------------------------------------------------------------------
(* Coupon *)

LEMMA CouponSetsFinite ==
    /\ IsFiniteSet(CouponHolders) /\ IsFiniteSet(CouponHolders')
    /\ IsFiniteSet(CouponReleasing) /\ IsFiniteSet(CouponReleasing')
    /\ Cardinality(CouponHolders) \in Nat /\ Cardinality(CouponHolders') \in Nat
    /\ Cardinality(CouponReleasing) \in Nat
    /\ Cardinality(CouponReleasing') \in Nat
  <1>1. /\ CouponHolders \subseteq Orders /\ CouponHolders' \subseteq Orders
        /\ CouponReleasing \subseteq Workers /\ CouponReleasing' \subseteq Workers
    BY DEF CouponHolders, CouponReleasing
  <1> QED
    BY <1>1, SmallerSet, OrdersAssumption

\* The counter stays, and no order or handler takes hold of a use.
LEMMA CouponQuietStep ==
    ASSUME Typed, CouponCovered, usedCount' = usedCount,
           \A o \in Orders : orders'[o].couponReserved => orders[o].couponReserved,
           \A w \in Workers : pc'[w] = "releaseCoupon" => pc[w] = "releaseCoupon"
    PROVE  CouponCovered'
  <1>1. /\ CouponHolders' \subseteq CouponHolders
        /\ CouponReleasing' \subseteq CouponReleasing
    BY DEF CouponHolders, CouponReleasing
  <1>2. /\ Cardinality(CouponHolders') <= Cardinality(CouponHolders)
        /\ Cardinality(CouponReleasing') <= Cardinality(CouponReleasing)
    BY <1>1, CouponSetsFinite, SmallerSet
  <1> QED
    BY <1>2, CouponSetsFinite DEF CouponCovered, Typed, TypeOK, OrdersTypeOK

\* create: the use is counted in the same transaction that makes the order.
LEMMA CreateCoupon ==
    ASSUME Typed, CouponCovered, NEW o \in Orders, Create(o)
    PROVE  CouponCovered'
  <1>0. usedCount \in Nat /\ orders \in [Orders -> Row]
    BY DEF Typed, TypeOK, OrdersTypeOK
  <1>1. /\ orders'[o].couponReserved => o \in withCoupon
        /\ \A x \in Orders : x # o => orders'[x] = orders[x]
    BY <1>0 DEF Create, Update, Absent
  <1>2. CouponReleasing' = CouponReleasing
    BY DEF Create, CouponReleasing
  <1>3. CASE o \in withCoupon
    <2>1. usedCount' = usedCount + 1 /\ usedCount < maxUses
      BY <1>3 DEF Create
    <2>2. CouponHolders' \subseteq CouponHolders \cup {o}
      BY <1>1 DEF CouponHolders
    <2>3. Cardinality(CouponHolders') <= Cardinality(CouponHolders) + 1
      BY <2>2, CouponSetsFinite, OneMore
    <2> QED
      BY <1>0, <1>2, <2>1, <2>3, CouponSetsFinite, OrdersAssumption DEF CouponCovered
  <1>4. CASE o \notin withCoupon
    <2>1. usedCount' = usedCount
      BY <1>4 DEF Create
    <2>2. CouponHolders' \subseteq CouponHolders
      BY <1>1, <1>4 DEF CouponHolders
    <2>3. Cardinality(CouponHolders') <= Cardinality(CouponHolders)
      BY <2>2, CouponSetsFinite, SmallerSet
    <2> QED
      BY <1>0, <1>2, <2>1, <2>3, CouponSetsFinite DEF CouponCovered
  <1> QED
    BY <1>3, <1>4

\* releaseOrderCoupon, first statement: the use passes from the order to w.
LEMMA ClaimCouponStep ==
    ASSUME Typed, CouponCovered, NEW w \in Workers, ClaimCoupon(w)
    PROVE  CouponCovered'
  <1> DEFINE o == job[w].order
  <1>0. /\ usedCount \in Nat /\ orders \in [Orders -> Row] /\ o \in Orders
        /\ pc \in [Workers -> PC]
    BY DEF ClaimCoupon, Typed, TypeOK, OrdersTypeOK, Grounded, WithOrder
  <1>1. CASE orders[o].couponReserved
    <2>1. /\ ~orders'[o].couponReserved
          /\ \A x \in Orders : x # o => orders'[x] = orders[x]
      BY <1>0, <1>1 DEF ClaimCoupon, Update, Row
    <2>2. o \in CouponHolders /\ CouponHolders' \subseteq CouponHolders \ {o}
      BY <1>0, <1>1, <2>1 DEF CouponHolders
    <2>3. CouponReleasing' \subseteq CouponReleasing \cup {w}
      BY <1>0, <1>1 DEF ClaimCoupon, Goto, Move, CouponReleasing
    <2>4. /\ Cardinality(CouponHolders') <= Cardinality(CouponHolders) - 1
          /\ Cardinality(CouponReleasing') <= Cardinality(CouponReleasing) + 1
      BY <2>2, <2>3, CouponSetsFinite, OneLess, OneMore
    <2> QED
      BY <1>0, <2>4, CouponSetsFinite DEF ClaimCoupon, CouponCovered
  <1>2. CASE ~orders[o].couponReserved
    <2>1. UNCHANGED <<orders, usedCount>> /\ NextOrder(w)
      BY <1>2 DEF ClaimCoupon
    <2> QED
      BY <2>1, NextOrderQuiet, CouponQuietStep DEF CarriersStay, Carrying
  <1> QED
    BY <1>1, <1>2

\* releaseUsage: w gives its use back to the counter, which is never at zero.
LEMMA ReleaseCouponStep ==
    ASSUME Typed, CouponCovered, NEW w \in Workers, ReleaseCoupon(w)
    PROVE  CouponCovered'
  <1>0. usedCount \in Nat /\ pc \in [Workers -> PC] /\ job \in [Workers -> Job]
    BY DEF Typed, TypeOK, OrdersTypeOK
  <1>1. CouponHolders' = CouponHolders
    BY DEF ReleaseCoupon, CouponHolders
  <1>2. /\ w \in CouponReleasing
        /\ CouponReleasing' \subseteq CouponReleasing \ {w}
    <2>1. CarriersStay
      BY NextOrderQuiet DEF ReleaseCoupon
    <2>2. pc'[w] # "releaseCoupon"
      BY <1>0 DEF ReleaseCoupon, NextOrder, Finish, Move, Job
    <2> QED
      BY <2>1, <2>2 DEF CarriersStay, Carrying, ReleaseCoupon, CouponReleasing
  <1>3. /\ Cardinality(CouponReleasing') <= Cardinality(CouponReleasing) - 1
    BY <1>2, CouponSetsFinite, OneLess
  <1> QED
    BY <1>0, <1>1, <1>3, CouponSetsFinite, OrdersAssumption
       DEF ReleaseCoupon, CouponCovered

LEMMA CouponStep ==
    ASSUME Typed, Existing, CouponCovered, [Next]_vars
    PROVE  CouponCovered'
  <1>0. /\ orders \in [Orders -> Row] /\ pc \in [Workers -> PC]
        /\ job \in [Workers -> Job]
    BY DEF Typed, TypeOK, OrdersTypeOK
  <1>1. CASE Quiet
    BY <1>1, CouponQuietStep DEF Quiet, HoldsStay, CarriersStay, Carrying
  <1>2. ASSUME NEW w \in Workers, ClaimStock(w)
        PROVE  CouponCovered'
    <2>1. PICK o \in job[w].todo :
            \/ Update(o, [orders[o] EXCEPT !.stockReserved = FALSE])
            \/ UNCHANGED orders
      BY <1>2 DEF ClaimStock
    <2>2. \A x \in Orders : orders'[x].couponReserved => orders[x].couponReserved
      BY <1>0, <2>1 DEF Update, Row
    <2>3. \A v \in Workers : pc'[v] = "releaseCoupon" => pc[v] = "releaseCoupon"
      BY <1>0, <1>2 DEF ClaimStock, Move
    <2> QED
      BY <1>2, <2>2, <2>3, CouponQuietStep DEF ClaimStock
  <1>3. ASSUME NEW w \in Workers, ReturnStock(w)
        PROVE  CouponCovered'
    BY <1>0, <1>3, CouponQuietStep DEF ReturnStock, Goto, Move
  <1>4. ASSUME NEW w \in Workers, Revive(w)
        PROVE  CouponCovered'
    <2>1. \A x \in Orders : orders'[x].couponReserved => orders[x].couponReserved
      <3> DEFINE s == job[w].subject
                 row == [orders[s] EXCEPT !.stockReserved = TRUE,
                                          !.status = "PENDING",
                                          !.paymentStatus = "PENDING"]
      <3>1. s \in Orders
        BY <1>4 DEF Revive, Typed, Grounded, WithSubject
      <3>2. row.couponReserved = orders[s].couponReserved
        BY <1>0, <3>1 DEF Row
      <3>3. UNCHANGED orders \/ Update(s, row)
        BY <1>4 DEF Revive
      <3> HIDE DEF row
      <3> QED
        BY <1>0, <3>1, <3>2, <3>3 DEF Update
    <2>2. \A v \in Workers : pc'[v] = "releaseCoupon" => pc[v] = "releaseCoupon"
      BY <1>0, <1>4 DEF Revive, Goto, Move
    <2> QED
      BY <1>4, <2>1, <2>2, CouponQuietStep DEF Revive
  <1>5. ASSUME NEW w \in Workers, FulfillClaim(w)
        PROVE  CouponCovered'
    <2> DEFINE s == job[w].subject
               row == [WithPayment(orders[s], job[w].payment)
                         EXCEPT !.paymentStatus = "APPROVED",
                                !.status = job[w].status, !.paidAt = TRUE]
    <2>1. s \in Orders
      BY <1>5 DEF FulfillClaim, Typed, Grounded, WithSubject
    <2>2. row.couponReserved = orders[s].couponReserved
      BY <1>0, <2>1 DEF WithPayment, Row
    <2>3. UNCHANGED orders \/ Update(s, row)
      BY <1>5 DEF FulfillClaim
    <2> HIDE DEF row
    <2>4. \A o \in Orders : orders'[o].couponReserved => orders[o].couponReserved
      BY <1>0, <2>1, <2>2, <2>3 DEF Update
    <2>5. \A v \in Workers : pc'[v] = "releaseCoupon" => pc[v] = "releaseCoupon"
      BY <1>0, <1>5 DEF FulfillClaim, Goto, Finish, Move
    <2> QED
      BY <1>5, <2>4, <2>5, CouponQuietStep DEF FulfillClaim
  <1> QED
    BY <1>1, <1>2, <1>3, <1>4, <1>5, CreateCoupon, ClaimCouponStep,
       ReleaseCouponStep, StepsQuietOrLoud DEF Loud

\* The coupon's counter never passes maxUses and always covers every order that
\* holds a use and every use on its way back.
THEOREM CouponNeverUndercounted == Spec => []CouponCovered
  <1>1. Init => CouponCovered
    <2> SUFFICES ASSUME Init PROVE CouponCovered
      OBVIOUS
    <2>1. CouponHolders = {} /\ CouponReleasing = {}
      BY DEF Init, OrdersInit, CouponHolders, CouponReleasing, Absent
    <2> QED
      BY <2>1, FS_EmptySet, OrdersAssumption DEF Init, OrdersInit, CouponCovered
  <1>2. Typed /\ Existing /\ CouponCovered /\ [Next]_vars => CouponCovered'
    BY CouponStep
  <1> QED
    BY <1>1, <1>2, Typing, ExistingHolds, PTL DEF Spec

-----------------------------------------------------------------------------
(* Refunds *)

\* The gateway gave money back for order o.
MoneyBack(o) == \E p \in Payments : orderOf[p] = o /\ gateway[p] = "refunded"

\* A row of order o that speaks the truth about its money.
Backed(o, row) ==
    /\ Refunded(row) => MoneyBack(o)
    /\ row.mpPaymentId # NoPayment => orderOf[row.mpPaymentId] = o

\* What a handler remembers: the payment is its order's, a status it read may
\* be that of a refunded order, and on its way to the write of a refund it has
\* seen that one.
Refunding == {"hookRead", "hookRefund", "refundWrite"}
NearRefund == Refunding \cup {"refundPost"}
Truthful(w) ==
    /\ job[w].payment # NoPayment => orderOf[job[w].payment] = job[w].subject
    /\ job[w].status = "REFUNDED" => MoneyBack(job[w].subject)
    /\ pc[w] \in NearRefund => job[w].payment \in Payments
    /\ pc[w] \in Refunding => gateway[job[w].payment] = "refunded"

TrueToMoney ==
    (\A o \in Orders : Backed(o, orders[o])) /\ (\A w \in Workers : Truthful(w))

\* The gateway never takes money back that it gave back.
MoneyKept == \A p \in Payments : gateway[p] = "refunded" => gateway'[p] = "refunded"

LEMMA MoneyStays ==
    ASSUME Typed, [Next]_vars
    PROVE  MoneyKept
  <1>0. gateway \in [Payments -> GatewayStatus]
    BY DEF Typed, TypeOK
  <1>1. CASE UNCHANGED gateway
    BY <1>1 DEF MoneyKept
  <1>2. ASSUME NEW p \in Payments, CustomerPays(p) \/ Settle(p) \/ RefundOutside(p)
        PROVE  MoneyKept
    BY <1>0, <1>2 DEF CustomerPays, Settle, Pay, RefundOutside, MoneyKept
  <1>3. ASSUME NEW w \in Workers, PayPost(w) \/ RefundPost(w)
        PROVE  MoneyKept
    BY <1>0, <1>3 DEF PayPost, RefundPost, MoneyKept
  <1>4. ASSUME NEW w \in Workers, Step(w)
        PROVE  MoneyKept
    <2>1. \/ UNCHANGED gateway \/ PayPost(w) \/ RefundPost(w)
      BY <1>4 DEF Step, PaymentsStep, ExpireOne, HookRead, HookRefund, WriteRejected,
                  WritePending, WriteUnpaid, RefundRead, RefundWrite
    <2> QED
      BY <1>1, <1>3, <2>1
  <1>5. ASSUME NEW w \in Workers, PaymentsCall(w)
        PROVE  MoneyKept
    <2>1. UNCHANGED gateway
      BY <1>5, Zenon DEF PaymentsCall, PayCall, Webhook, ApproveRefund
    <2> QED
      BY <1>1, <2>1
  <1> QED
    BY <1>1, <1>2, <1>4, <1>5 DEF Next, vars

\* Every row after the step speaks the truth.
RowsBacked == \A o \in Orders : Backed(o, orders'[o])

LEMMA BackedStays ==
    ASSUME MoneyKept, RowsBacked
    PROVE  \A o \in Orders : Backed(o, orders[o])'
  BY DEF MoneyKept, RowsBacked, Backed, MoneyBack, Refunded

LEMMA UpdateBacked ==
    ASSUME Typed, TrueToMoney, NEW o \in Orders, NEW row, Update(o, row), Backed(o, row)
    PROVE  RowsBacked
  BY DEF Typed, TypeOK, OrdersTypeOK, TrueToMoney, Update, RowsBacked

LEMMA SameRowsBacked ==
    ASSUME TrueToMoney, UNCHANGED orders
    PROVE  RowsBacked
  BY DEF TrueToMoney, RowsBacked

\* A change of the other columns, or of the status to one not refunded.
LEMMA CalmBacked ==
    ASSUME NEW o, NEW old, Backed(o, old), NEW row,
           row.mpPaymentId = old.mpPaymentId,
           row.status # "REFUNDED" \/ row.status = old.status,
           row.paymentStatus # "REFUNDED" \/ row.paymentStatus = old.paymentStatus
    PROVE  Backed(o, row)
  BY DEF Backed, Refunded

LEMMA WithPaymentBacked ==
    ASSUME NEW o, NEW old \in Row, Backed(o, old), NEW p \in Payments \cup {NoPayment},
           p # NoPayment => orderOf[p] = o
    PROVE  WithPayment(old, p) \in Row /\ Backed(o, WithPayment(old, p))
  BY DEF WithPayment, Backed, Refunded, Row

LEMMA OrdersStepBacked ==
    ASSUME Typed, TrueToMoney, NEW w \in Workers, OrdersStep(w)
    PROVE  RowsBacked
  <1> DEFINE s == job[w].subject
  <1>0. /\ \A o \in Orders : orders[o] \in Row /\ Backed(o, orders[o])
        /\ job[w] \in Job /\ Truthful(w)
    BY DEF Typed, TypeOK, OrdersTypeOK, TrueToMoney
  <1>1. CASE UNCHANGED orders
    BY <1>1, SameRowsBacked
  <1>2. CASE Expire(w)
    <2> SUFFICES ASSUME NEW o \in Orders PROVE Backed(o, orders'[o])
      BY DEF RowsBacked
    <2> DEFINE row == [orders[o] EXCEPT !.status = "CANCELLED", !.paymentStatus = "CANCELLED"]
    <2>1. /\ row.status = "CANCELLED" /\ row.paymentStatus = "CANCELLED"
          /\ row.mpPaymentId = orders[o].mpPaymentId
      BY <1>0 DEF Row
    <2>2. orders'[o] = row \/ orders'[o] = orders[o]
      BY <1>2, Zenon DEF Expire
    <2> HIDE DEF row
    <2>3. Backed(o, row)
      BY <1>0, <2>1, CalmBacked
    <2> QED
      BY <1>0, <2>2, <2>3
  <1>3. CASE ClaimStock(w) \/ ClaimCoupon(w)
    <2>1. ASSUME NEW o, Update(o, [orders[o] EXCEPT !.stockReserved = FALSE])
          PROVE  RowsBacked
      <3>1. CASE o \in Orders
        BY <1>0, <2>1, <3>1, CalmBacked, UpdateBacked DEF Row
      <3>2. CASE o \notin Orders
        BY <2>1, <3>2, <1>0 DEF Update, RowsBacked, Typed, TypeOK, OrdersTypeOK
      <3> QED
        BY <3>1, <3>2
    <2>2. ASSUME NEW o, Update(o, [orders[o] EXCEPT !.couponReserved = FALSE])
          PROVE  RowsBacked
      <3>1. CASE o \in Orders
        BY <1>0, <2>2, <3>1, CalmBacked, UpdateBacked DEF Row
      <3>2. CASE o \notin Orders
        BY <2>2, <3>2, <1>0 DEF Update, RowsBacked, Typed, TypeOK, OrdersTypeOK
      <3> QED
        BY <3>1, <3>2
    <2> QED
      BY <1>1, <1>3, <2>1, <2>2 DEF ClaimStock, ClaimCoupon
  <1>4. CASE \/ Revive(w) \/ MarkApproved(w) \/ FulfillClaim(w) \/ RecordPayment(w)
             \/ AdminWrite(w) \/ ConfirmWrite(w) \/ RequestWrite(w) \/ RejectWrite(w)
             \/ PendingWrite(w) \/ ReceivedWrite(w)
    <2>1. s \in Orders
      BY <1>4 DEF Revive, MarkApproved, FulfillClaim, RecordPayment, AdminWrite, ConfirmWrite,
                  RequestWrite, RejectWrite, PendingWrite, ReceivedWrite,
                  Typed, Grounded, WithSubject
    <2>2. orders[s] \in Row /\ Backed(s, orders[s])
      BY <1>0, <2>1
    <2> DEFINE paid == WithPayment(orders[s], job[w].payment)
    <2>3. paid \in Row /\ Backed(s, paid)
      BY <1>0, <2>2, WithPaymentBacked DEF Job, Truthful
    <2>4. ASSUME NEW row, Update(s, row), Backed(s, row)
          PROVE  RowsBacked
      BY <2>1, <2>4, UpdateBacked
    <2>5. CASE Revive(w)
      <3> DEFINE row == [orders[s] EXCEPT !.stockReserved = TRUE, !.status = "PENDING",
                                          !.paymentStatus = "PENDING"]
      <3>1. /\ row.status = "PENDING" /\ row.paymentStatus = "PENDING"
            /\ row.mpPaymentId = orders[s].mpPaymentId
        BY <2>2 DEF Row
      <3>2. UNCHANGED orders \/ Update(s, row)
        BY <2>5 DEF Revive
      <3> HIDE DEF row
      <3>3. Backed(s, row)
        BY <2>2, <3>1, CalmBacked
      <3> QED
        BY <1>1, <2>4, <3>2, <3>3
    <2>6. CASE MarkApproved(w)
      <3> DEFINE row == [paid EXCEPT !.paymentStatus = "APPROVED"]
      <3>1. Update(s, row)
        BY <2>6 DEF MarkApproved
      <3> HIDE DEF paid
      <3>2. /\ row.status = paid.status /\ row.paymentStatus = "APPROVED"
            /\ row.mpPaymentId = paid.mpPaymentId
        BY <2>3 DEF Row
      <3> HIDE DEF row
      <3>3. Backed(s, row)
        BY <2>3, <3>2, CalmBacked
      <3> QED
        BY <2>4, <3>1, <3>3
    <2>7. CASE FulfillClaim(w)
      <3> DEFINE row == [paid EXCEPT !.paymentStatus = "APPROVED", !.status = job[w].status,
                                     !.paidAt = TRUE]
      <3>1. UNCHANGED orders \/ Update(s, row)
        BY <2>7 DEF FulfillClaim
      <3> HIDE DEF paid
      <3>2. /\ row.status = job[w].status /\ row.paymentStatus = "APPROVED"
            /\ row.mpPaymentId = paid.mpPaymentId
        BY <2>3 DEF Row
      <3> HIDE DEF row
      <3>3. Backed(s, row)
        BY <1>0, <2>3, <3>2 DEF Backed, Refunded, Truthful
      <3> QED
        BY <1>1, <2>4, <3>1, <3>3
    <2>8. CASE RecordPayment(w)
      BY <2>2, <2>3, <2>4, <2>8 DEF RecordPayment
    <2>9. CASE AdminWrite(w)
      <3> DEFINE row == WithStatus(orders[s], job[w].status)
      <3>1. /\ row.status = job[w].status /\ row.mpPaymentId = orders[s].mpPaymentId
            /\ row.paymentStatus = orders[s].paymentStatus
        BY <2>2 DEF WithStatus, Row
      <3>2. Update(s, row)
        BY <2>9 DEF AdminWrite
      <3> HIDE DEF row
      <3>3. Backed(s, row)
        BY <1>0, <2>2, <3>1 DEF Backed, Refunded, Truthful
      <3> QED
        BY <2>4, <3>2, <3>3
    <2>10. CASE ConfirmWrite(w)
      <3> DEFINE row == WithStatus(orders[s], "DELIVERED")
      <3>1. /\ row.status = "DELIVERED" /\ row.mpPaymentId = orders[s].mpPaymentId
            /\ row.paymentStatus = orders[s].paymentStatus
        BY <2>2 DEF WithStatus, Row
      <3>2. Update(s, row)
        BY <2>10 DEF ConfirmWrite
      <3> HIDE DEF row
      <3> QED
        BY <2>2, <2>4, <3>1, <3>2, CalmBacked
    <2>11. CASE RequestWrite(w) \/ RejectWrite(w) \/ PendingWrite(w) \/ ReceivedWrite(w)
      <3>1. ASSUME NEW row, Update(s, row), row.mpPaymentId = orders[s].mpPaymentId,
                   row.status = orders[s].status,
                   row.paymentStatus = orders[s].paymentStatus
            PROVE  RowsBacked
        BY <2>2, <2>4, <3>1, CalmBacked
      <3>2. ASSUME NEW status, Update(s, [orders[s] EXCEPT !.refundStatus = status])
            PROVE  RowsBacked
        BY <2>2, <3>1, <3>2 DEF Row
      <3>3. CASE RequestWrite(w)
        <4> DEFINE row == [orders[s] EXCEPT !.refundStatus = "REQUESTED",
                                            !.refundReasonType = job[w].reason]
        <4>1. Update(s, row)
          BY <3>3 DEF RequestWrite
        <4> QED
          BY <2>2, <3>1, <4>1 DEF Row
      <3>4. CASE ReceivedWrite(w)
        <4>1. Update(s, [orders[s] EXCEPT !.returnReceivedAt = TRUE])
          BY <3>4 DEF ReceivedWrite
        <4> QED
          BY <2>2, <3>1, <4>1 DEF Row
      <3> QED
        BY <2>11, <3>2, <3>3, <3>4 DEF RejectWrite, PendingWrite
    <2> QED
      BY <1>4, <2>5, <2>6, <2>7, <2>8, <2>9, <2>10, <2>11
  <1> QED
    BY <1>1, <1>2, <1>3, <1>4
       DEF OrdersStep, GiveBackStep, FulfillStep, ReturnStock, ReleaseCoupon, FulfillRead,
           FulfillStatus, ConfirmRead, RequestRead, PendingRead

LEMMA PaymentsStepBacked ==
    ASSUME Typed, TrueToMoney, NEW w \in Workers, PaymentsStep(w)
    PROVE  RowsBacked
  <1> DEFINE s == job[w].subject
  <1>0. /\ \A o \in Orders : orders[o] \in Row /\ Backed(o, orders[o])
        /\ job[w] \in Job /\ Truthful(w)
    BY DEF Typed, TypeOK, OrdersTypeOK, TrueToMoney
  <1>1. CASE PayPost(w) \/ HookRead(w) \/ RefundRead(w) \/ RefundPost(w)
    <2>1. UNCHANGED orders
      BY <1>1 DEF PayPost, HookRead, RefundRead, RefundPost
    <2> QED
      BY <2>1, SameRowsBacked
  <1>2. CASE \/ ExpireOne(w) \/ HookRefund(w) \/ WriteRejected(w) \/ WritePending(w)
             \/ RefundWrite(w)
    <2>1. s \in Orders
      BY <1>2 DEF ExpireOne, HookRefund, WriteRejected, WritePending, WriteUnpaid, RefundWrite,
                  Typed, Grounded, WithSubject
    <2>2. orders[s] \in Row /\ Backed(s, orders[s])
      BY <1>0, <2>1
    <2>3. ASSUME NEW row, Update(s, row), Backed(s, row)
          PROVE  RowsBacked
      BY <2>1, <2>3, UpdateBacked
    <2>4. CASE ExpireOne(w)
      <3> DEFINE row == [orders[s] EXCEPT !.status = "CANCELLED",
                                          !.paymentStatus = "CANCELLED"]
      <3>1. /\ row.status = "CANCELLED" /\ row.paymentStatus = "CANCELLED"
            /\ row.mpPaymentId = orders[s].mpPaymentId
        BY <2>2 DEF Row
      <3>2. Update(s, row)
        BY <2>4 DEF ExpireOne
      <3> HIDE DEF row
      <3> QED
        BY <2>2, <2>3, <3>1, <3>2, CalmBacked
    <2>5. ASSUME pc[w] \in Refunding
          PROVE  MoneyBack(s)
      <3>1. job[w].payment \in Payments /\ job[w].payment # NoPayment
        BY <1>0, <2>5, OrdersAssumption DEF Truthful, NearRefund
      <3> QED
        BY <1>0, <2>5, <3>1 DEF Truthful, MoneyBack
    <2>6. AsRefunded(orders[s]) \in Row
          /\ AsRefunded(orders[s]).mpPaymentId = orders[s].mpPaymentId
      BY <2>2 DEF AsRefunded, Row, Status, OrderStatus, PaymentStatus, RefundStatus
    <2>7. pc[w] \in Refunding => Backed(s, AsRefunded(orders[s]))
      BY <2>2, <2>5, <2>6 DEF Backed
    <2>8. CASE HookRefund(w)
      <3>1. pc[w] \in Refunding
        BY <2>8 DEF HookRefund, Refunding
      <3>2. Backed(s, WithPayment(AsRefunded(orders[s]), job[w].payment))
        BY <1>0, <2>6, <2>7, <3>1, WithPaymentBacked DEF Job, Truthful
      <3> QED
        BY <2>3, <2>8, <3>2 DEF HookRefund
    <2>9. CASE RefundWrite(w)
      <3>1. pc[w] \in Refunding
        BY <2>9 DEF RefundWrite, Refunding
      <3> QED
        BY <2>3, <2>7, <2>9, <3>1 DEF RefundWrite
    <2>10. ASSUME NEW l, NEW status \in {"REJECTED", "PENDING"}, WriteUnpaid(w, l, status)
           PROVE  RowsBacked
      <3> DEFINE row == [orders[s] EXCEPT !.mpPaymentId = job[w].payment,
                                          !.paymentStatus = status]
      <3>1. /\ row.status = orders[s].status /\ row.paymentStatus = status
            /\ row.mpPaymentId = job[w].payment
        BY <2>2 DEF Row
      <3>2. Update(s, row)
        BY <2>10 DEF WriteUnpaid
      <3> HIDE DEF row
      <3>3. Backed(s, row)
        BY <1>0, <2>2, <3>1 DEF Backed, Refunded, Truthful
      <3> QED
        BY <2>3, <3>2, <3>3
    <2> QED
      BY <1>2, <2>4, <2>8, <2>9, <2>10 DEF WriteRejected, WritePending
  <1> QED
    BY <1>1, <1>2 DEF PaymentsStep

LEMMA OthersBacked ==
    ASSUME Typed, TrueToMoney,
           \/ \E w \in Workers : OrdersCall(w) \/ OrdersFailure(w) \/ PaymentsCall(w)
           \/ \E o \in Orders : Create(o) \/ Age(o) \/ WindowCloses(o)
           \/ \E p \in Payments : CustomerPays(p) \/ Settle(p) \/ RefundOutside(p)
           \/ UNCHANGED vars
    PROVE  RowsBacked
  <1>0. \A o \in Orders : orders[o] \in Row /\ Backed(o, orders[o])
    BY DEF Typed, TypeOK, OrdersTypeOK, TrueToMoney
  <1>1. ASSUME NEW w \in Workers, NEW S \in SUBSET Orders, NEW status \in Asked,
               BulkStatus(w, S, status)
        PROVE  RowsBacked
    <2> SUFFICES ASSUME NEW o \in Orders PROVE Backed(o, orders'[o])
      BY DEF RowsBacked
    <2> DEFINE row == [orders[o] EXCEPT !.status = status,
                                        !.shippedAt = @ \/ status = "SHIPPED"]
    <2>1. /\ row.status = status /\ row.paymentStatus = orders[o].paymentStatus
          /\ row.mpPaymentId = orders[o].mpPaymentId
      BY <1>0 DEF Row
    <2>2. orders'[o] = row \/ orders'[o] = orders[o]
      BY <1>1, Zenon DEF BulkStatus
    <2>3. status # "REFUNDED"
      BY <1>1, Zenon DEF BulkStatus
    <2> HIDE DEF row
    <2>4. Backed(o, row)
      BY <1>0, <2>1, <2>3, CalmBacked
    <2> QED
      BY <1>0, <2>2, <2>4
  <1>2. ASSUME NEW o \in Orders, Create(o) \/ Age(o) \/ WindowCloses(o)
        PROVE  RowsBacked
    <2>1. ASSUME NEW row, Update(o, row), row.mpPaymentId = orders[o].mpPaymentId,
                 row.status = orders[o].status, row.paymentStatus = orders[o].paymentStatus
          PROVE  RowsBacked
      BY <1>0, <2>1, CalmBacked, UpdateBacked
    <2>2. CASE Create(o)
      <3> DEFINE row == [Absent EXCEPT !.status = "PENDING", !.stockReserved = TRUE,
                                       !.couponReserved = (o \in withCoupon)]
      <3>1. row.status = "PENDING" /\ row.paymentStatus = "PENDING"
            /\ row.mpPaymentId = NoPayment
        BY DEF Absent
      <3>2. Update(o, row)
        BY <2>2, Zenon DEF Create
      <3> HIDE DEF row
      <3>3. Backed(o, row)
        BY <3>1 DEF Backed, Refunded
      <3> QED
        BY <3>2, <3>3, UpdateBacked
    <2>3. CASE Age(o)
      BY <1>0, <2>1, <2>3 DEF Age, Row
    <2>4. CASE WindowCloses(o)
      BY <1>0, <2>1, <2>4 DEF WindowCloses, Row
    <2> QED
      BY <1>2, <2>2, <2>3, <2>4
  <1>3. ASSUME NEW w \in Workers, OrdersCall(w)
        PROVE  RowsBacked
    <2>1. \/ UNCHANGED orders
          \/ \E S \in SUBSET Orders, status \in Asked : BulkStatus(w, S, status)
      BY <1>3, Zenon DEF OrdersCall, Sweep, AdminStatus, ConfirmDelivered, RequestRefund,
                         RejectRefund, ReturnReceived
    <2> QED
      BY <1>1, <2>1, SameRowsBacked
  <1>4. ASSUME NEW w \in Workers, PaymentsCall(w)
        PROVE  UNCHANGED orders
    BY <1>4, Zenon DEF PaymentsCall, PayCall, Webhook, ApproveRefund
  <1>5. ASSUME NEW w \in Workers, OrdersFailure(w)
        PROVE  UNCHANGED orders
    BY <1>5, Zenon DEF OrdersFailure, Crash, SweepFails, BulkFails
  <1>6. ASSUME NEW p \in Payments, CustomerPays(p) \/ Settle(p) \/ RefundOutside(p)
        PROVE  UNCHANGED orders
    BY <1>6 DEF CustomerPays, Settle, RefundOutside, Pay, ordersVars
  <1>7. CASE UNCHANGED vars
    BY <1>7, SameRowsBacked DEF vars
  <1> QED
    BY <1>2, <1>3, <1>4, <1>5, <1>6, <1>7, SameRowsBacked

\* Worker w goes on with the order, the payment and the status it remembers, or
\* has forgotten payment and status, and is not on its way to a refund.
GoesOnCalm(w) ==
    /\ \A v \in Workers : v # w => job'[v] = job[v] /\ pc'[v] = pc[v]
    /\ \/ job'[w].payment = NoPayment /\ job'[w].status # "REFUNDED"
       \/ /\ job'[w].subject = job[w].subject /\ job'[w].payment = job[w].payment
          /\ job'[w].status = job[w].status
    /\ pc'[w] \notin NearRefund

LEMMA MoneyBackStays ==
    ASSUME MoneyKept, NEW o, MoneyBack(o)
    PROVE  MoneyBack(o)'
  BY DEF MoneyKept, MoneyBack

\* What a handler remembers stays true.
LEMMA StillTruthful ==
    ASSUME MoneyKept, NEW w \in Workers, Truthful(w), job'[w].subject = job[w].subject,
           job'[w].payment = job[w].payment, job'[w].status = job[w].status,
           pc'[w] \in NearRefund => pc[w] \in Refunding \/ pc'[w] = pc[w]
    PROVE  Truthful(w)'
  <1>1. PICK s : s = job[w].subject
    OBVIOUS
  <1>2. job[w].status = "REFUNDED" => MoneyBack(s)'
    BY <1>1, MoneyBackStays DEF Truthful
  <1>3. pc'[w] \in NearRefund => job[w].payment \in Payments
    BY DEF Truthful, NearRefund, Refunding
  <1>4. pc'[w] \in Refunding => gateway'[job[w].payment] = "refunded"
    BY <1>3 DEF Truthful, NearRefund, Refunding, MoneyKept
  <1> QED
    BY <1>1, <1>2, <1>3, <1>4 DEF Truthful, MoneyBack

\* One worker moved: the others know what they knew.
LEMMA OthersTruthful ==
    ASSUME TrueToMoney, MoneyKept, NEW w \in Workers,
           \A v \in Workers : v # w => job'[v] = job[v] /\ pc'[v] = pc[v],
           Truthful(w)'
    PROVE  \A v \in Workers : Truthful(v)'
  <1> SUFFICES ASSUME NEW v \in Workers, v # w PROVE Truthful(v)'
    OBVIOUS
  <1>1. Truthful(v) /\ job'[v] = job[v] /\ pc'[v] = pc[v]
    BY DEF TrueToMoney
  <1> QED
    BY <1>1, StillTruthful

LEMMA CalmTruthful ==
    ASSUME TrueToMoney, MoneyKept, NEW w \in Workers, GoesOnCalm(w)
    PROVE  \A v \in Workers : Truthful(v)'
  <1>1. Truthful(w)
    BY DEF TrueToMoney
  <1>2. ASSUME job'[w].payment = NoPayment /\ job'[w].status # "REFUNDED"
        PROVE  Truthful(w)'
    <2>1. pc'[w] \notin NearRefund /\ pc'[w] \notin Refunding
      BY DEF GoesOnCalm, NearRefund
    <2> QED
      BY <1>2, <2>1 DEF Truthful
  <1>3. ASSUME job'[w].subject = job[w].subject, job'[w].payment = job[w].payment,
               job'[w].status = job[w].status
        PROVE  Truthful(w)'
    <2>1. pc'[w] \in NearRefund => pc[w] \in Refunding \/ pc'[w] = pc[w]
      BY DEF GoesOnCalm
    <2> QED
      BY <1>1, <1>3, <2>1, StillTruthful
  <1>4. Truthful(w)'
    BY <1>2, <1>3 DEF GoesOnCalm
  <1> QED
    BY <1>4, OthersTruthful DEF GoesOnCalm

LEMMA MovesCalm ==
    ASSUME Typed, NEW w \in Workers,
           \/ Finish(w) \/ NextOrder(w)
           \/ \E l : l \notin NearRefund /\ Goto(w, l)
           \/ \E S : GiveBack(w, S)
    PROVE  GoesOnCalm(w)
  <1>0. job[w] \in Job /\ job \in [Workers -> Job] /\ pc \in [Workers -> PC]
    BY DEF Typed, TypeOK, OrdersTypeOK
  <1>1. CASE Finish(w)
    BY <1>0, <1>1 DEF Finish, Move, NoJob, GoesOnCalm, NearRefund, Refunding
  <1>2. ASSUME NEW l, l \notin NearRefund, Goto(w, l) PROVE GoesOnCalm(w)
    BY <1>0, <1>2 DEF Goto, Move, GoesOnCalm
  <1>3. ASSUME NEW l, l \notin NearRefund, NEW S, Move(w, l, [job[w] EXCEPT !.todo = S])
        PROVE  GoesOnCalm(w)
    BY <1>0, <1>3 DEF Move, GoesOnCalm, Job
  <1>4. ASSUME NEW l, l \notin NearRefund,
               Move(w, l, [job[w] EXCEPT !.todo = {}, !.order = NoOrder])
        PROVE  GoesOnCalm(w)
    BY <1>0, <1>4 DEF Move, GoesOnCalm, Job
  <1>5. "claimStock" \notin NearRefund /\ job[w].next \notin NearRefund
    BY <1>0 DEF NearRefund, Refunding, Job
  <1> QED
    BY <1>1, <1>2, <1>3, <1>4, <1>5, Zenon DEF NextOrder, GiveBack

LEMMA OrdersStepCalm ==
    ASSUME Typed, NEW w \in Workers, OrdersStep(w) \/ OrdersFailure(w), ~FulfillStatus(w)
    PROVE  GoesOnCalm(w)
  <1>0. job[w] \in Job /\ job \in [Workers -> Job] /\ pc \in [Workers -> PC]
    BY DEF Typed, TypeOK, OrdersTypeOK
  <1>1. CASE Expire(w) \/ GiveBackStep(w)
    <2>1. CASE ClaimStock(w)
      <3>1. PICK o \in job[w].todo, l \in {"returnStock", "claimCoupon"} :
              job' = [job EXCEPT ![w] = [job[w] EXCEPT !.order = o]]
              /\ pc' = [pc EXCEPT ![w] = l]
        BY <2>1 DEF ClaimStock, Move
      <3> QED
        BY <1>0, <3>1 DEF GoesOnCalm, Job, NearRefund, Refunding
    <2>2. ASSUME Expire(w) \/ ReturnStock(w) \/ ClaimCoupon(w) \/ ReleaseCoupon(w)
          PROVE  \/ NextOrder(w) \/ \E S : GiveBack(w, S)
                 \/ \E l : l \notin NearRefund /\ Goto(w, l)
      <3>1. {"claimCoupon", "releaseCoupon"} \cap NearRefund = {}
        BY DEF NearRefund, Refunding
      <3> QED
        BY <2>2, <3>1, Zenon DEF Expire, ReturnStock, ClaimCoupon, ReleaseCoupon
    <2> QED
      BY <1>1, <2>1, <2>2, MovesCalm DEF GiveBackStep
  <1>2. CASE FulfillStep(w)
    BY <1>2, MovesCalm DEF FulfillStep, FulfillRead, Revive, MarkApproved,
                           FulfillClaim, RecordPayment, NearRefund, Refunding
  <1>3. CASE \/ AdminWrite(w) \/ ConfirmRead(w) \/ ConfirmWrite(w)
             \/ RequestRead(w) \/ RequestWrite(w) \/ RejectWrite(w)
             \/ PendingRead(w) \/ PendingWrite(w) \/ ReceivedWrite(w)
    BY <1>3, MovesCalm
       DEF AdminWrite, ConfirmRead, ConfirmWrite, RequestRead, RequestWrite,
           RejectWrite, PendingRead, PendingWrite, ReceivedWrite, NearRefund, Refunding
  <1>4. CASE Crash(w)
    BY <1>0, <1>4 DEF Crash, GoesOnCalm, NoJob, NearRefund, Refunding
  <1>5. CASE SweepFails(w)
    BY <1>0, <1>5 DEF SweepFails, GoesOnCalm, Job, NearRefund, Refunding
  <1>6. CASE BulkFails(w)
    <2>1. ASSUME NEW o, Move(w, "claimCoupon", [job[w] EXCEPT !.order = o])
          PROVE  GoesOnCalm(w)
      BY <1>0, <2>1 DEF Move, GoesOnCalm, Job, NearRefund, Refunding
    <2>2. "claimCoupon" \notin NearRefund
      BY DEF NearRefund, Refunding
    <2> QED
      BY <1>6, <2>1, <2>2, MovesCalm, Zenon DEF BulkFails
  <1> QED
    BY <1>1, <1>2, <1>3, <1>4, <1>5, <1>6 DEF OrdersStep, OrdersFailure

LEMMA FulfillStatusTruthful ==
    ASSUME Typed, TrueToMoney, MoneyKept, NEW w \in Workers, FulfillStatus(w)
    PROVE  \A v \in Workers : Truthful(v)'
  <1> PICK s : s = job[w].subject
    OBVIOUS
  <1>0. job[w] \in Job /\ job \in [Workers -> Job] /\ pc \in [Workers -> PC]
    BY DEF Typed, TypeOK, OrdersTypeOK
  <1>1. s \in Orders
    BY DEF FulfillStatus, Typed, Grounded, WithSubject
  <1>2. /\ job'[w].subject = s /\ job'[w].payment = job[w].payment
        /\ job'[w].status = "REFUNDED" => Refunded(orders[s])
        /\ pc'[w] \notin NearRefund
        /\ \A v \in Workers : v # w => job'[v] = job[v] /\ pc'[v] = pc[v]
    BY <1>0 DEF FulfillStatus, Move, Job, NearRefund, Refunding, Refunded
  <1>3. job'[w].status = "REFUNDED" => MoneyBack(s)'
    BY <1>1, <1>2, MoneyBackStays DEF TrueToMoney, Backed
  <1>4. Truthful(w)'
    BY <1>2, <1>3 DEF TrueToMoney, Truthful, MoneyBack, NearRefund, Refunding
  <1> QED
    BY <1>2, <1>4, OthersTruthful

LEMMA PaymentsStepTruthful ==
    ASSUME Typed, TrueToMoney, MoneyKept, NEW w \in Workers, PaymentsStep(w)
    PROVE  \A v \in Workers : Truthful(v)'
  <1>0. job[w] \in Job /\ job \in [Workers -> Job] /\ pc \in [Workers -> PC]
        /\ gateway \in [Payments -> GatewayStatus] /\ Truthful(w)
    BY DEF Typed, TypeOK, OrdersTypeOK, TrueToMoney
  <1>1. CASE \/ ExpireOne(w) \/ PayPost(w) \/ HookRefund(w)
             \/ WriteRejected(w) \/ WritePending(w)
    <2>1. GoesOnCalm(w)
      <3>1. \A x \in {"approved", "pending", "rejected"} : AfterPayment(x) \notin NearRefund
        BY DEF AfterPayment, NearRefund, Refunding
      <3> QED
        BY <1>1, <3>1, MovesCalm DEF ExpireOne, PayPost, HookRefund, WriteRejected,
                                     WritePending, WriteUnpaid
    <2> QED
      BY <2>1, CalmTruthful
  <1>2. CASE HookRead(w)
    <2>1. /\ job'[w].subject = job[w].subject /\ job'[w].payment = job[w].payment
          /\ job'[w].status = job[w].status /\ pc[w] \in Refunding
          /\ \A v \in Workers : v # w => job'[v] = job[v] /\ pc'[v] = pc[v]
      BY <1>0, <1>2 DEF HookRead, Move, Job, Refunding
    <2>3. Truthful(w)'
      BY <1>0, <2>1, StillTruthful
    <2> QED
      BY <2>1, <2>3, OthersTruthful
  <1>3. CASE RefundRead(w)
    <2> PICK s, p : s = job[w].subject /\ p = orders[s].mpPaymentId
      OBVIOUS
    <2>1. s \in Orders
      BY <1>3 DEF RefundRead, Typed, Grounded, WithSubject
    <2>2. CASE Finish(w)
      BY <2>2, MovesCalm, CalmTruthful
    <2>3. CASE p # NoPayment /\ Move(w, "refundPost", [job[w] EXCEPT !.payment = p])
      <3>1. /\ job'[w].subject = s /\ job'[w].payment = p
            /\ job'[w].status = job[w].status /\ pc'[w] \notin Refunding
            /\ \A v \in Workers : v # w => job'[v] = job[v] /\ pc'[v] = pc[v]
        BY <1>0, <2>3 DEF Move, Job, Refunding
      <3>2. orderOf[p] = s /\ p \in Payments
        BY <2>1, <2>3 DEF TrueToMoney, Backed, Typed, TypeOK, OrdersTypeOK, Row
      <3>3. job[w].status = "REFUNDED" => MoneyBack(s)'
        BY <1>0, MoneyBackStays DEF Truthful
      <3>4. Truthful(w)'
        BY <3>1, <3>2, <3>3 DEF Truthful, MoneyBack
      <3> QED
        BY <3>1, <3>4, OthersTruthful
    <2> QED
      BY <1>3, <2>2, <2>3, Zenon DEF RefundRead
  <1>4. CASE RefundPost(w)
    <2>1. CASE Finish(w)
      BY <2>1, MovesCalm, CalmTruthful
    <2>2. CASE /\ gateway[job[w].payment] \in {"approved", "refunded"}
               /\ gateway' = [gateway EXCEPT ![job[w].payment] = "refunded"]
               /\ Goto(w, "refundWrite")
      <3>1. /\ job'[w] = job[w]
            /\ \A v \in Workers : v # w => job'[v] = job[v] /\ pc'[v] = pc[v]
        BY <1>0, <2>2 DEF Goto, Move
      <3>2. job[w].payment \in Payments
        BY <1>0, <1>4 DEF RefundPost, Truthful, NearRefund, Refunding
      <3> PICK s : s = job[w].subject
        OBVIOUS
      <3>3. job[w].status = "REFUNDED" => MoneyBack(s)'
        BY <1>0, MoneyBackStays DEF Truthful
      <3>4. gateway'[job[w].payment] = "refunded"
        BY <1>0, <2>2, <3>2
      <3>5. Truthful(w)'
        BY <1>0, <3>1, <3>2, <3>3, <3>4 DEF Truthful, MoneyBack
      <3> QED
        BY <3>1, <3>5, OthersTruthful
    <2> QED
      BY <1>4, <2>1, <2>2 DEF RefundPost
  <1>5. CASE RefundWrite(w)
    <2>1. ASSUME NEW S, NEW o, Move(w, "claimCoupon", [job[w] EXCEPT !.todo = S, !.order = o])
          PROVE  GoesOnCalm(w)
      BY <1>0, <2>1 DEF Move, GoesOnCalm, Job, NearRefund, Refunding
    <2>2. GoesOnCalm(w)
      BY <1>5, <2>1, MovesCalm, Zenon DEF RefundWrite
    <2> QED
      BY <2>2, CalmTruthful
  <1> QED
    BY <1>1, <1>2, <1>3, <1>4, <1>5 DEF PaymentsStep

\* A call starts with a new job: what a webhook goes on with is the status that
\* it fetched, and no member of the staff may ask for "refunded".
LEMMA CallsTruthful ==
    ASSUME Typed, TrueToMoney, MoneyKept, NEW w \in Workers, OrdersCall(w) \/ PaymentsCall(w)
    PROVE  \A v \in Workers : Truthful(v)'
  <1> DEFINE Goal == \A v \in Workers : Truthful(v)'
  <1> SUFFICES Goal
    OBVIOUS
  <1>0. /\ job \in [Workers -> Job] /\ pc \in [Workers -> PC]
        /\ gateway \in [Payments -> GatewayStatus]
    BY DEF Typed, TypeOK, OrdersTypeOK
  <1>1. ASSUME NEW l, NEW j, job' = [job EXCEPT ![w] = j], pc' = [pc EXCEPT ![w] = l],
               j.payment = NoPayment, j.status # "REFUNDED", l \notin NearRefund
        PROVE  Goal
    <2>1. GoesOnCalm(w)
      BY <1>0, <1>1 DEF GoesOnCalm
    <2> QED
      BY <2>1, CalmTruthful
  <1>2. ASSUME NEW op, NEW l, NEW j, Take(w, op, l, j),
               j.payment = NoPayment, j.status # "REFUNDED", l \notin NearRefund
        PROVE  Goal
    BY <1>1, <1>2 DEF Take
  <1> HIDE DEF Goal
  <1>3. CASE Sweep(w)
    <2> DEFINE j == [NoJob EXCEPT !.todo = {o \in Orders : Stale(o)}]
    <2>1. job' = [job EXCEPT ![w] = j] /\ pc' = [pc EXCEPT ![w] = "expire"]
      BY <1>3 DEF Sweep
    <2>2. j.payment = NoPayment /\ j.status # "REFUNDED" /\ "expire" \notin NearRefund
      BY DEF NoJob, NearRefund, Refunding
    <2> HIDE DEF j
    <2> QED
      BY <1>1, <2>1, <2>2, Zenon
  <1>4. ASSUME NEW o \in Orders, NEW s \in Asked, AdminStatus(w, o, s)
        PROVE  Goal
    <2> DEFINE j == [NoJob EXCEPT !.subject = o, !.status = s,
                                  !.changed = (orders[o].status # s)]
    <2>1. \E l \in {"fulfillRead", "adminWrite"} : Take(w, "status", l, j)
      BY <1>4, Zenon DEF AdminStatus
    <2>2. j.payment = NoPayment /\ j.status = s
      BY DEF NoJob
    <2>3. s # "REFUNDED"
      BY <1>4, Zenon DEF AdminStatus
    <2>4. \A l \in {"fulfillRead", "adminWrite"} : l \notin NearRefund
      BY DEF NearRefund, Refunding
    <2> HIDE DEF j
    <2> QED
      BY <1>2, <2>1, <2>2, <2>3, <2>4
  <1>5. ASSUME NEW op, NEW o \in Orders, NEW next \in {"confirmRead", "requestRead"}, NEW r,
               SweepThen(w, op, o, next, r)
        PROVE  Goal
    <2> DEFINE j == [NoJob EXCEPT !.subject = o, !.next = next, !.reason = r,
                                  !.todo = {x \in Orders : Stale(x)}]
    <2>1. \E l \in {next, "expire"} : Take(w, op, l, j)
      BY <1>5, Zenon DEF SweepThen
    <2>2. j.payment = NoPayment /\ j.status # "REFUNDED"
      BY DEF NoJob
    <2>3. \A l \in {next, "expire"} : l \notin NearRefund
      BY DEF NearRefund, Refunding
    <2> HIDE DEF j
    <2> QED
      BY <1>2, <2>1, <2>2, <2>3
  <1>6. ASSUME NEW op, NEW l, NEW o \in Orders, l \notin NearRefund,
               Take(w, op, l, [NoJob EXCEPT !.subject = o])
        PROVE  Goal
    <2>1. [NoJob EXCEPT !.subject = o].payment = NoPayment
          /\ [NoJob EXCEPT !.subject = o].status # "REFUNDED"
      BY DEF NoJob
    <2> QED
      BY <1>2, <1>6, <2>1
  <1>7. ASSUME NEW S \in SUBSET Orders, NEW s \in Asked, BulkStatus(w, S, s)
        PROVE  Goal
    <2>1. \/ Take(w, "bulk", "idle", NoJob)
          \/ Take(w, "bulk", "claimStock", [NoJob EXCEPT !.todo = S, !.lenient = TRUE])
      BY <1>7, Zenon DEF BulkStatus
    <2>2. "idle" \notin NearRefund /\ "claimStock" \notin NearRefund
      BY DEF NearRefund, Refunding
    <2>3. /\ NoJob.payment = NoPayment /\ NoJob.status # "REFUNDED"
          /\ [NoJob EXCEPT !.todo = S, !.lenient = TRUE].payment = NoPayment
          /\ [NoJob EXCEPT !.todo = S, !.lenient = TRUE].status # "REFUNDED"
      BY DEF NoJob
    <2> QED
      BY <1>2, <2>1, <2>2, <2>3, Zenon
  <1>8. CASE OrdersCall(w)
    <2>1. ASSUME NEW o \in Orders, NEW r \in RefundReasons, RequestRefund(w, o, r)
          PROVE  Goal
      BY <1>5, <2>1 DEF RequestRefund
    <2>2. ASSUME NEW o \in Orders, ConfirmDelivered(w, o)
          PROVE  Goal
      BY <1>5, <2>2 DEF ConfirmDelivered
    <2>3. ASSUME NEW o \in Orders, RejectRefund(w, o) \/ ReturnReceived(w, o)
          PROVE  Goal
      <3>1. "rejectWrite" \notin NearRefund /\ "receivedWrite" \notin NearRefund
        BY DEF NearRefund, Refunding
      <3> QED
        BY <1>6, <2>3, <3>1 DEF RejectRefund, ReturnReceived
    <2> QED
      BY <1>3, <1>4, <1>7, <1>8, <2>1, <2>2, <2>3, Zenon DEF OrdersCall
  <1>9. ASSUME NEW op, NEW l, NEW p \in Payments,
               Take(w, op, l, [NoJob EXCEPT !.subject = orderOf[p], !.payment = p]),
               l \notin NearRefund \/ (l = "hookRead" /\ gateway[p] = "refunded")
        PROVE  Goal
    <2> DEFINE j == [NoJob EXCEPT !.subject = orderOf[p], !.payment = p]
    <2>1. /\ job'[w] = j /\ pc'[w] = l
          /\ \A v \in Workers : v # w => job'[v] = job[v] /\ pc'[v] = pc[v]
      BY <1>0, <1>9 DEF Take
    <2>2. j.subject = orderOf[p] /\ j.payment = p /\ j.status # "REFUNDED"
      BY DEF NoJob
    <2> HIDE DEF j
    <2>3. Truthful(w)'
      BY <1>9, <2>1, <2>2 DEF Truthful, MoneyBack, MoneyKept, NearRefund, Refunding
    <2> QED
      BY <2>1, <2>3, OthersTruthful DEF Goal
  <1>10. CASE PaymentsCall(w)
    <2>1. ASSUME NEW p \in Payments, PayCall(w, p)
          PROVE  Goal
      <3>1. \E l \in {"expireOne", "payPost"} :
               Take(w, "pay", l, [NoJob EXCEPT !.subject = orderOf[p], !.payment = p])
        BY <2>1, Zenon DEF PayCall
      <3>2. \A l \in {"expireOne", "payPost"} : l \notin NearRefund
        BY DEF NearRefund, Refunding
      <3> QED
        BY <1>9, <3>1, <3>2, Zenon
    <2>2. ASSUME NEW p \in Payments, Webhook(w, p)
          PROVE  Goal
      <3>1. gateway[p] \in {"pending", "approved", "rejected", "refunded"}
        BY <1>0, <2>2 DEF Webhook, GatewayStatus
      <3>2. PICK l : l = AfterPayment(gateway[p])
        OBVIOUS
      <3>3. l \notin NearRefund \/ (l = "hookRead" /\ gateway[p] = "refunded")
        BY <3>1, <3>2 DEF AfterPayment, NearRefund, Refunding
      <3>4. Take(w, "webhook", l, [NoJob EXCEPT !.subject = orderOf[p], !.payment = p])
        BY <2>2, <3>2 DEF Webhook
      <3> QED
        BY <1>9, <3>3, <3>4, Zenon
    <2>3. ASSUME NEW o \in Orders, ApproveRefund(w, o)
          PROVE  Goal
      <3>1. \E l \in {"pendingRead", "refundRead"} :
               Take(w, "refund", l, [NoJob EXCEPT !.subject = o])
        BY <2>3, Zenon DEF ApproveRefund
      <3>2. \A l \in {"pendingRead", "refundRead"} : l \notin NearRefund
        BY DEF NearRefund, Refunding
      <3> QED
        BY <1>6, <3>1, <3>2
    <2> QED
      BY <1>10, <2>1, <2>2, <2>3, Zenon DEF PaymentsCall
  <1> QED
    BY <1>8, <1>10

LEMMA TrueToMoneyStep ==
    ASSUME Typed, TrueToMoney, [Next]_vars
    PROVE  TrueToMoney'
  <1>1. MoneyKept
    BY MoneyStays
  <1>2. RowsBacked
    BY OrdersStepBacked, PaymentsStepBacked, OthersBacked DEF Next, Step
  <1>3. \A o \in Orders : Backed(o, orders[o])'
    BY <1>1, <1>2, BackedStays
  <1>4. \A w \in Workers : Truthful(w)'
    <2>1. ASSUME NEW w \in Workers, OrdersStep(w) \/ OrdersFailure(w)
          PROVE  \A v \in Workers : Truthful(v)'
      BY <1>1, <2>1, OrdersStepCalm, CalmTruthful, FulfillStatusTruthful
    <2>2. ASSUME NEW w \in Workers, PaymentsStep(w) \/ OrdersCall(w) \/ PaymentsCall(w)
          PROVE  \A v \in Workers : Truthful(v)'
      BY <1>1, <2>2, PaymentsStepTruthful, CallsTruthful
    <2>3. CASE UNCHANGED <<pc, job>>
      BY <1>1, <2>3, StillTruthful DEF TrueToMoney
    <2>4. CASE \/ \E o \in Orders : Create(o) \/ Age(o) \/ WindowCloses(o)
               \/ \E p \in Payments : CustomerPays(p) \/ Settle(p) \/ RefundOutside(p)
               \/ UNCHANGED vars
      <3>1. UNCHANGED <<pc, job>>
        BY <2>4, Zenon DEF Create, Age, WindowCloses, CustomerPays, Settle, RefundOutside, Pay,
                           ordersVars, vars
      <3> QED
        BY <2>3, <3>1
    <2> QED
      BY <2>1, <2>2, <2>4 DEF Next, Step
  <1> QED
    BY <1>3, <1>4 DEF TrueToMoney

\* An order says "refunded" only when the gateway gave money back for it: not
\* even a late write of a status read before, by a handler that any other
\* overtook, can claim it.
THEOREM RefundsAreReal == Spec => []RefundedMeansMoneyBack
  <1>1. Init => TrueToMoney
    BY OrdersAssumption DEF Init, OrdersInit, TrueToMoney, Backed, Refunded, Absent, Truthful,
                            NoJob, NearRefund, Refunding
  <1>2. Typed /\ TrueToMoney /\ [Next]_vars => TrueToMoney'
    BY TrueToMoneyStep
  <1>3. TrueToMoney => RefundedMeansMoneyBack
    BY DEF TrueToMoney, Backed, MoneyBack, RefundedMeansMoneyBack
  <1> QED
    BY <1>1, <1>2, <1>3, Typing, PTL DEF Spec
=============================================================================
