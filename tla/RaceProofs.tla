----------------------------- MODULE RaceProofs ------------------------------
(***************************************************************************)
(* What any number of order and payment handlers guarantee as long as one  *)
(* named overlap does not happen.  The code does not exclude these         *)
(* overlaps: each theorem says that its property fails in no other way,    *)
(* for every number of orders, products, handlers and payments.            *)
(***************************************************************************)
EXTENDS OrderProofs

-----------------------------------------------------------------------------
(* One handler moves, the others wait *)

\* Handlers other than w stay where they are.
OthersStay(w) == \A v \in Workers \ {w} : pc'[v] = pc[v]
OthersWait(w) == OthersStay(w) /\ \A v \in Workers \ {w} : job'[v] = job[v]

\* The only ways to the labels that the invariants below look at.
Watched == {"refundRead", "refundPost", "refundWrite", "fulfillClaim"}

Arrives(w) ==
    /\ pc'[w] = "refundRead" => ReceivedWrite(w)
    /\ pc'[w] = "refundPost" => RefundRead(w)
    /\ pc'[w] = "refundWrite" => RefundPost(w)
    /\ pc'[w] = "fulfillClaim" => FulfillStatus(w)
    /\ OthersStay(w)

LEMMA MoveArrives ==
    ASSUME Typed, NEW w \in Workers, NEW l, l \notin Watched,
           pc' = [pc EXCEPT ![w] = l]
    PROVE  Arrives(w)
  BY DEF Arrives, OthersStay, Watched, Typed, TypeOK, OrdersTypeOK

LEMMA MovesArrive ==
    ASSUME Typed, NEW w \in Workers,
           \/ Finish(w) \/ NextOrder(w)
           \/ \E l : l \notin Watched /\ Goto(w, l)
           \/ \E S : GiveBack(w, S)
    PROVE  Arrives(w)
  <1>1. ASSUME NEW l, NEW j, l \notin Watched, Move(w, l, j)
        PROVE  Arrives(w)
    BY <1>1, MoveArrives DEF Move
  <1>2. /\ {"idle", "claimStock"} \cap Watched = {} /\ job[w].next \notin Watched
    BY DEF Watched, Typed, TypeOK, OrdersTypeOK, Job
  <1> QED
    BY <1>1, <1>2, Zenon DEF Finish, NextOrder, Goto, GiveBack

LEMMA StepsArrive ==
    ASSUME Typed, NEW w \in Workers, Step(w) \/ OrdersFailure(w)
    PROVE  Arrives(w)
  <1>0. pc \in [Workers -> PC]
    BY DEF Typed, TypeOK, OrdersTypeOK
  <1>1. CASE Expire(w) \/ GiveBackStep(w)
    <2>1. CASE ClaimStock(w)
      <3>1. PICK l \in {"returnStock", "claimCoupon"} : pc' = [pc EXCEPT ![w] = l]
        BY <2>1 DEF ClaimStock, Move
      <3> QED
        BY <3>1, MoveArrives DEF Watched
    <2>2. "claimCoupon" \notin Watched /\ "releaseCoupon" \notin Watched
      BY DEF Watched
    <2>3. ASSUME Expire(w) \/ ReturnStock(w) \/ ClaimCoupon(w) \/ ReleaseCoupon(w)
          PROVE  \/ NextOrder(w) \/ \E S : GiveBack(w, S)
                 \/ \E l : l \notin Watched /\ Goto(w, l)
      BY <2>2, <2>3, Zenon DEF Expire, ReturnStock, ClaimCoupon, ReleaseCoupon
    <2> QED
      BY <1>1, <2>1, <2>3, MovesArrive DEF GiveBackStep
  <1>2. CASE FulfillStep(w)
    BY <1>0, <1>2 DEF FulfillStep, FulfillRead, Revive, MarkApproved, FulfillStatus,
                 FulfillClaim, RecordPayment, Goto, Finish, Move, Arrives, OthersStay
  <1>3. CASE \/ AdminWrite(w) \/ ConfirmRead(w) \/ ConfirmWrite(w)
             \/ RequestRead(w) \/ RequestWrite(w) \/ RejectWrite(w)
             \/ PendingRead(w) \/ PendingWrite(w) \/ ReceivedWrite(w)
    BY <1>0, <1>3
       DEF AdminWrite, ConfirmRead, ConfirmWrite, RequestRead, RequestWrite,
           RejectWrite, PendingRead, PendingWrite, ReceivedWrite, GiveBack, Goto, Finish,
           Move, Arrives, OthersStay
  <1>4. CASE PaymentsStep(w)
    BY <1>0, <1>4
       DEF PaymentsStep, ExpireOne, PayPost, HookRead, HookRefund, WriteRejected,
           WritePending, WriteUnpaid, RefundRead, RefundPost, RefundWrite, AfterPayment,
           GiveBack, Goto, Finish, Move, Arrives, OthersStay
  <1>5. CASE Crash(w)
    BY <1>5, MoveArrives DEF Crash, Watched
  <1>6. CASE SweepFails(w)
    <2>1. job[w].next \notin Watched
      BY DEF Watched, Typed, TypeOK, OrdersTypeOK, Job
    <2> QED
      BY <1>6, <2>1, MoveArrives DEF SweepFails
  <1>7. CASE BulkFails(w)
    <2>1. "claimCoupon" \notin Watched
      BY DEF Watched
    <2>2. ASSUME NEW j, Move(w, "claimCoupon", j)
          PROVE  Arrives(w)
      BY <2>1, <2>2, MoveArrives DEF Move
    <2> QED
      BY <1>7, <2>1, <2>2, MovesArrive, Zenon DEF BulkFails
  <1> QED
    BY <1>1, <1>2, <1>3, <1>4, <1>5, <1>6, <1>7 DEF Step, OrdersStep, OrdersFailure

\* The labels a call starts at, and what it changes: a new job, and rows only by
\* a change of status in bulk.
LEMMA CallsArrive ==
    ASSUME Typed, NEW w \in Workers, OrdersCall(w) \/ PaymentsCall(w)
    PROVE  /\ pc'[w] \notin {"refundPost", "refundWrite", "fulfillClaim"}
           /\ pc'[w] = "refundRead" => \E o \in Orders : ApproveRefund(w, o)
           /\ UNCHANGED orders
                \/ \E S \in SUBSET Orders, s \in Asked : BulkStatus(w, S, s)
           /\ pc[w] = "idle" /\ OthersStay(w)
  <1> DEFINE Goal == /\ pc'[w] \notin {"refundPost", "refundWrite", "fulfillClaim"}
                     /\ pc'[w] = "refundRead" => \E o \in Orders : ApproveRefund(w, o)
                     /\ UNCHANGED orders
                          \/ \E S \in SUBSET Orders, s \in Asked : BulkStatus(w, S, s)
                     /\ pc[w] = "idle" /\ OthersStay(w)
  <1> SUFFICES Goal
    OBVIOUS
  <1>0. pc \in [Workers -> PC] /\ gateway \in [Payments -> GatewayStatus]
    BY DEF Typed, TypeOK, OrdersTypeOK
  <1>1. ASSUME NEW op, NEW l, NEW j, Take(w, op, l, j)
        PROVE  pc'[w] = l /\ pc[w] = "idle" /\ OthersStay(w)
    BY <1>0, <1>1 DEF Take, OthersStay
  <1>2. CASE Sweep(w)
    BY <1>0, <1>2 DEF Sweep, OthersStay
  <1>3. ASSUME NEW o \in Orders, NEW s \in Asked, AdminStatus(w, o, s)
        PROVE  Goal
    BY <1>0, <1>3 DEF AdminStatus, Take, OthersStay
  <1>4. ASSUME NEW o \in Orders, NEW r,
               \/ ConfirmDelivered(w, o) \/ RequestRefund(w, o, r)
               \/ RejectRefund(w, o) \/ ReturnReceived(w, o)
        PROVE  Goal
    BY <1>0, <1>4 DEF ConfirmDelivered, RequestRefund, RejectRefund, ReturnReceived,
                      SweepThen, Take, OthersStay
  <1>5. ASSUME NEW S \in SUBSET Orders, NEW s \in Asked, BulkStatus(w, S, s)
        PROVE  Goal
    <2>1. pc'[w] \in {"idle", "claimStock"} /\ pc[w] = "idle" /\ OthersStay(w)
      BY <1>1, <1>5, Zenon DEF BulkStatus
    <2> QED
      BY <1>5, <2>1
  <1>6. ASSUME NEW p \in Payments, PayCall(w, p)
        PROVE  Goal
    BY <1>0, <1>6 DEF PayCall, Take, OthersStay
  <1>7. ASSUME NEW p \in Payments, Webhook(w, p)
        PROVE  Goal
    <2>1. gateway[p] \in {"pending", "approved", "rejected", "refunded"}
      BY <1>0, <1>7 DEF Webhook, GatewayStatus
    <2>2. /\ pc'[w] = AfterPayment(gateway[p]) /\ UNCHANGED orders
          /\ pc[w] = "idle" /\ OthersStay(w)
      BY <1>1, <1>7 DEF Webhook
    <2> QED
      BY <2>1, <2>2 DEF AfterPayment
  <1>8. ASSUME NEW o \in Orders, ApproveRefund(w, o)
        PROVE  Goal
    BY <1>0, <1>8 DEF ApproveRefund, Take, OthersStay
  <1> HIDE DEF Goal
  <1>9. CASE OrdersCall(w)
    BY <1>2, <1>3, <1>4, <1>5, <1>9 DEF OrdersCall, Goal
  <1> QED
    BY <1>6, <1>7, <1>8, <1>9 DEF PaymentsCall

LEMMA WorkersAlone ==
    ASSUME Typed, NEW w \in Workers,
           Step(w) \/ OrdersFailure(w) \/ OrdersCall(w) \/ PaymentsCall(w)
    PROVE  OthersWait(w)
  <1>1. OthersStay(w)
    BY StepsArrive, CallsArrive DEF Arrives
  <1>2. CASE FulfillStatus(w)
    BY <1>1, <1>2 DEF FulfillStatus, Move, OthersWait, Typed, TypeOK, OrdersTypeOK
  <1>3. CASE ~FulfillStatus(w) /\ (Step(w) \/ OrdersFailure(w))
    BY <1>1, <1>3, StepsKeepJob DEF KeepsJob, OthersWait
  <1>4. CASE OrdersCall(w) \/ PaymentsCall(w)
    BY <1>1, <1>4, CallsTakeExisting DEF OthersWait
  <1> QED
    BY <1>2, <1>3, <1>4

\* What a step may be.
Working(w) == Step(w) \/ OrdersFailure(w) \/ OrdersCall(w) \/ PaymentsCall(w)
TimePasses == \E o \in Orders : Age(o) \/ WindowCloses(o)
MoneyMoves == \E p \in Payments : CustomerPays(p) \/ Settle(p) \/ RefundOutside(p)

LEMMA KindsOfStep ==
    ASSUME [Next]_vars
    PROVE  \/ \E w \in Workers : Working(w)
           \/ \E o \in Orders : Create(o) /\ UNCHANGED gateway
           \/ TimePasses \/ MoneyMoves \/ UNCHANGED vars
  BY DEF Next, Working, TimePasses, MoneyMoves

LEMMA NobodyWorks ==
    ASSUME \/ \E o \in Orders : Create(o)
           \/ TimePasses \/ MoneyMoves \/ UNCHANGED vars
    PROVE  UNCHANGED <<pc, job>>
  BY Zenon DEF Create, TimePasses, MoneyMoves, Age, WindowCloses, CustomerPays, Settle,
               RefundOutside, Pay, ordersVars, vars

-----------------------------------------------------------------------------
(* The goods come back before the money goes *)

Returned(row) == NeedsReturn(row.refundReasonType) => row.returnReceivedAt

Refunds == {"refundRead", "refundPost", "refundWrite"}

\* No request is written for an order while a handler that has already judged it
\* refunds it: requestRefund and approveRefund check before they write.
NoLateRequest ==
    \A v, w \in Workers :
      RequestWrite(w) /\ pc[v] \in Refunds => job[v].subject # job[w].subject

\* A refund that is on its way is of an order whose goods, if its reason asks for
\* them, are back.
ReturnedFirst ==
    \A w \in Workers : pc[w] \in Refunds => Returned(orders[job[w].subject])

\* Only a request changes the reason, and goods that are back stay so.
ReasonStays(o) ==
    /\ orders'[o].refundReasonType = orders[o].refundReasonType
    /\ orders[o].returnReceivedAt => orders'[o].returnReceivedAt

ReasonsStay == \A o \in Orders : ReasonStays(o)

LEMMA UpdateReason ==
    ASSUME Typed, NEW s \in Orders, NEW row, Update(s, row),
           row.refundReasonType = orders[s].refundReasonType,
           orders[s].returnReceivedAt => row.returnReceivedAt
    PROVE  ReasonsStay
  BY DEF ReasonsStay, ReasonStays, Update, Typed, TypeOK, OrdersTypeOK

LEMMA RowsReason == ASSUME UNCHANGED orders PROVE ReasonsStay
  BY DEF ReasonsStay, ReasonStays

LEMMA OrdersStepReason ==
    ASSUME Typed, NEW w \in Workers, OrdersStep(w), ~RequestWrite(w)
    PROVE  ReasonsStay
  <1> DEFINE s == job[w].subject
  <1>0. /\ orders \in [Orders -> Row] /\ job[w] \in Job
        /\ s \in Orders => orders[s] \in Row
    BY DEF Typed, TypeOK, OrdersTypeOK
  <1>1. CASE Expire(w)
    <2> SUFFICES ASSUME NEW o \in Orders PROVE ReasonStays(o)
      BY DEF ReasonsStay
    <2> DEFINE row == [orders[o] EXCEPT !.status = "CANCELLED", !.paymentStatus = "CANCELLED"]
    <2>1. orders'[o] = row \/ orders'[o] = orders[o]
      BY <1>1, Zenon DEF Expire
    <2>2. row.refundReasonType = orders[o].refundReasonType
          /\ row.returnReceivedAt = orders[o].returnReceivedAt
      BY <1>0 DEF Row
    <2> HIDE DEF row
    <2> QED
      BY <2>1, <2>2 DEF ReasonStays
  <1>2. CASE ClaimStock(w)
    <2>1. PICK o \in job[w].todo :
            UNCHANGED orders \/ Update(o, [orders[o] EXCEPT !.stockReserved = FALSE])
      BY <1>2 DEF ClaimStock
    <2>2. o \in Orders
      BY <1>0 DEF Job
    <2> QED
      BY <1>0, <2>1, <2>2, RowsReason, UpdateReason DEF Row
  <1>3. CASE ClaimCoupon(w)
    <2>1. PICK o : o = job[w].order
      OBVIOUS
    <2>2. o \in Orders
      BY <1>3, <2>1 DEF ClaimCoupon, Typed, Grounded, WithOrder
    <2>3. UNCHANGED orders \/ Update(o, [orders[o] EXCEPT !.couponReserved = FALSE])
      BY <1>3, <2>1 DEF ClaimCoupon
    <2> QED
      BY <1>0, <2>2, <2>3, RowsReason, UpdateReason DEF Row
  <1>4. CASE Revive(w)
    <2> DEFINE row == [orders[s] EXCEPT !.stockReserved = TRUE, !.status = "PENDING",
                                        !.paymentStatus = "PENDING"]
    <2>1. s \in Orders /\ (UNCHANGED orders \/ Update(s, row))
      BY <1>4 DEF Revive, Typed, Grounded, WithSubject
    <2>2. row.refundReasonType = orders[s].refundReasonType
          /\ row.returnReceivedAt = orders[s].returnReceivedAt
      BY <1>0, <2>1 DEF Row
    <2> HIDE DEF row
    <2> QED
      BY <2>1, <2>2, RowsReason, UpdateReason
  <1>5. CASE MarkApproved(w) \/ RecordPayment(w)
    <2>1. s \in Orders
      BY <1>5 DEF MarkApproved, RecordPayment, Typed, Grounded, WithSubject
    <2>2. PICK row : Update(s, row) /\
            row \in {[WithPayment(orders[s], job[w].payment)
                        EXCEPT !.paymentStatus = "APPROVED"],
                     WithPayment(orders[s], job[w].payment), orders[s]}
      BY <1>5, Zenon DEF MarkApproved, RecordPayment
    <2>3. row.refundReasonType = orders[s].refundReasonType
          /\ row.returnReceivedAt = orders[s].returnReceivedAt
      BY <1>0, <2>1, <2>2 DEF WithPayment, Row
    <2> QED
      BY <2>1, <2>2, <2>3, UpdateReason
  <1>6. CASE FulfillClaim(w)
    <2> DEFINE row == [WithPayment(orders[s], job[w].payment)
                         EXCEPT !.paymentStatus = "APPROVED",
                                !.status = job[w].status, !.paidAt = TRUE]
    <2>1. s \in Orders /\ (UNCHANGED orders \/ Update(s, row))
      BY <1>6 DEF FulfillClaim, Typed, Grounded, WithSubject
    <2>2. row.refundReasonType = orders[s].refundReasonType
          /\ row.returnReceivedAt = orders[s].returnReceivedAt
      BY <1>0, <2>1 DEF WithPayment, Row
    <2> HIDE DEF row
    <2> QED
      BY <2>1, <2>2, RowsReason, UpdateReason
  <1>7. CASE AdminWrite(w) \/ ConfirmWrite(w)
    <2>1. s \in Orders
      BY <1>7 DEF AdminWrite, ConfirmWrite, Typed, Grounded, WithSubject
    <2>2. \E t : Update(s, WithStatus(orders[s], t))
      BY <1>7 DEF AdminWrite, ConfirmWrite
    <2>3. \A t : /\ WithStatus(orders[s], t).refundReasonType = orders[s].refundReasonType
                 /\ WithStatus(orders[s], t).returnReceivedAt = orders[s].returnReceivedAt
      BY <1>0, <2>1 DEF WithStatus, Row
    <2> QED
      BY <2>1, <2>2, <2>3, UpdateReason
  <1>8. CASE RejectWrite(w) \/ PendingWrite(w) \/ ReceivedWrite(w)
    <2>1. s \in Orders
      BY <1>8 DEF RejectWrite, PendingWrite, ReceivedWrite, Typed, Grounded, WithSubject
    <2>2. PICK row : Update(s, row) /\
            row \in {[orders[s] EXCEPT !.refundStatus = "REJECTED"],
                     [orders[s] EXCEPT !.refundStatus = "RETURN_PENDING"],
                     [orders[s] EXCEPT !.returnReceivedAt = TRUE]}
      BY <1>8, Zenon DEF RejectWrite, PendingWrite, ReceivedWrite
    <2>3. row.refundReasonType = orders[s].refundReasonType
          /\ (orders[s].returnReceivedAt => row.returnReceivedAt)
      BY <1>0, <2>1, <2>2 DEF Row
    <2> QED
      BY <2>1, <2>2, <2>3, UpdateReason
  <1>9. CASE \/ FulfillRead(w) \/ FulfillStatus(w) \/ ConfirmRead(w) \/ RequestRead(w)
             \/ PendingRead(w) \/ ReturnStock(w) \/ ReleaseCoupon(w)
    BY <1>9, RowsReason DEF FulfillRead, FulfillStatus, ConfirmRead, RequestRead,
                            PendingRead, ReturnStock, ReleaseCoupon
  <1> QED
    BY <1>1, <1>2, <1>3, <1>4, <1>5, <1>6, <1>7, <1>8, <1>9
       DEF OrdersStep, GiveBackStep, FulfillStep

LEMMA PaymentsStepReason ==
    ASSUME Typed, NEW w \in Workers, PaymentsStep(w)
    PROVE  ReasonsStay
  <1> DEFINE s == job[w].subject
  <1>0. s \in Orders => orders[s] \in Row
    BY DEF Typed, TypeOK, OrdersTypeOK
  <1>1. CASE PayPost(w) \/ HookRead(w) \/ RefundRead(w) \/ RefundPost(w)
    BY <1>1, RowsReason DEF PayPost, HookRead, RefundRead, RefundPost
  <1>2. CASE \/ ExpireOne(w) \/ HookRefund(w) \/ RefundWrite(w)
             \/ WriteRejected(w) \/ WritePending(w)
    <2>1. s \in Orders
      BY <1>2 DEF ExpireOne, HookRefund, RefundWrite, WriteRejected, WritePending,
                  WriteUnpaid, Typed, Grounded, WithSubject
    <2>2. PICK row : Update(s, row) /\
            row \in {[orders[s] EXCEPT !.status = "CANCELLED", !.paymentStatus = "CANCELLED"],
                     WithPayment(AsRefunded(orders[s]), job[w].payment),
                     AsRefunded(orders[s]),
                     [orders[s] EXCEPT !.mpPaymentId = job[w].payment,
                                       !.paymentStatus = "REJECTED"],
                     [orders[s] EXCEPT !.mpPaymentId = job[w].payment,
                                       !.paymentStatus = "PENDING"]}
      BY <1>2, Zenon DEF ExpireOne, HookRefund, RefundWrite, WriteRejected, WritePending,
                         WriteUnpaid
    <2>3. row.refundReasonType = orders[s].refundReasonType
          /\ row.returnReceivedAt = orders[s].returnReceivedAt
      BY <1>0, <2>1, <2>2 DEF WithPayment, AsRefunded, Row
    <2> QED
      BY <2>1, <2>2, <2>3, UpdateReason
  <1> QED
    BY <1>1, <1>2 DEF PaymentsStep

\* A request changes one order's reason; an order that was not placed has none.
LEMMA ReasonKept ==
    ASSUME Typed, [Next]_vars, NEW o \in Orders, Created(o),
           \A w \in Workers : RequestWrite(w) => job[w].subject # o
    PROVE  ReasonStays(o)
  <1>0. orders \in [Orders -> Row] /\ orders[o] \in Row
    BY DEF Typed, TypeOK, OrdersTypeOK
  <1>1. ASSUME NEW w \in Workers, RequestWrite(w)
        PROVE  ReasonStays(o)
    <2>1. orders'[o] = orders[o]
      BY <1>0, <1>1 DEF RequestWrite, Update
    <2> QED
      BY <2>1 DEF ReasonStays
  <1>2. ASSUME NEW w \in Workers, Step(w)
        PROVE  ReasonStays(o)
    BY <1>1, <1>2, OrdersStepReason, PaymentsStepReason DEF Step, ReasonsStay
  <1>3. CASE UNCHANGED orders
    BY <1>3 DEF ReasonStays
  <1>4. ASSUME NEW w \in Workers, OrdersFailure(w)
        PROVE  ReasonStays(o)
    BY <1>3, <1>4 DEF OrdersFailure, Crash, SweepFails, BulkFails
  <1>5. ASSUME NEW w \in Workers, NEW S, NEW t, BulkStatus(w, S, t)
        PROVE  ReasonStays(o)
    <2> DEFINE row == [orders[o] EXCEPT !.status = t, !.shippedAt = @ \/ t = "SHIPPED"]
    <2>1. orders'[o] = row \/ orders'[o] = orders[o]
      BY <1>5, Zenon DEF BulkStatus
    <2>2. row.refundReasonType = orders[o].refundReasonType
          /\ row.returnReceivedAt = orders[o].returnReceivedAt
      BY <1>0 DEF Row
    <2> HIDE DEF row
    <2> QED
      BY <2>1, <2>2 DEF ReasonStays
  <1>6. ASSUME NEW w \in Workers, Working(w)
        PROVE  ReasonStays(o)
    BY <1>2, <1>3, <1>4, <1>5, <1>6, CallsArrive DEF Working
  <1>7. ASSUME NEW x \in Orders, Create(x)
        PROVE  ReasonStays(o)
    <2>1. orders'[o] = orders[o]
      BY <1>0, <1>7 DEF Create, Update
    <2> QED
      BY <2>1 DEF ReasonStays
  <1>8. CASE TimePasses
    <2>1. PICK x \in Orders : Update(x, [orders[x] EXCEPT !.aged = TRUE])
                              \/ Update(x, [orders[x] EXCEPT !.deliveredAt = "LATE"])
      BY <1>8 DEF TimePasses, Age, WindowCloses
    <2>2. orders[x] \in Row
      BY <1>0
    <2>3. ReasonsStay
      BY <2>1, <2>2, UpdateReason DEF Row
    <2> QED
      BY <2>3 DEF ReasonsStay
  <1>9. CASE MoneyMoves \/ UNCHANGED vars
    BY <1>3, <1>9, Zenon DEF MoneyMoves, CustomerPays, Settle, RefundOutside, Pay, ordersVars,
                             vars
  <1> QED
    BY <1>6, <1>7, <1>8, <1>9, KindsOfStep

LEMMA ReturnedFirstStep ==
    ASSUME Typed, Existing, NoLateRequest, ReturnedFirst, [Next]_vars
    PROVE  ReturnedFirst'
  <1>0. /\ orders \in [Orders -> Row] /\ pc \in [Workers -> PC]
        /\ job \in [Workers -> Job]
    BY DEF Typed, TypeOK, OrdersTypeOK
  \* Who stays where it was, on its way with a refund.
  <1>1. ASSUME NEW v \in Workers, pc'[v] = pc[v], job'[v] = job[v], pc[v] \in Refunds
        PROVE  Returned(orders[job[v].subject])'
    <2> DEFINE o == job[v].subject
    <2>1. o \in Orders /\ Created(o) /\ Returned(orders[o])
      BY <1>1 DEF Refunds, ReturnedFirst, Existing, Typed, Grounded, WithSubject
    <2>2. \A w \in Workers : RequestWrite(w) => job[w].subject # o
      BY <1>1 DEF NoLateRequest
    <2>3. ReasonStays(o)
      BY <2>1, <2>2, ReasonKept
    <2> QED
      BY <1>1, <2>1, <2>3 DEF ReasonStays, Returned
  <1>2. ASSUME NEW w \in Workers, Working(w),
               pc'[w] \in Refunds => Returned(orders[job[w].subject])'
        PROVE  ReturnedFirst'
    <2>1. OthersWait(w)
      BY <1>2, WorkersAlone DEF Working
    <2> QED
      BY <1>1, <1>2, <2>1 DEF ReturnedFirst, OthersWait, OthersStay
  <1>3. ASSUME NEW w \in Workers, RefundRead(w) \/ RefundPost(w), pc'[w] \in Refunds
        PROVE  Returned(orders[job[w].subject])'
    <2>1. UNCHANGED orders /\ pc[w] \in Refunds
      BY <1>3 DEF RefundRead, RefundPost, Refunds
    <2>2. Returned(orders[job[w].subject])
      BY <2>1 DEF ReturnedFirst
    <2>3. job'[w].subject = job[w].subject \/ pc'[w] = "idle"
      BY <1>0, <1>3 DEF RefundRead, RefundPost, Move, Goto, Finish, Job
    <2> QED
      BY <1>3, <2>1, <2>2, <2>3 DEF Returned, Refunds
  <1>4. ASSUME NEW w \in Workers, ReceivedWrite(w)
        PROVE  Returned(orders[job[w].subject])'
    <2>1. job'[w] = job[w] /\ job[w].subject \in Orders
      BY <1>0, <1>4 DEF ReceivedWrite, Goto, Move, Typed, Grounded, WithSubject
    <2>2. orders'[job[w].subject].returnReceivedAt
      BY <1>0, <1>4, <2>1 DEF ReceivedWrite, Update, Row
    <2> QED
      BY <2>1, <2>2 DEF Returned
  <1>5. ASSUME NEW w \in Workers, Step(w) \/ OrdersFailure(w)
        PROVE  ReturnedFirst'
    <2>1. Arrives(w)
      BY <1>5, StepsArrive
    <2> QED
      BY <1>2, <1>3, <1>4, <1>5, <2>1 DEF Arrives, Refunds, Working
  <1>6. ASSUME NEW w \in Workers, OrdersCall(w) \/ PaymentsCall(w)
        PROVE  ReturnedFirst'
    <2>1. ASSUME NEW o \in Orders, ApproveRefund(w, o), pc'[w] = "refundRead"
          PROVE  Returned(orders[job[w].subject])'
      <3>1. PICK l \in {"pendingRead", "refundRead"} :
              /\ l = "refundRead" => Returned(orders[o])
              /\ Take(w, "refund", l, [NoJob EXCEPT !.subject = o])
        BY <2>1, Zenon DEF ApproveRefund, Returned
      <3>2. pc'[w] = l /\ job'[w].subject = o /\ UNCHANGED orders
        BY <1>0, <2>1, <3>1 DEF Take, NoJob, ApproveRefund
      <3> QED
        BY <2>1, <3>1, <3>2 DEF Returned
    <2>2. pc'[w] \in Refunds => pc'[w] = "refundRead" /\ \E o \in Orders : ApproveRefund(w, o)
      BY <1>6, CallsArrive DEF Refunds
    <2> QED
      BY <1>2, <1>6, <2>1, <2>2 DEF Working
  <1>7. CASE UNCHANGED <<pc, job>>
    BY <1>1, <1>7 DEF ReturnedFirst
  <1> QED
    BY <1>5, <1>6, <1>7, KindsOfStep, NobodyWorks DEF Working

\* When the reason of a refund asks for the goods back, the store's refund only
\* goes through after they were received, however handlers overlap and die: the
\* one way around it is a request written between the check of approveRefund and
\* the refund.
THEOREM ReturnBeforeRefund == Spec /\ [][NoLateRequest]_vars => []RefundAfterReturn
  <1>1. Init => ReturnedFirst
    BY DEF Init, OrdersInit, ReturnedFirst, Refunds
  <1>2. Typed /\ Existing /\ ReturnedFirst /\ [Next]_vars /\ [NoLateRequest]_vars
        => ReturnedFirst'
    <2>1. ASSUME Typed, Existing, ReturnedFirst, UNCHANGED vars
          PROVE  ReturnedFirst'
      BY <2>1 DEF ReturnedFirst, vars, Returned
    <2> QED
      BY <2>1, ReturnedFirstStep
  <1>3. ReturnedFirst => RefundAfterReturn
    BY DEF ReturnedFirst, Returned, Refunds, RefundAfterReturn
  <1> QED
    BY <1>1, <1>2, <1>3, Typing, ExistingHolds, PTL DEF Spec

-----------------------------------------------------------------------------
(* An order that will be shipped holds its units *)

OnSale == {"PENDING", "PAID"}
OffSale == OrderStatus \ OnSale
GivingBack == {"claimStock", "returnStock", "claimCoupon", "releaseCoupon"}

\* Some handler gives back the units of o, or has yet to.
Given(o) == \E v \in Workers : pc[v] \in GivingBack /\ o \in job[v].todo

\* No handler gives an order back while another approves it.
Apart ==
    \A w \in Workers :
      pc[w] \in {"fulfillStatus", "fulfillClaim"} => ~Given(job[w].subject)

\* The staff puts on sale, one by one or in bulk, only orders that hold their units
\* for good: neither updateStatus nor bulkUpdateStatus looks at stockReserved.
Firm(o) == orders[o].stockReserved /\ ~Given(o)

StaffHeeds ==
    /\ \A w \in Workers :
         AdminWrite(w) /\ job[w].status \in OnSale => Firm(job[w].subject)
    /\ \A w \in Workers, S \in SUBSET Orders, t \in Asked \cap OnSale :
         BulkStatus(w, S, t) => \A o \in S : Firm(o)

UnitsHeld == \A o \in Orders : orders[o].status \in OnSale => orders[o].stockReserved

\* What a handler has in hand: only orders that are not on sale are given back, and
\* a status on its way to a row does not put one without units on sale.
SafeHands(w) ==
    /\ pc[w] \in GivingBack => \A o \in job[w].todo : orders[o].status \in OffSale
    /\ pc[w] = "fulfillClaim" /\ job[w].status \in OnSale =>
          orders[job[w].subject].stockReserved

Stocked == UnitsHeld /\ \A w \in Workers : SafeHands(w)

\* How a step of handler w puts order o on sale.
SameFlag(o) == orders'[o].stockReserved = orders[o].stockReserved

Sells(w, o) ==
    \/ /\ Revive(w) /\ pc'[w] = "fulfillStatus" /\ job'[w].subject = o
       /\ orders'[o].stockReserved
    \/ FulfillClaim(w) /\ o = job[w].subject /\ job[w].status \in OnSale /\ SameFlag(o)
    \/ AdminWrite(w) /\ o = job[w].subject /\ job[w].status \in OnSale /\ SameFlag(o)
    \/ /\ \E S \in SUBSET Orders, t \in Asked \cap OnSale : BulkStatus(w, S, t) /\ o \in S
       /\ SameFlag(o)

PutOnSale(o) == orders[o].status \notin OnSale /\ orders'[o].status \in OnSale

LEMMA UpdateSells ==
    ASSUME Typed, NEW s \in Orders, NEW row, Update(s, row), NEW o \in Orders,
           PutOnSale(o)
    PROVE  o = s /\ orders'[o] = row
  BY DEF PutOnSale, Update, Typed, TypeOK, OrdersTypeOK

LEMMA OrdersStepSells ==
    ASSUME Typed, NEW w \in Workers, OrdersStep(w), NEW o \in Orders, PutOnSale(o)
    PROVE  Sells(w, o)
  <1> DEFINE s == job[w].subject
  <1>0. /\ orders \in [Orders -> Row] /\ job[w] \in Job /\ orders[o] \in Row
        /\ s \in Orders => orders[s] \in Row
        /\ job \in [Workers -> Job] /\ pc \in [Workers -> PC]
    BY DEF Typed, TypeOK, OrdersTypeOK
  <1>1. ~UNCHANGED orders
    BY DEF PutOnSale
  <1>2. CASE Expire(w)
    <2> DEFINE row == [orders[o] EXCEPT !.status = "CANCELLED", !.paymentStatus = "CANCELLED"]
    <2>1. orders'[o] = row \/ orders'[o] = orders[o]
      BY <1>2, Zenon DEF Expire
    <2>2. row.status = "CANCELLED"
      BY <1>0 DEF Row
    <2> HIDE DEF row
    <2> QED
      BY <2>1, <2>2 DEF PutOnSale, OnSale
  <1>3. CASE ClaimStock(w)
    <2>1. PICK x \in job[w].todo : Update(x, [orders[x] EXCEPT !.stockReserved = FALSE])
      BY <1>1, <1>3 DEF ClaimStock
    <2>2. x \in Orders /\ orders[x] \in Row
      BY <1>0 DEF Job
    <2>3. x = o /\ orders'[o] = [orders[x] EXCEPT !.stockReserved = FALSE]
      BY <2>1, <2>2, UpdateSells
    <2> QED
      BY <2>2, <2>3 DEF Row, PutOnSale
  <1>4. CASE ClaimCoupon(w)
    <2>1. PICK x : x = job[w].order
      OBVIOUS
    <2>2. x \in Orders /\ orders[x] \in Row
      BY <1>0, <1>4, <2>1 DEF ClaimCoupon, Typed, Grounded, WithOrder
    <2>3. Update(x, [orders[x] EXCEPT !.couponReserved = FALSE])
      BY <1>1, <1>4, <2>1 DEF ClaimCoupon
    <2>4. x = o /\ orders'[o] = [orders[x] EXCEPT !.couponReserved = FALSE]
      BY <2>2, <2>3, UpdateSells
    <2> QED
      BY <2>2, <2>4 DEF Row, PutOnSale
  <1>5. CASE Revive(w)
    <2> DEFINE row == [orders[s] EXCEPT !.stockReserved = TRUE, !.status = "PENDING",
                                        !.paymentStatus = "PENDING"]
    <2>1. s \in Orders /\ Update(s, row) /\ Goto(w, "fulfillStatus")
      BY <1>1, <1>5 DEF Revive, Typed, Grounded, WithSubject
    <2>2. row.stockReserved
      BY <1>0, <2>1 DEF Row
    <2> HIDE DEF row
    <2>3. s = o /\ orders'[o] = row
      BY <2>1, UpdateSells
    <2>4. pc'[w] = "fulfillStatus" /\ job'[w] = job[w]
      BY <1>0, <2>1 DEF Goto, Move
    <2> QED
      BY <1>5, <2>2, <2>3, <2>4 DEF Sells
  <1>6. CASE MarkApproved(w) \/ RecordPayment(w)
    <2>1. s \in Orders
      BY <1>6 DEF MarkApproved, RecordPayment, Typed, Grounded, WithSubject
    <2>2. PICK row \in {[WithPayment(orders[s], job[w].payment)
                          EXCEPT !.paymentStatus = "APPROVED"],
                        WithPayment(orders[s], job[w].payment), orders[s]} : Update(s, row)
      BY <1>6, Zenon DEF MarkApproved, RecordPayment
    <2>3. row.status = orders[s].status
      BY <1>0, <2>1, <2>2 DEF WithPayment, Row
    <2>4. s = o /\ orders'[o] = row
      BY <2>1, <2>2, UpdateSells
    <2> QED
      BY <2>3, <2>4 DEF PutOnSale
  <1>7. CASE FulfillClaim(w)
    <2> DEFINE row == [WithPayment(orders[s], job[w].payment)
                         EXCEPT !.paymentStatus = "APPROVED",
                                !.status = job[w].status, !.paidAt = TRUE]
    <2>1. s \in Orders /\ Update(s, row)
      BY <1>1, <1>7 DEF FulfillClaim, Typed, Grounded, WithSubject
    <2>2. row.status = job[w].status /\ row.stockReserved = orders[s].stockReserved
      BY <1>0, <2>1 DEF WithPayment, Row
    <2> HIDE DEF row
    <2>3. s = o /\ orders'[o] = row
      BY <2>1, UpdateSells
    <2> QED
      BY <1>7, <2>2, <2>3 DEF Sells, PutOnSale, SameFlag
  <1>8. CASE AdminWrite(w) \/ ConfirmWrite(w)
    <2>1. s \in Orders
      BY <1>8 DEF AdminWrite, ConfirmWrite, Typed, Grounded, WithSubject
    <2>2. PICK t : /\ Update(s, WithStatus(orders[s], t))
                   /\ t = "DELIVERED" \/ (AdminWrite(w) /\ t = job[w].status)
      BY <1>8, Zenon DEF AdminWrite, ConfirmWrite
    <2>3. /\ WithStatus(orders[s], t).status = t
          /\ WithStatus(orders[s], t).stockReserved = orders[s].stockReserved
      BY <1>0, <2>1 DEF WithStatus, Row
    <2>4. s = o /\ orders'[o] = WithStatus(orders[s], t)
      BY <2>1, <2>2, UpdateSells
    <2>5. t \in OnSale /\ t # "DELIVERED"
      BY <2>3, <2>4 DEF PutOnSale, OnSale
    <2> QED
      BY <2>2, <2>3, <2>4, <2>5 DEF Sells, SameFlag
  <1>9. CASE RequestWrite(w) \/ RejectWrite(w) \/ PendingWrite(w) \/ ReceivedWrite(w)
    <2>1. s \in Orders
      BY <1>9 DEF RequestWrite, RejectWrite, PendingWrite, ReceivedWrite, Typed, Grounded,
                  WithSubject
    <2>2. PICK row : Update(s, row) /\
            row \in {[orders[s] EXCEPT !.refundStatus = "REQUESTED",
                                       !.refundReasonType = job[w].reason],
                     [orders[s] EXCEPT !.refundStatus = "REJECTED"],
                     [orders[s] EXCEPT !.refundStatus = "RETURN_PENDING"],
                     [orders[s] EXCEPT !.returnReceivedAt = TRUE]}
      BY <1>9, Zenon DEF RequestWrite, RejectWrite, PendingWrite, ReceivedWrite
    <2>3. row.status = orders[s].status
      BY <1>0, <2>1, <2>2 DEF Row
    <2>4. s = o /\ orders'[o] = row
      BY <2>1, <2>2, UpdateSells
    <2> QED
      BY <2>3, <2>4 DEF PutOnSale
  <1>10. CASE \/ FulfillRead(w) \/ FulfillStatus(w) \/ ConfirmRead(w) \/ RequestRead(w)
              \/ PendingRead(w) \/ ReturnStock(w) \/ ReleaseCoupon(w)
    BY <1>1, <1>10 DEF FulfillRead, FulfillStatus, ConfirmRead, RequestRead, PendingRead,
                       ReturnStock, ReleaseCoupon
  <1> QED
    BY <1>2, <1>3, <1>4, <1>5, <1>6, <1>7, <1>8, <1>9, <1>10
       DEF OrdersStep, GiveBackStep, FulfillStep

LEMMA PaymentsStepSells ==
    ASSUME Typed, NEW w \in Workers, PaymentsStep(w), NEW o \in Orders
    PROVE  ~PutOnSale(o)
  <1> SUFFICES ASSUME PutOnSale(o) PROVE FALSE
    OBVIOUS
  <1> DEFINE s == job[w].subject
  <1>0. s \in Orders => orders[s] \in Row
    BY DEF Typed, TypeOK, OrdersTypeOK
  <1>1. CASE PayPost(w) \/ HookRead(w) \/ RefundRead(w) \/ RefundPost(w)
    BY <1>1 DEF PayPost, HookRead, RefundRead, RefundPost, PutOnSale
  <1>2. CASE \/ ExpireOne(w) \/ HookRefund(w) \/ RefundWrite(w)
             \/ WriteRejected(w) \/ WritePending(w)
    <2>1. s \in Orders
      BY <1>2 DEF ExpireOne, HookRefund, RefundWrite, WriteRejected, WritePending,
                  WriteUnpaid, Typed, Grounded, WithSubject
    <2>2. PICK row : Update(s, row) /\
            row \in {[orders[s] EXCEPT !.status = "CANCELLED", !.paymentStatus = "CANCELLED"],
                     WithPayment(AsRefunded(orders[s]), job[w].payment),
                     AsRefunded(orders[s]),
                     [orders[s] EXCEPT !.mpPaymentId = job[w].payment,
                                       !.paymentStatus = "REJECTED"],
                     [orders[s] EXCEPT !.mpPaymentId = job[w].payment,
                                       !.paymentStatus = "PENDING"]}
      BY <1>2, Zenon DEF ExpireOne, HookRefund, RefundWrite, WriteRejected, WritePending,
                         WriteUnpaid
    <2>3. row.status \notin OnSale \/ row.status = orders[s].status
      BY <1>0, <2>1, <2>2 DEF WithPayment, AsRefunded, OnSale, Row
    <2>4. s = o /\ orders'[o] = row
      BY <2>1, <2>2, UpdateSells
    <2> QED
      BY <2>3, <2>4 DEF PutOnSale
  <1> QED
    BY <1>1, <1>2 DEF PaymentsStep

\* An order is put on sale when it is placed, revived, approved or by the staff.
LEMMA Sold ==
    ASSUME Typed, [Next]_vars, NEW o \in Orders, PutOnSale(o)
    PROVE  \/ \E w \in Workers : Sells(w, o)
           \/ ~Created(o) /\ orders'[o].stockReserved
  <1>0. orders \in [Orders -> Row] /\ orders[o] \in Row
    BY DEF Typed, TypeOK, OrdersTypeOK
  <1>1. ~UNCHANGED orders
    BY DEF PutOnSale
  <1>2. ASSUME NEW w \in Workers, Step(w)
        PROVE  Sells(w, o)
    BY <1>2, OrdersStepSells, PaymentsStepSells DEF Step
  <1>3. ASSUME NEW w \in Workers, NEW S \in SUBSET Orders, NEW t \in Asked,
               BulkStatus(w, S, t)
        PROVE  Sells(w, o)
    <2> DEFINE row == [orders[o] EXCEPT !.status = t, !.shippedAt = @ \/ t = "SHIPPED"]
    <2>1. orders'[o] = (IF o \in S /\ BulkApplies(orders[o], t) THEN row ELSE orders[o])
      BY <1>3, Zenon DEF BulkStatus
    <2>2. row.status = t /\ row.stockReserved = orders[o].stockReserved
      BY <1>0 DEF Row
    <2> HIDE DEF row
    <2>3. o \in S /\ t \in OnSale /\ SameFlag(o)
      BY <2>1, <2>2 DEF PutOnSale, SameFlag
    <2> QED
      BY <1>3, <2>3 DEF Sells
  <1>4. ASSUME NEW w \in Workers, OrdersFailure(w)
        PROVE  FALSE
    BY <1>1, <1>4 DEF OrdersFailure, Crash, SweepFails, BulkFails
  <1>5. ASSUME NEW w \in Workers, Working(w)
        PROVE  Sells(w, o)
    BY <1>1, <1>2, <1>3, <1>4, <1>5, CallsArrive DEF Working
  <1>6. ASSUME NEW x \in Orders, Create(x)
        PROVE  ~Created(o) /\ orders'[o].stockReserved
    <2> DEFINE row == [Absent EXCEPT !.status = "PENDING", !.stockReserved = TRUE,
                                     !.couponReserved = (x \in withCoupon)]
    <2>1. row.stockReserved
      BY DEF Absent
    <2>2. Update(x, row) /\ ~Created(x)
      BY <1>6 DEF Create
    <2> HIDE DEF row
    <2> QED
      BY <2>1, <2>2, UpdateSells
  <1>7. ASSUME TimePasses
        PROVE  FALSE
    <2>1. PICK x \in Orders : Update(x, [orders[x] EXCEPT !.aged = TRUE])
                              \/ Update(x, [orders[x] EXCEPT !.deliveredAt = "LATE"])
      BY <1>7 DEF TimePasses, Age, WindowCloses
    <2> QED
      BY <1>0, <2>1 DEF PutOnSale, Update, Row
  <1>8. ASSUME MoneyMoves \/ UNCHANGED vars
        PROVE  FALSE
    BY <1>1, <1>8, Zenon DEF MoneyMoves, CustomerPays, Settle, RefundOutside, Pay, ordersVars,
                             vars
  <1> QED
    BY <1>5, <1>6, <1>7, <1>8, KindsOfStep

\* Only the first statement of a give-back clears a flag.
LEMMA FlagKept ==
    ASSUME Typed, Existing, [Next]_vars, NEW o \in Orders, orders[o].stockReserved,
           ~orders'[o].stockReserved
    PROVE  Given(o)
  <1>0. /\ orders \in [Orders -> Row] /\ job \in [Workers -> Job] /\ orders[o] \in Row
    BY DEF Typed, TypeOK, OrdersTypeOK
  <1>1. ~UNCHANGED orders /\ ~SameFlag(o)
    BY DEF SameFlag
  <1>2. CASE Quiet
    BY <1>2 DEF Quiet, HoldsStay
  <1>3. ASSUME NEW x \in Orders, Create(x)
        PROVE  FALSE
    <2> DEFINE row == [Absent EXCEPT !.status = "PENDING", !.stockReserved = TRUE,
                                     !.couponReserved = (x \in withCoupon)]
    <2>1. row.stockReserved
      BY DEF Absent
    <2>2. Update(x, row)
      BY <1>3 DEF Create
    <2> HIDE DEF row
    <2> QED
      BY <1>0, <2>1, <2>2 DEF Update
  <1>4. ASSUME NEW w \in Workers, ClaimStock(w)
        PROVE  Given(o)
    <2>1. PICK x \in job[w].todo : Update(x, [orders[x] EXCEPT !.stockReserved = FALSE])
      BY <1>1, <1>4 DEF ClaimStock
    <2>2. x = o
      BY <1>0, <1>1, <2>1 DEF Update
    <2> QED
      BY <1>4, <2>2 DEF ClaimStock, Given, GivingBack
  <1>5. ASSUME NEW w \in Workers, NEW x, NEW row, Update(x, row),
               x \in Orders => row.stockReserved \/ row.stockReserved = orders[x].stockReserved
        PROVE  FALSE
    BY <1>0, <1>5 DEF Update
  <1>6. ASSUME NEW w \in Workers, ClaimCoupon(w) \/ Revive(w) \/ FulfillClaim(w)
        PROVE  FALSE
    <2>1. PICK x, row : Update(x, row) /\
            \/ row = [orders[x] EXCEPT !.couponReserved = FALSE]
            \/ row = [orders[x] EXCEPT !.stockReserved = TRUE, !.status = "PENDING",
                                       !.paymentStatus = "PENDING"]
            \/ row = [WithPayment(orders[x], job[w].payment)
                        EXCEPT !.paymentStatus = "APPROVED",
                               !.status = job[w].status, !.paidAt = TRUE]
      BY <1>1, <1>6, Zenon DEF ClaimCoupon, Revive, FulfillClaim
    <2>2. ASSUME x \in Orders
          PROVE  row.stockReserved \/ row.stockReserved = orders[x].stockReserved
      <3>1. orders[x] \in Row
        BY <1>0, <2>2
      <3> QED
        BY <2>1, <3>1 DEF WithPayment, Row
    <2> QED
      BY <1>5, <2>1, <2>2
  <1>7. ASSUME NEW w \in Workers, ReturnStock(w) \/ ReleaseCoupon(w)
        PROVE  FALSE
    BY <1>1, <1>7 DEF ReturnStock, ReleaseCoupon
  <1> QED
    BY <1>1, <1>2, <1>3, <1>4, <1>6, <1>7, StepsQuietOrLoud DEF Loud, Quiet, HoldsStay

\* Orders of S that the step leaves off sale.
LeftOffSale(S) == \A o \in S : orders'[o].status \in OffSale

\* The statements of a give-back only go on with what they had in hand.
GoesOnGiving(w) ==
    /\ job'[w].todo \subseteq job[w].todo
    /\ \A o \in Orders : orders'[o].status = orders[o].status

LEMMA NextOrderGives ==
    ASSUME Typed, NEW w \in Workers, NextOrder(w)
    PROVE  job'[w].todo \subseteq job[w].todo
  <1>0. job[w] \in Job /\ job \in [Workers -> Job]
    BY DEF Typed, TypeOK, OrdersTypeOK
  <1> DEFINE rest == job[w].todo \ {job[w].order}
  <1>1. \/ job' = [job EXCEPT ![w] = [job[w] EXCEPT !.todo = rest]]
        \/ job' = [job EXCEPT ![w] = NoJob]
        \/ job' = [job EXCEPT ![w] = [job[w] EXCEPT !.todo = {}, !.order = NoOrder]]
    BY Zenon DEF NextOrder, Finish, Move
  <1>2. /\ [job[w] EXCEPT !.todo = rest].todo = rest
        /\ NoJob.todo = {}
        /\ [job[w] EXCEPT !.todo = {}, !.order = NoOrder].todo = {}
    BY <1>0 DEF NoJob, Job
  <1>3. job'[w].todo \in {rest, {}}
    BY <1>0, <1>1, <1>2
  <1> QED
    BY <1>3

LEMMA GiveBackGoesOn ==
    ASSUME Typed, NEW w \in Workers, GiveBackStep(w) \/ BulkFails(w)
    PROVE  GoesOnGiving(w) /\ pc[w] \in GivingBack
  <1>0. /\ orders \in [Orders -> Row] /\ job[w] \in Job /\ job \in [Workers -> Job]
    BY DEF Typed, TypeOK, OrdersTypeOK
  <1>1. ASSUME NEW l, Goto(w, l) PROVE job'[w].todo \subseteq job[w].todo
    BY <1>0, <1>1 DEF Goto, Move
  <1>2. CASE ClaimStock(w)
    <2>1. PICK o \in job[w].todo :
            /\ job' = [job EXCEPT ![w] = [job[w] EXCEPT !.order = o]]
            /\ UNCHANGED orders \/ Update(o, [orders[o] EXCEPT !.stockReserved = FALSE])
      BY <1>2 DEF ClaimStock, Move
    <2>2. job'[w].todo = job[w].todo /\ o \in Orders
      BY <1>0, <2>1 DEF Job
    <2>3. \A x \in Orders : orders'[x].status = orders[x].status
      BY <1>0, <2>1, <2>2 DEF Update, Row
    <2> QED
      BY <1>2, <2>2, <2>3 DEF ClaimStock, GoesOnGiving, GivingBack
  <1>3. CASE ClaimCoupon(w)
    <2>1. PICK o : o = job[w].order
      OBVIOUS
    <2>2. o \in Orders
      BY <1>3, <2>1 DEF ClaimCoupon, Typed, Grounded, WithOrder
    <2>3. UNCHANGED orders \/ Update(o, [orders[o] EXCEPT !.couponReserved = FALSE])
      BY <1>3, <2>1 DEF ClaimCoupon
    <2>4. \A x \in Orders : orders'[x].status = orders[x].status
      BY <1>0, <2>2, <2>3 DEF Update, Row
    <2> QED
      BY <1>1, <1>3, <2>4, NextOrderGives DEF ClaimCoupon, GoesOnGiving, GivingBack
  <1>4. ASSUME NEW o, Move(w, "claimCoupon", [job[w] EXCEPT !.order = o])
        PROVE  job'[w].todo \subseteq job[w].todo
    BY <1>0, <1>4 DEF Move, Job
  <1>5. CASE ReturnStock(w) \/ ReleaseCoupon(w) \/ BulkFails(w)
    BY <1>1, <1>4, <1>5, NextOrderGives DEF ReturnStock, ReleaseCoupon, BulkFails,
                                            GoesOnGiving, GivingBack
  <1> QED
    BY <1>2, <1>3, <1>5 DEF GiveBackStep

\* Before anything is given back, its order is off sale.
LEMMA GivesOffSale ==
    ASSUME Typed, NEW w \in Workers, SafeHands(w), Step(w) \/ OrdersFailure(w),
           pc'[w] \in GivingBack
    PROVE  LeftOffSale(job'[w].todo)
  <1> DEFINE s == job[w].subject
  <1>0. /\ orders \in [Orders -> Row] /\ job[w] \in Job /\ job \in [Workers -> Job]
        /\ pc \in [Workers -> PC]
        /\ s \in Orders => orders[s] \in Row
    BY DEF Typed, TypeOK, OrdersTypeOK
  <1>1. CASE GiveBackStep(w) \/ BulkFails(w)
    <2>1. GoesOnGiving(w) /\ pc[w] \in GivingBack
      BY <1>1, GiveBackGoesOn
    <2>2. \A o \in job[w].todo : o \in Orders /\ orders[o].status \in OffSale
      BY <1>0, <2>1 DEF SafeHands, Job
    <2> QED
      BY <2>1, <2>2 DEF GoesOnGiving, LeftOffSale
  <1>2. ASSUME NEW S, GiveBack(w, S)
        PROVE  job'[w].todo = S
    BY <1>0, <1>2 DEF GiveBack, Move, Job
  <1>3. ASSUME s \in Orders, NEW row, Update(s, row), row.status \in OffSale,
               job'[w].todo = {s}
        PROVE  LeftOffSale(job'[w].todo)
    BY <1>0, <1>3 DEF Update, LeftOffSale
  <1>4. CASE Expire(w)
    <2>1. job'[w].todo = job[w].todo
      BY <1>2, <1>4, Zenon DEF Expire
    <2> SUFFICES ASSUME NEW o \in job[w].todo PROVE orders'[o].status \in OffSale
      BY <2>1 DEF LeftOffSale
    <2>2. o \in Orders /\ orders[o] \in Row
      BY <1>0 DEF Job
    <2>3. orders'[o] = [orders[o] EXCEPT !.status = "CANCELLED",
                                         !.paymentStatus = "CANCELLED"]
      BY <1>4, <2>2, Zenon DEF Expire
    <2> QED
      BY <2>2, <2>3 DEF Row, OffSale, OnSale, OrderStatus
  <1>5. CASE AdminWrite(w)
    <2>1. s \in Orders
      BY <1>5 DEF AdminWrite, Typed, Grounded, WithSubject
    <2>2. ~Finish(w)
      BY <1>0 DEF Finish, Move, GivingBack
    <2>3. job[w].status = "CANCELLED" /\ GiveBack(w, {s})
          /\ Update(s, WithStatus(orders[s], job[w].status))
      BY <1>5, <2>2 DEF AdminWrite
    <2>4. WithStatus(orders[s], job[w].status).status \in OffSale
      BY <1>0, <2>1, <2>3 DEF WithStatus, Row, OffSale, OnSale, OrderStatus
    <2> QED
      BY <1>2, <1>3, <2>1, <2>3, <2>4
  <1>6. CASE ExpireOne(w)
    <2> DEFINE row == [orders[s] EXCEPT !.status = "CANCELLED", !.paymentStatus = "CANCELLED"]
    <2>1. s \in Orders /\ Update(s, row) /\ GiveBack(w, {s})
      BY <1>6 DEF ExpireOne, Typed, Grounded, WithSubject
    <2>2. row.status \in OffSale
      BY <1>0, <2>1 DEF Row, OffSale, OnSale, OrderStatus
    <2> HIDE DEF row
    <2> QED
      BY <1>2, <1>3, <2>1, <2>2
  <1>7. CASE HookRefund(w)
    <2> DEFINE row == WithPayment(AsRefunded(orders[s]), job[w].payment)
    <2>1. s \in Orders /\ Update(s, row)
      BY <1>7 DEF HookRefund, Typed, Grounded, WithSubject
    <2>2. row.status \in OffSale
      BY <1>0, <2>1 DEF WithPayment, AsRefunded, Row, OffSale, OnSale, OrderStatus
    <2>3. ~Finish(w)
      BY <1>0 DEF Finish, Move, GivingBack
    <2>4. GiveBack(w, {s})
      BY <1>7, <2>3 DEF HookRefund
    <2> HIDE DEF row
    <2> QED
      BY <1>2, <1>3, <2>1, <2>2, <2>4
  <1>8. CASE RefundWrite(w)
    <2>1. s \in Orders /\ Update(s, AsRefunded(orders[s]))
      BY <1>8 DEF RefundWrite, Typed, Grounded, WithSubject
    <2>2. AsRefunded(orders[s]).status \in OffSale
      BY <1>0, <2>1 DEF AsRefunded, Row, OffSale, OnSale, OrderStatus
    <2>3. \/ GiveBack(w, {s})
          \/ Move(w, "claimCoupon", [job[w] EXCEPT !.todo = {s}, !.order = s])
      BY <1>8, Zenon DEF RefundWrite
    <2>4. [job[w] EXCEPT !.todo = {s}, !.order = s].todo = {s}
      BY <1>0 DEF Job
    <2>5. job'[w].todo = {s}
      BY <1>0, <1>2, <2>3, <2>4 DEF Move
    <2> QED
      BY <1>3, <2>1, <2>2, <2>5
  <1>9. CASE \/ FulfillStep(w) \/ ConfirmRead(w) \/ ConfirmWrite(w)
             \/ RequestRead(w) \/ RequestWrite(w) \/ RejectWrite(w)
             \/ PendingRead(w) \/ PendingWrite(w) \/ ReceivedWrite(w)
    BY <1>0, <1>9
       DEF FulfillStep, FulfillRead, Revive, MarkApproved, FulfillStatus, FulfillClaim,
           RecordPayment, ConfirmRead, ConfirmWrite, RequestRead, RequestWrite,
           RejectWrite, PendingRead, PendingWrite, ReceivedWrite, Goto, Finish, Move,
           GivingBack
  <1>10. CASE \/ PayPost(w) \/ HookRead(w) \/ WriteRejected(w) \/ WritePending(w)
              \/ RefundRead(w) \/ RefundPost(w)
    BY <1>0, <1>10
       DEF PayPost, HookRead, WriteRejected, WritePending, WriteUnpaid, RefundRead,
           RefundPost, AfterPayment, Goto, Finish, Move, GivingBack
  <1>11. CASE Crash(w) \/ SweepFails(w)
    BY <1>0, <1>11 DEF Crash, SweepFails, Job, GivingBack
  <1> QED
    BY <1>1, <1>4, <1>5, <1>6, <1>7, <1>8, <1>9, <1>10, <1>11
       DEF Step, OrdersStep, PaymentsStep, OrdersFailure

\* A call gives back in one way: orders cancelled in bulk.
LEMMA CallsGiveOffSale ==
    ASSUME Typed, NEW w \in Workers, OrdersCall(w) \/ PaymentsCall(w),
           pc'[w] \in GivingBack
    PROVE  LeftOffSale(job'[w].todo)
  <1>0. /\ job \in [Workers -> Job] /\ pc \in [Workers -> PC]
        /\ orders \in [Orders -> Row] /\ gateway \in [Payments -> GatewayStatus]
    BY DEF Typed, TypeOK, OrdersTypeOK
  <1>1. ASSUME NEW S \in SUBSET Orders, NEW t \in Asked, BulkStatus(w, S, t)
        PROVE  LeftOffSale(job'[w].todo)
    <2>1. t = "CANCELLED"
      <3> SUFFICES ASSUME t # "CANCELLED" PROVE FALSE
        OBVIOUS
      <3>1. Take(w, "bulk", "idle", NoJob)
        BY <1>1, Zenon DEF BulkStatus
      <3> QED
        BY <1>0, <3>1 DEF Take, GivingBack
    <2> DEFINE j == [NoJob EXCEPT !.todo = S, !.lenient = TRUE]
    <2>2. Take(w, "bulk", "claimStock", j)
      BY <1>1, <2>1, Zenon DEF BulkStatus
    <2>3. j.todo = S
      BY DEF NoJob
    <2> HIDE DEF j
    <2>4. job'[w].todo = S
      BY <1>0, <2>2, <2>3 DEF Take
    <2> SUFFICES ASSUME NEW o \in S PROVE orders'[o].status \in OffSale
      BY <2>4 DEF LeftOffSale
    <2> DEFINE row == [orders[o] EXCEPT !.status = t, !.shippedAt = @ \/ t = "SHIPPED"]
    <2>5. BulkApplies(orders[o], t) /\ orders[o] \in Row /\ o \in Orders
      BY <1>0, <2>1 DEF BulkApplies
    <2>6. orders'[o] = row
      BY <1>1, <2>5, Zenon DEF BulkStatus
    <2>7. row.status = t
      BY <2>5 DEF Row
    <2> QED
      BY <2>1, <2>6, <2>7 DEF OffSale, OnSale, OrderStatus
  <1>2. ASSUME NEW l, l \notin GivingBack, pc' = [pc EXCEPT ![w] = l]
        PROVE  FALSE
    BY <1>0, <1>2
  <1>3. ASSUME NEW o \in Orders, NEW t \in Asked, AdminStatus(w, o, t)
        PROVE  FALSE
    <2>1. PICK l \in {"fulfillRead", "adminWrite"} : pc' = [pc EXCEPT ![w] = l]
      BY <1>3, Zenon DEF AdminStatus, Take
    <2> QED
      BY <1>2, <2>1 DEF GivingBack
  <1>4. ASSUME NEW o \in Orders, NEW r,
               \/ ConfirmDelivered(w, o) \/ RequestRefund(w, o, r)
               \/ RejectRefund(w, o) \/ ReturnReceived(w, o) \/ ApproveRefund(w, o)
        PROVE  FALSE
    BY <1>2, <1>4 DEF ConfirmDelivered, RequestRefund, RejectRefund, ReturnReceived,
                      ApproveRefund, SweepThen, Take, GivingBack
  <1>5. ASSUME NEW p \in Payments, PayCall(w, p) \/ Webhook(w, p)
        PROVE  FALSE
    <2>1. gateway[p] \in GatewayStatus
      BY <1>0
    <2> QED
      BY <1>2, <1>5, <2>1 DEF PayCall, Webhook, AfterPayment, GatewayStatus, Take, GivingBack
  <1>6. CASE Sweep(w)
    BY <1>2, <1>6 DEF Sweep, GivingBack
  <1> QED
    BY <1>1, <1>3, <1>4, <1>5, <1>6 DEF OrdersCall, PaymentsCall

LEMMA UnitsHeldStep ==
    ASSUME Typed, Existing, Apart, StaffHeeds, Stocked, [Next]_vars
    PROVE  UnitsHeld'
  <1> SUFFICES ASSUME NEW o \in Orders, orders'[o].status \in OnSale
               PROVE  orders'[o].stockReserved
    BY DEF UnitsHeld
  <1>0. orders \in [Orders -> Row] /\ orders[o] \in Row
    BY DEF Typed, TypeOK, OrdersTypeOK
  <1>1. CASE orders[o].status \in OnSale
    <2>1. orders[o].stockReserved
      BY <1>1 DEF Stocked, UnitsHeld
    <2>2. ~Given(o)
      BY <1>1 DEF Given, Stocked, SafeHands, OffSale
    <2> QED
      BY <2>1, <2>2, FlagKept
  <1>2. CASE PutOnSale(o)
    <2>1. ASSUME NEW w \in Workers, Sells(w, o)
          PROVE  orders'[o].stockReserved
      <3>1. ASSUME FulfillClaim(w), o = job[w].subject, job[w].status \in OnSale
            PROVE  orders[o].stockReserved
        BY <3>1 DEF Stocked, SafeHands, FulfillClaim
      <3>2. ASSUME AdminWrite(w), o = job[w].subject, job[w].status \in OnSale
            PROVE  orders[o].stockReserved
        BY <3>2 DEF StaffHeeds, Firm
      <3>3. ASSUME NEW S \in SUBSET Orders, NEW t \in Asked \cap OnSale,
                   BulkStatus(w, S, t), o \in S
            PROVE  orders[o].stockReserved
        BY <3>3 DEF StaffHeeds, Firm
      <3> QED
        BY <2>1, <3>1, <3>2, <3>3 DEF Sells, SameFlag
    <2> QED
      BY <1>2, <2>1, Sold
  <1> QED
    BY <1>1, <1>2 DEF PutOnSale

\* An order that is being given back is not put on sale again meanwhile.
LEMMA GivenStaysOffSale ==
    ASSUME Typed, Typed', Existing, Apart, Apart', StaffHeeds, Stocked, [Next]_vars,
           NEW v \in Workers, pc[v] \in GivingBack, UNCHANGED <<pc[v], job[v]>>,
           NEW o \in job[v].todo
    PROVE  orders'[o].status \in OffSale
  <1>0. /\ job[v] \in Job /\ orders' \in [Orders -> Row] /\ o \in Orders
        /\ orders[o].status \in OffSale
    BY DEF Typed, TypeOK, OrdersTypeOK, Job, Stocked, SafeHands
  <1>1. Given(o) /\ Given(o)' /\ Created(o)
    BY <1>0 DEF Given, Created, OffSale, OrderStatus
  <1>2. ~PutOnSale(o)
    <2> SUFFICES ASSUME NEW w \in Workers, Sells(w, o) PROVE FALSE
      BY <1>0, <1>1, Sold
    <2>1. CASE pc'[w] = "fulfillStatus" /\ job'[w].subject = o
      BY <1>1, <2>1 DEF Apart, Given
    <2>2. CASE FulfillClaim(w) /\ o = job[w].subject
      BY <1>1, <2>2 DEF Apart, FulfillClaim
    <2>3. CASE AdminWrite(w) /\ o = job[w].subject /\ job[w].status \in OnSale
      BY <1>1, <2>3 DEF StaffHeeds, Firm
    <2>4. CASE \E S \in SUBSET Orders, t \in Asked \cap OnSale : BulkStatus(w, S, t) /\ o \in S
      BY <1>1, <2>4 DEF StaffHeeds, Firm
    <2> QED
      BY <2>1, <2>2, <2>3, <2>4 DEF Sells
  <1>3. Created(o)' /\ orders'[o] \in Row
    BY <1>0, <1>1, CreatedStays
  <1> QED
    BY <1>0, <1>2, <1>3 DEF PutOnSale, OffSale, Created, Row, Status

LEMMA StockedStep ==
    ASSUME Typed, Typed', Existing, Apart, Apart', StaffHeeds, Stocked, [Next]_vars
    PROVE  Stocked'
  <1>0. /\ job \in [Workers -> Job] /\ pc \in [Workers -> PC] /\ UnitsHeld
        /\ orders \in [Orders -> Row]
    BY DEF Typed, TypeOK, OrdersTypeOK, Stocked
  <1>1. UnitsHeld'
    BY UnitsHeldStep
  \* Who stays where it was.
  <1>2. ASSUME NEW v \in Workers, UNCHANGED <<pc[v], job[v]>>
        PROVE  SafeHands(v)'
    <2>1. pc'[v] \in GivingBack => \A o \in job'[v].todo : orders'[o].status \in OffSale
      BY <1>2, GivenStaysOffSale
    <2>2. ASSUME pc[v] = "fulfillClaim", job[v].status \in OnSale
          PROVE  orders'[job[v].subject].stockReserved
      <3>1. job[v].subject \in Orders /\ orders[job[v].subject].stockReserved
        BY <2>2 DEF Stocked, SafeHands, Typed, Grounded, WithSubject
      <3>2. ~Given(job[v].subject)
        BY <2>2 DEF Apart
      <3> QED
        BY <3>1, <3>2, FlagKept
    <2> QED
      BY <1>2, <2>1, <2>2 DEF SafeHands
  <1>3. ASSUME NEW w \in Workers, FulfillStatus(w)
        PROVE  job'[w].status \in OnSale => orders'[job'[w].subject].stockReserved
    <2> DEFINE s == job[w].subject
               t == IF orders[s].status = "PENDING" THEN "PAID" ELSE orders[s].status
    <2>1. s \in Orders /\ UNCHANGED orders
      BY <1>3 DEF FulfillStatus, Typed, Grounded, WithSubject
    <2>2. job'[w].subject = s /\ job'[w].status = t
      BY <1>0, <1>3 DEF FulfillStatus, Move, Job
    <2>3. t \in OnSale => orders[s].stockReserved
      BY <1>0, <2>1 DEF UnitsHeld, OnSale
    <2> QED
      BY <2>1, <2>2, <2>3
  <1>4. ASSUME NEW w \in Workers, Working(w)
        PROVE  SafeHands(w)'
    <2>1. pc'[w] \in GivingBack => LeftOffSale(job'[w].todo)
      BY <1>4, GivesOffSale, CallsGiveOffSale DEF Working, Stocked
    <2>2. pc'[w] = "fulfillClaim" => FulfillStatus(w)
      BY <1>4, StepsArrive, CallsArrive DEF Working, Arrives
    <2> QED
      BY <1>3, <2>1, <2>2 DEF SafeHands, LeftOffSale
  <1>5. ASSUME NEW w \in Workers, Working(w)
        PROVE  Stocked'
    <2>1. OthersWait(w)
      BY <1>5, WorkersAlone DEF Working
    <2>2. \A v \in Workers \ {w} : SafeHands(v)'
      BY <1>2, <2>1 DEF OthersWait, OthersStay
    <2> QED
      BY <1>1, <1>4, <1>5, <2>2 DEF Stocked
  <1>6. CASE UNCHANGED <<pc, job>>
    BY <1>1, <1>2, <1>6 DEF Stocked
  <1> QED
    BY <1>5, <1>6, KindsOfStep, NobodyWorks

\* Whatever else overlaps or dies, a paid order the store will ship holds its units
\* unless one of two things happens: one handler gives an order back while another
\* is about to approve it (the expiry and the webhook of a late payment), or the
\* staff puts an order on sale that does not hold its units.
THEOREM PaidOrdersHold == Spec /\ []Apart /\ [][StaffHeeds]_vars => []PaidHoldsStock
  <1>1. Init => Stocked
    BY DEF Init, OrdersInit, Stocked, UnitsHeld, SafeHands, Absent, OnSale, GivingBack
  <1>2. /\ Typed /\ Typed' /\ Existing /\ Apart /\ Apart' /\ Stocked
        /\ [Next]_vars /\ [StaffHeeds]_vars
        => Stocked'
    <2>1. ASSUME Stocked, UNCHANGED vars
          PROVE  Stocked'
      BY <2>1 DEF Stocked, UnitsHeld, SafeHands, vars
    <2> QED
      BY <2>1, StockedStep
  <1>3. Stocked => PaidHoldsStock
    BY DEF Stocked, UnitsHeld, PaidHoldsStock, OnSale
  <1> QED
    BY <1>1, <1>2, <1>3, Typing, ExistingHolds, PTL DEF Spec

-----------------------------------------------------------------------------
(* No unit is lost *)

\* No handler dies or fails with units in its hands, and none revives an order that
\* another has just revived: tryReviveCancelledOrder does not look at stockReserved
\* again before it takes the units.
NothingDropped ==
    \A w \in Workers :
      /\ pc[w] = "returnStock" => ~OrdersFailure(w)
      /\ Revive(w) /\ orders[job[w].subject].stockReserved => UNCHANGED <<orders, stock>>

\* An order that was not placed holds nothing.
HeldIsPlaced == \A o \in Orders : ~Created(o) => ~orders[o].stockReserved

\* Handlers that carry units go on carrying them.
SameCarriers ==
    \A w \in Workers :
        /\ pc'[w] = "returnStock" <=> pc[w] = "returnStock"
        /\ pc'[w] = "returnStock" => job'[w].order = job[w].order

LEMMA ExactUnlessMoved ==
    ASSUME StockExact, stock' = stock,
           \A o \in Orders : orders'[o].stockReserved = orders[o].stockReserved,
           SameCarriers
    PROVE  StockExact'
  <1> SUFFICES ASSUME NEW p \in Products
               PROVE  stock'[p] + Cardinality(Held(p)') + Cardinality(Returning(p)')
                        = initialStock[p]
    BY DEF StockExact
  <1>1. Held(p)' = Held(p)
    BY DEF Held
  <1>2. Returning(p)' = Returning(p)
    BY DEF Returning, SameCarriers
  <1> QED
    BY <1>1, <1>2 DEF StockExact

\* create and tryReviveCancelledOrder: the units of an order that held none.
LEMMA ReserveExact ==
    ASSUME Typed, StockExact, NEW o \in Orders, CanReserve(o), ReserveStock(o),
           ~orders[o].stockReserved, orders'[o].stockReserved,
           \A x \in Orders : x # o => orders'[x] = orders[x],
           SameCarriers
    PROVE  StockExact'
  <1> SUFFICES ASSUME NEW p \in Products
               PROVE  stock'[p] + Cardinality(Held(p)') + Cardinality(Returning(p)')
                        = initialStock[p]
    BY DEF StockExact
  <1>1. Returning(p)' = Returning(p)
    BY DEF Returning, SameCarriers
  <1>2. /\ stock[p] \in Nat
        /\ stock[p] + Cardinality(Held(p)) + Cardinality(Returning(p)) = initialStock[p]
    BY DEF StockExact, Typed, TypeOK, OrdersTypeOK
  <1>3. CASE p \in items[o]
    <2>1. stock'[p] = stock[p] - 1
      BY <1>3 DEF ReserveStock
    <2>2. Held(p)' = Held(p) \cup {o} /\ o \notin Held(p)
      BY <1>3 DEF Held
    <2>3. Cardinality(Held(p)') = Cardinality(Held(p)) + 1
      BY <2>2, HeldFinite, FS_AddElement
    <2> QED
      BY <1>1, <1>2, <2>1, <2>3, HeldFinite
  <1>4. CASE p \notin items[o]
    <2>1. stock'[p] = stock[p]
      BY <1>4 DEF ReserveStock
    <2>2. Held(p)' = Held(p)
      BY <1>4 DEF Held
    <2> QED
      BY <1>1, <1>2, <2>1, <2>2
  <1> QED
    BY <1>3, <1>4

LEMMA ClaimStockExact ==
    ASSUME Typed, StockExact, NEW w \in Workers, ClaimStock(w), OthersWait(w)
    PROVE  StockExact'
  <1>0. /\ orders \in [Orders -> Row] /\ pc \in [Workers -> PC]
        /\ job \in [Workers -> Job]
        /\ \A v \in Workers \ {w} : pc'[v] = pc[v] /\ job'[v] = job[v]
    BY DEF OthersWait, OthersStay, Typed, TypeOK, OrdersTypeOK
  <1>1. PICK o \in job[w].todo :
          LET j == [job[w] EXCEPT !.order = o] IN
          IF orders[o].stockReserved
          THEN /\ Update(o, [orders[o] EXCEPT !.stockReserved = FALSE])
               /\ Move(w, "returnStock", j)
          ELSE UNCHANGED orders /\ Move(w, "claimCoupon", j)
    BY DEF ClaimStock
  <1> DEFINE j == [job[w] EXCEPT !.order = o]
  <1>2. o \in Orders /\ j.order = o /\ pc[w] = "claimStock" /\ stock' = stock
    BY <1>0 DEF ClaimStock, Job
  <1>3. CASE ~orders[o].stockReserved
    <2>1. UNCHANGED orders /\ pc'[w] = "claimCoupon"
      BY <1>0, <1>1, <1>3 DEF Move
    <2> QED
      BY <1>0, <1>2, <2>1, ExactUnlessMoved DEF SameCarriers
  <1>4. CASE orders[o].stockReserved
    <2> SUFFICES ASSUME NEW p \in Products
                 PROVE  stock'[p] + Cardinality(Held(p)') + Cardinality(Returning(p)')
                          = initialStock[p]
      BY DEF StockExact
    <2>1. /\ Update(o, [orders[o] EXCEPT !.stockReserved = FALSE])
          /\ Move(w, "returnStock", j)
      BY <1>1, <1>4
    <2>2. /\ ~orders'[o].stockReserved
          /\ \A x \in Orders : x # o => orders'[x] = orders[x]
      BY <1>0, <1>2, <2>1 DEF Update, Row
    <2> HIDE DEF j
    <2>3. pc'[w] = "returnStock" /\ job'[w].order = o
      BY <1>0, <1>2, <2>1 DEF Move
    <2>4. stock[p] + Cardinality(Held(p)) + Cardinality(Returning(p)) = initialStock[p]
          /\ stock[p] \in Nat
      BY DEF StockExact, Typed, TypeOK, OrdersTypeOK
    <2>5. CASE p \in items[o]
      <3>1. o \in Held(p) /\ Held(p)' = Held(p) \ {o}
        BY <1>2, <1>4, <2>2, <2>5 DEF Held
      <3>2. w \notin Returning(p) /\ Returning(p)' = Returning(p) \cup {w}
        BY <1>0, <1>2, <2>3, <2>5 DEF Returning
      <3>3. Cardinality(Held(p)') = Cardinality(Held(p)) - 1
        BY <3>1, HeldFinite, FS_RemoveElement
      <3>4. Cardinality(Returning(p)') = Cardinality(Returning(p)) + 1
        BY <3>2, HeldFinite, FS_AddElement
      <3> QED
        BY <1>2, <2>4, <3>3, <3>4, HeldFinite
    <2>6. CASE p \notin items[o]
      <3>1. Held(p)' = Held(p)
        BY <2>2, <2>6 DEF Held
      <3>2. Returning(p)' = Returning(p)
        BY <1>0, <1>2, <2>3, <2>6 DEF Returning
      <3> QED
        BY <1>2, <2>4, <3>1, <3>2
    <2> QED
      BY <2>5, <2>6
  <1> QED
    BY <1>3, <1>4

LEMMA ReturnStockExact ==
    ASSUME Typed, StockExact, NEW w \in Workers, ReturnStock(w), OthersWait(w)
    PROVE  StockExact'
  <1> DEFINE o == job[w].order
  <1>0. /\ pc \in [Workers -> PC] /\ job \in [Workers -> Job] /\ o \in Orders
        /\ \A v \in Workers \ {w} : pc'[v] = pc[v] /\ job'[v] = job[v]
    BY DEF OthersWait, OthersStay, ReturnStock, Typed, TypeOK, OrdersTypeOK, Grounded, WithOrder
  <1> SUFFICES ASSUME NEW p \in Products
               PROVE  stock'[p] + Cardinality(Held(p)') + Cardinality(Returning(p)')
                        = initialStock[p]
    BY DEF StockExact
  <1>1. pc[w] = "returnStock" /\ pc'[w] = "claimCoupon" /\ job'[w] = job[w]
    BY <1>0 DEF ReturnStock, Goto, Move
  <1>2. Held(p)' = Held(p)
    BY DEF ReturnStock, Held
  <1>3. stock[p] + Cardinality(Held(p)) + Cardinality(Returning(p)) = initialStock[p]
        /\ stock[p] \in Nat
    BY DEF StockExact, Typed, TypeOK, OrdersTypeOK
  <1>4. CASE p \in items[o]
    <2>1. stock'[p] = stock[p] + 1
      BY <1>4 DEF ReturnStock
    <2>2. w \in Returning(p) /\ Returning(p)' = Returning(p) \ {w}
      BY <1>0, <1>1, <1>4 DEF Returning
    <2>3. Cardinality(Returning(p)') = Cardinality(Returning(p)) - 1
      BY <2>2, HeldFinite, FS_RemoveElement
    <2> QED
      BY <1>2, <1>3, <2>1, <2>3, HeldFinite
  <1>5. CASE p \notin items[o]
    <2>1. stock'[p] = stock[p]
      BY <1>5 DEF ReturnStock
    <2>2. Returning(p)' = Returning(p)
      BY <1>0, <1>1, <1>5 DEF Returning
    <2> QED
      BY <1>2, <1>3, <2>1, <2>2
  <1> QED
    BY <1>4, <1>5

\* The statements that write rows but neither give nor take units.
LEMMA UnitsKept ==
    ASSUME Typed, NEW w \in Workers,
           ReturnStock(w) \/ ClaimCoupon(w) \/ ReleaseCoupon(w) \/ FulfillClaim(w)
    PROVE  \A o \in Orders : orders'[o].stockReserved = orders[o].stockReserved
  <1>0. orders \in [Orders -> Row]
    BY DEF Typed, TypeOK, OrdersTypeOK
  <1>1. CASE ReturnStock(w) \/ ReleaseCoupon(w)
    BY <1>1 DEF ReturnStock, ReleaseCoupon
  <1>2. CASE ClaimCoupon(w)
    BY <1>0, <1>2 DEF ClaimCoupon, Update, Row
  <1>3. CASE FulfillClaim(w)
    <2> DEFINE s == job[w].subject
               row == [WithPayment(orders[s], job[w].payment)
                         EXCEPT !.paymentStatus = "APPROVED",
                                !.status = job[w].status, !.paidAt = TRUE]
    <2>1. s \in Orders
      BY <1>3 DEF FulfillClaim, Typed, Grounded, WithSubject
    <2>2. row.stockReserved = orders[s].stockReserved
      BY <1>0, <2>1 DEF WithPayment, Row
    <2>3. UNCHANGED orders \/ Update(s, row)
      BY <1>3 DEF FulfillClaim
    <2> HIDE DEF row
    <2> QED
      BY <1>0, <2>1, <2>2, <2>3 DEF Update
  <1> QED
    BY <1>1, <1>2, <1>3

LEMMA HeldIsPlacedStep ==
    ASSUME Typed, Existing, HeldIsPlaced, [Next]_vars
    PROVE  HeldIsPlaced'
  <1>0. orders \in [Orders -> Row] /\ pc \in [Workers -> PC] /\ job \in [Workers -> Job]
    BY DEF Typed, TypeOK, OrdersTypeOK
  <1>1. ASSUME NEW o \in Orders, orders'[o].stockReserved
        PROVE  Created(o)'
    <2>1. Created(o) => Created(o)'
      BY CreatedStays
    <2>2. CASE orders[o].stockReserved
      BY <2>1, <2>2 DEF HeldIsPlaced
    <2>3. CASE ~orders[o].stockReserved
      <3>1. CASE Quiet
        BY <1>1, <2>3, <3>1 DEF Quiet, HoldsStay
      <3>2. ASSUME NEW w \in Workers, Loud(w)
            PROVE  Created(o)'
        <4>1. ~ClaimStock(w)
          BY <1>0, <1>1, <2>3 DEF ClaimStock, Update, Row
        <4>2. Revive(w)
          BY <1>1, <2>3, <3>2, <4>1, UnitsKept DEF Loud
        <4>3. o = job[w].subject
          BY <1>0, <1>1, <2>3, <4>2 DEF Revive, Update
        <4> QED
          BY <2>1, <4>3 DEF Existing
      <3>3. ASSUME NEW x \in Orders, Create(x)
            PROVE  Created(o)'
        BY <1>0, <1>1, <2>3, <3>3 DEF Create, Update, Created, Absent
      <3> QED
        BY <3>1, <3>2, <3>3, StepsQuietOrLoud
    <2> QED
      BY <2>2, <2>3
  <1> QED
    BY <1>1 DEF HeldIsPlaced

\* Only the statement that puts units on the shelf leaves the label before it.
LEMMA OthersCarryNothing ==
    ASSUME NEW w \in Workers, Step(w), ~ReturnStock(w)
    PROVE  pc[w] # "returnStock"
  <1>1. CASE Expire(w) \/ ClaimStock(w) \/ ClaimCoupon(w) \/ ReleaseCoupon(w)
    BY <1>1, Zenon DEF Expire, ClaimStock, ClaimCoupon, ReleaseCoupon
  <1>2. CASE FulfillStep(w)
    BY <1>2 DEF FulfillStep, FulfillRead, Revive, MarkApproved, FulfillStatus, FulfillClaim,
        RecordPayment
  <1>3. CASE \/ AdminWrite(w) \/ ConfirmRead(w) \/ ConfirmWrite(w)
             \/ RequestRead(w) \/ RequestWrite(w) \/ RejectWrite(w)
             \/ PendingRead(w) \/ PendingWrite(w) \/ ReceivedWrite(w)
    BY <1>3 DEF AdminWrite, ConfirmRead, ConfirmWrite, RequestRead, RequestWrite,
        RejectWrite, PendingRead, PendingWrite, ReceivedWrite
  <1>4. CASE PaymentsStep(w)
    BY <1>4 DEF PaymentsStep, ExpireOne, PayPost, HookRead, HookRefund, WriteRejected,
        WritePending, WriteUnpaid, RefundRead, RefundPost, RefundWrite
  <1> QED
    BY <1>1, <1>2, <1>3, <1>4 DEF Step, OrdersStep, GiveBackStep

\* A handler that has no units in its hands before the step nor after it.
LEMMA CarriersSame ==
    ASSUME NEW w \in Workers, OthersWait(w), pc[w] # "returnStock", pc'[w] # "returnStock"
    PROVE  SameCarriers
  BY DEF SameCarriers, OthersWait, OthersStay

LEMMA ExactStep ==
    ASSUME Typed, Existing, NothingDropped, HeldIsPlaced, StockExact, [Next]_vars
    PROVE  StockExact'
  <1>0. orders \in [Orders -> Row] /\ pc \in [Workers -> PC] /\ job \in [Workers -> Job]
    BY DEF Typed, TypeOK, OrdersTypeOK
  <1>1. ASSUME Quiet,
               \A w \in Workers : pc[w] = "returnStock" => pc'[w] = "returnStock"
        PROVE  StockExact'
    BY <1>1, ExactUnlessMoved DEF Quiet, HoldsStay, CarriersStay, Carrying, SameCarriers
  <1>2. ASSUME NEW w \in Workers, Working(w), Quiet, pc[w] # "returnStock"
        PROVE  StockExact'
    <2>1. OthersStay(w)
      BY <1>2, WorkersAlone DEF Working, OthersWait
    <2> QED
      BY <1>1, <1>2, <2>1 DEF OthersStay
  <1>3. ASSUME NEW w \in Workers, ClaimCoupon(w) \/ ReleaseCoupon(w) \/ FulfillClaim(w),
               OthersWait(w)
        PROVE  StockExact'
    <2>1. pc[w] # "returnStock" /\ stock' = stock
      BY <1>3 DEF ClaimCoupon, ReleaseCoupon, FulfillClaim
    <2>2. pc'[w] # "returnStock"
      <3>1. CASE NextOrder(w)
        BY <2>1, <3>1, NextOrderQuiet DEF CarriersStay, Carrying
      <3>2. CASE FulfillClaim(w)
        BY <1>0, <3>2 DEF FulfillClaim, Goto, Finish, Move
      <3>3. CASE Goto(w, "releaseCoupon")
        BY <1>0, <3>3 DEF Goto, Move
      <3> QED
        BY <1>3, <3>1, <3>2, <3>3 DEF ClaimCoupon, ReleaseCoupon
    <2> QED
      BY <1>3, <2>1, <2>2, CarriersSame, UnitsKept, ExactUnlessMoved
  <1>4. ASSUME NEW w \in Workers, Revive(w), OthersWait(w)
        PROVE  StockExact'
    <2> DEFINE s == job[w].subject
               row == [orders[s] EXCEPT !.stockReserved = TRUE, !.status = "PENDING",
                                        !.paymentStatus = "PENDING"]
    <2>1. s \in Orders /\ pc[w] = "revive" /\ pc'[w] # "returnStock"
      BY <1>0, <1>4 DEF Revive, Goto, Move, Typed, Grounded, WithSubject
    <2>2. SameCarriers
      BY <1>4, <2>1, CarriersSame
    <2>3. CASE UNCHANGED <<orders, stock>>
      BY <2>2, <2>3, ExactUnlessMoved
    <2>4. CASE CanReserve(s) /\ ReserveStock(s) /\ Update(s, row)
      <3>1. orders'[s] = row /\ \A x \in Orders : x # s => orders'[x] = orders[x]
        BY <1>0, <2>1, <2>4 DEF Update
      <3>2. row.stockReserved /\ row.status = "PENDING" /\ row.paymentStatus = "PENDING"
        BY <1>0, <2>1 DEF Row
      <3> HIDE DEF row
      <3>3. CASE orders[s].stockReserved
        <4>1. UNCHANGED <<orders, stock>>
          BY <1>4, <3>3 DEF NothingDropped
        <4> QED
          BY <2>3, <4>1
      <3>4. CASE ~orders[s].stockReserved
        BY <2>1, <2>2, <2>4, <3>1, <3>2, <3>4, ReserveExact
      <3> QED
        BY <3>3, <3>4
    <2> QED
      BY <1>4, <2>3, <2>4, Zenon DEF Revive
  <1>5. ASSUME NEW w \in Workers, Step(w)
        PROVE  StockExact'
    <2>1. Quiet \/ Loud(w)
      BY <1>5, OrdersStepQuiet, PaymentsStepQuiet
         DEF Step, OrdersStep, GiveBackStep, FulfillStep, Loud
    <2>2. OthersWait(w)
      BY <1>5, WorkersAlone
    <2>3. CASE ReturnStock(w)
      BY <2>2, <2>3, ReturnStockExact
    <2>4. CASE Quiet /\ ~ReturnStock(w)
      BY <1>2, <1>5, <2>4, OthersCarryNothing DEF Working
    <2> QED
      BY <1>3, <1>4, <2>1, <2>2, <2>3, <2>4, ClaimStockExact DEF Loud
  <1>6. ASSUME NEW w \in Workers, OrdersCall(w) \/ PaymentsCall(w)
        PROVE  StockExact'
    BY <1>2, <1>6, CallsArrive, CallsQuiet DEF Working
  <1>7. ASSUME NEW o \in Orders, Create(o)
        PROVE  StockExact'
    <2> DEFINE row == [Absent EXCEPT !.status = "PENDING", !.stockReserved = TRUE,
                                     !.couponReserved = (o \in withCoupon)]
    <2>1. /\ CanReserve(o) /\ ReserveStock(o) /\ Update(o, row)
          /\ ~orders[o].stockReserved /\ UNCHANGED <<pc, job>>
      BY <1>7 DEF Create, HeldIsPlaced
    <2>2. row.stockReserved
      BY DEF Absent
    <2> HIDE DEF row
    <2>3. orders'[o].stockReserved /\ \A x \in Orders : x # o => orders'[x] = orders[x]
      BY <1>0, <2>1, <2>2 DEF Update
    <2>4. SameCarriers
      BY <2>1 DEF SameCarriers
    <2> QED
      BY <2>1, <2>3, <2>4, ReserveExact
  <1>8. CASE TimePasses \/ MoneyMoves \/ UNCHANGED vars
    BY <1>1, <1>8, NobodyWorks, EnvironmentQuiet DEF TimePasses, MoneyMoves
  <1>9. ASSUME NEW w \in Workers, OrdersFailure(w)
        PROVE  StockExact'
    BY <1>2, <1>9, FailuresQuiet DEF NothingDropped, Working
  <1> QED
    BY <1>5, <1>6, <1>7, <1>8, <1>9, KindsOfStep DEF Working

\* Shelf, orders and handlers together have exactly what the store had, however
\* handlers overlap, unless one of two things happens: a handler dies, or a statement
\* of it throws, between the flag of a give-back and its units, or two approvals
\* revive one cancelled order.
THEOREM NoUnitLost == Spec /\ [][NothingDropped]_vars => []StockExact
  <1>1. Init => HeldIsPlaced
    BY DEF Init, OrdersInit, HeldIsPlaced, Created, Absent
  <1>2. Init => StockExact
    <2> SUFFICES ASSUME Init, NEW p \in Products
                 PROVE  stock[p] + Cardinality(Held(p)) + Cardinality(Returning(p))
                          = initialStock[p]
      BY DEF StockExact
    <2>1. Held(p) = {} /\ Returning(p) = {}
      BY DEF Init, OrdersInit, Held, Returning, Absent
    <2>2. Cardinality({}) = 0
      BY FS_EmptySet
    <2>3. stock[p] = initialStock[p] /\ initialStock[p] \in Nat
      BY OrdersAssumption DEF Init, OrdersInit
    <2> QED
      BY <2>1, <2>2, <2>3
  <1>3. Typed /\ Existing /\ HeldIsPlaced /\ [Next]_vars => HeldIsPlaced'
    BY HeldIsPlacedStep
  <1>4. /\ Typed /\ Existing /\ HeldIsPlaced /\ StockExact
        /\ [Next]_vars /\ [NothingDropped]_vars
        => StockExact'
    <2>1. ASSUME StockExact, UNCHANGED vars
          PROVE  StockExact'
      BY <2>1 DEF StockExact, Held, Returning, vars, ordersVars
    <2> QED
      BY <2>1, ExactStep
  <1> QED
    BY <1>1, <1>2, <1>3, <1>4, Typing, ExistingHolds, PTL DEF Spec
=============================================================================
