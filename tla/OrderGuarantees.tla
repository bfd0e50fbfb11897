--------------------------- MODULE OrderGuarantees ---------------------------
(***************************************************************************)
(* What the order and payment handlers together promise: the properties    *)
(* the runs check and OrderProofs and RaceProofs prove.                    *)
(***************************************************************************)
EXTENDS Payments

Held(p) == {o \in Orders : orders[o].stockReserved /\ p \in items[o]}
Returning(p) ==
    {w \in Workers : pc[w] = "returnStock" /\ job[w].order \in Orders
                     /\ p \in items[job[w].order]}

\* No unit is ever given back twice or sold twice: what is on the shelf, what
\* orders hold and what a handler is carrying back never exceed what the store
\* had.  Whatever the interleaving and wherever a handler dies, a unit may get
\* lost (safe side) but never invented (compare-and-swap of stockReserved in
\* restockOrderItems, conditional decrement in reserveStock).
StockNeverInvented ==
    \A p \in Products :
        stock[p] + Cardinality(Held(p)) + Cardinality(Returning(p)) <= initialStock[p]

CouponHolders == {o \in Orders : orders[o].couponReserved}
CouponReleasing == {w \in Workers : pc[w] = "releaseCoupon"}

\* The coupon's counter covers every order that holds a use of it and every
\* use on its way back, and never passes maxUses: no interleaving of checkouts
\* and give-backs frees a use that an order still holds.
CouponCovered ==
    /\ Cardinality(CouponHolders) + Cardinality(CouponReleasing) <= usedCount
    /\ usedCount <= maxUses

\* Mail, receipt print, NFC-e and label of an approval fire at most once per
\* order, whatever duplicates, concurrent webhooks, Brick answers and manual
\* "paid" marks arrive, and even if the payment status goes back and forth.
EffectsFireOnce == \A o \in Orders : effects[o] <= 1

\* An order says "refunded" only when the gateway did give money back: no
\* status change by staff, single or bulk, may claim it.
RefundedMeansMoneyBack ==
    \A o \in Orders : Refunded(orders[o]) =>
        \E p \in Payments : orderOf[p] = o /\ gateway[p] = "refunded"

\* With one handler at a time (no interleaving) nothing is lost either: the
\* sum is exactly what the store had.
StockExact ==
    \A p \in Products :
        stock[p] + Cardinality(Held(p)) + Cardinality(Returning(p)) = initialStock[p]

\* A paid order the store will ship still holds its units (the comment at
\* orders.service.ts:398-401: otherwise customers pay for what is not there).
PaidHoldsStock ==
    \A o \in Orders :
        orders[o].status = "PAID" /\ orders[o].paymentStatus = "APPROVED"
            => orders[o].stockReserved

\* When the reason asks for the goods back, the refund the store grants only
\* reaches the gateway after the goods were received.
RefundAfterReturn ==
    \A w \in Workers : pc[w] = "refundWrite" =>
        LET row == orders[job[w].subject] IN
        NeedsReturn(row.refundReasonType) => row.returnReceivedAt

\* The expiry cancels no order whose payment was approved ("Cancela pedidos PENDING
\* (status + pagamento)", orders.service.ts:95).
PaidNeverExpires ==
    [][\A w \in Workers : Expire(w) =>
          \A o \in job[w].todo : orders[o].paymentStatus # "APPROVED"]_vars

Empty(o) == ~orders[o].stockReserved /\ ~orders[o].couponReserved

\* An order that is unpaid and over an hour old does not stay so forever: it is
\* paid after all, or the sweep lets it go and it ends up holding neither units
\* nor a coupon use.
AbandonedComesBack ==
    \A o \in Orders :
        Stale(o) \/ orders[o].paymentStatus = "CANCELLED"
            ~> ~Stale(o) /\ (orders[o].paymentStatus = "CANCELLED" => Empty(o))
=============================================================================
