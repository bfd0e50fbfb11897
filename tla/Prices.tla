------------------------------- MODULE Prices -------------------------------
(***************************************************************************)
(* What an order costs and what is charged for it, in cents: the discounts *)
(* of "compre junto" (api/src/products/combo.ts) and of the coupon         *)
(* (api/src/coupons/coupons.service.ts) at the checkout, the discount for  *)
(* Pix (api/src/orders/desconto-pix.ts) at each attempt to pay, and the    *)
(* webhook that compares what was paid with what was asked                 *)
(* (api/src/payments/payments.service.ts).  The rest of these handlers is  *)
(* in Orders and Payments, which have no amounts.                          *)
(***************************************************************************)
EXTENDS Integers, Sequences, FiniteSets, FiniteSetsExt, SequencesExt, Functions

CONSTANTS
    BagLines,    \* lines a bag may have: product (a number), price of its variant, quantity
    Rules,       \* [products -> [pct, with]]: buyTogetherDiscountPct, buyTogetherIds
    MaxLines,    \* bound: lines of a bag
    Coupons,     \* kind, value and min
    Freight,     \* what the chosen shipping costs
    Percents,    \* values of Store.pixDiscountPercent
    Charges,     \* payments Mercado Pago may make, numbered
    Calls,       \* requests and webhooks, numbered
    MaxPays,     \* bound: attempts to pay and webhooks
    MaxEvents    \* bound: refunds in the panel, processes that die, changes of the percent

ASSUME PricesAreCents ==
    /\ \A l \in BagLines : l.price \in Nat /\ l.quantity \in Nat \ {0}
    /\ \A c \in Coupons : c.value \in Nat
    /\ Freight \in Nat
    /\ IsFiniteSet(DOMAIN Rules) /\ \A p \in DOMAIN Rules : Rules[p].pct \in Nat
    /\ Percents \subseteq Nat /\ IsFiniteSet(Charges)

VARIABLES
    basket,    \* lines the customer is about to order; dropped once ordered
    amounts,   \* the amounts of the order's row
    percent,   \* Store.pixDiscountPercent
    charge,    \* payments at Mercado Pago
    paying,    \* where each request or webhook is
    changed,   \* history: the percent was changed after the checkout
    turned,    \* history: payments judged too small
    pays, events   \* bounds

priceBounds == <<pays, events>>
priceVars == <<basket, amounts, percent, charge, paying, changed, turned, priceBounds>>

-----------------------------------------------------------------------------
(* "Compre junto": descontoDoComboCents *)

Least(a, b) == IF a < b THEN a ELSE b
NotBelowZero(n) == IF n < 0 THEN 0 ELSE n
SumOver(S, f(_)) == SumFunctionOnSet([x \in S |-> f(x)], S)

Subtotal(lines) == SumOver(DOMAIN lines, LAMBDA i : lines[i].price * lines[i].quantity)
Units(lines, p) ==
    SumOver({i \in DOMAIN lines : lines[i].product = p}, LAMBDA i : lines[i].quantity)

\* Lots of one product, the dearest first.
Dearer(lines, j, i) ==
    /\ lines[j].product = lines[i].product
    /\ lines[j].price > lines[i].price \/ (lines[j].price = lines[i].price /\ j < i)

\* Products of the bag that discount others.
Principals(lines) == {p \in DOMAIN Rules : Rules[p].pct > 0 /\ Units(lines, p) > 0}

\* "Principais com desconto maior primeiro": the smallest percentage comes last.
LastOf(S) == CHOOSE p \in S : \A q \in S : Rules[p].pct <= Rules[q].pct

MaxComboPct == 30
Pct(p) == Least(Rules[p].pct, MaxComboPct)

\* Each unit of p discounts a unit of each product it goes with, of those left.
Used(lines, left, p) ==
    [i \in DOMAIN lines |->
       IF lines[i].product \in Rules[p].with \ {p}
       THEN Least(left[i], NotBelowZero(Units(lines, p) -
                      SumOver({j \in DOMAIN lines : Dearer(lines, j, i)}, LAMBDA j : left[j])))
       ELSE 0]

\* Mutant: a unit that has its discount may get another.
AllLeft(left, used) == left

\* "cada unidade sugerida só ganha uma vez".
NowLeft(left, used) == [i \in DOMAIN left |-> left[i] - used[i]]

Off(price, pct) == (price * pct) \div 100

\* What p discounts after what acc tells: the units left and the cents so far.
Discounting(lines, p, acc) ==
    LET used == Used(lines, acc.left, p) IN
    [left |-> NowLeft(acc.left, used),
     cents |-> acc.cents + SumOver(DOMAIN lines, LAMBDA i : Off(lines[i].price, Pct(p)) * used[i])]

NoneYet(lines) == [left |-> [i \in DOMAIN lines |-> lines[i].quantity], cents |-> 0]

Combo(lines) ==
    MapThenFoldSet(LAMBDA p, acc : Discounting(lines, p, acc), NoneYet(lines),
                   LAMBDA p : p, LastOf, Principals(lines)).cents

-----------------------------------------------------------------------------
(* The checkout: create *)

\* computeDiscount, rounded to the cent; a coupon without effect is refused.
CouponDiscount(c, goods) ==
    CASE c.kind = "percent" -> Least((goods * c.value + 50) \div 100, goods)
      [] c.kind = "fixed" -> Least(c.value, goods)
      [] OTHER -> 0
CouponApplies(c, goods) ==
    /\ goods >= c.min
    /\ c.kind \in {"percent", "fixed"} => goods * c.value > 0

\* Mutant: the coupon is of the whole bag.
WholeBag(lines) == Subtotal(lines)

\* "Cupom vale sobre o que sobrou depois do combo".
AfterCombo(lines) == Subtotal(lines) - Combo(lines)

Amounts(made, subtotal, discount, total) ==
    [made |-> made, subtotal |-> subtotal, discount |-> discount, total |-> total,
     offer |-> 0, applied |-> FALSE, confirmed |-> FALSE, refunded |-> FALSE]

PlaceOrder(c) ==
    LET discount == Combo(basket) + CouponDiscount(c, AfterCombo(basket))
        freight == IF c.kind = "shipping" THEN 0 ELSE Freight
        total == Subtotal(basket) - discount + freight IN
    /\ ~amounts.made /\ basket # <<>> /\ CouponApplies(c, AfterCombo(basket))
    /\ total >= 0
    /\ amounts' = Amounts(TRUE, Subtotal(basket), discount, total)
    /\ basket' = <<>>
    /\ UNCHANGED <<percent, charge, paying, changed, turned, priceBounds>>

AddLine(l) ==
    /\ ~amounts.made /\ Len(basket) < MaxLines /\ l \notin ToSet(basket)
    /\ basket' = Append(basket, l)
    /\ UNCHANGED <<amounts, percent, charge, paying, changed, turned, priceBounds>>

-----------------------------------------------------------------------------
(* Paying: processBrickPayment *)

\* descontoPixCentavos: of the goods, up to a half.
PixDiscount(row, pct) == Off(NotBelowZero(row.subtotal - row.discount), Least(pct, 50))

Charge(at, pix, amount, refund) ==
    [at |-> at, pix |-> pix, amount |-> amount, refund |-> refund]
\* total: the order's as read; off: the discount for Pix, as offered; then: what
\* the webhook does after the discount.
Call(at, total, off, pix, then) ==
    [at |-> at, total |-> total, off |-> off, pix |-> pix, then |-> then]
NoPay == Call("idle", 0, 0, FALSE, "nothing")

Goto(h, at) == paying' = [paying EXCEPT ![h].at = at]
Ends(h) == paying' = [paying EXCEPT ![h] = NoPay]
\* The handlers are alike: the first idle one takes the call.
Enters(h) ==
    /\ amounts.made /\ paying[h].at = "idle" /\ \A g \in Calls : g < h => paying[g].at # "idle"
    /\ pays < MaxPays /\ pays' = pays + 1 /\ UNCHANGED events
Event == events < MaxEvents /\ events' = events + 1 /\ UNCHANGED pays

\* An order that is paid may be paid again: nothing in loadOrderForPay says no.
StartPay(h) ==
    /\ Enters(h)
    /\ \E pix \in BOOLEAN :
         LET off == IF pix THEN PixDiscount(amounts, percent) ELSE 0 IN
         paying' = [paying EXCEPT ![h] = Call(IF off > 0 THEN "offer" ELSE "post",
                                        amounts.total, off, pix, "nothing")]
    /\ UNCHANGED <<basket, amounts, percent, charge, changed, turned>>

\* The discount is written to the order before the Pix is made.
SaveOffer(h) ==
    /\ paying[h].at = "offer"
    /\ amounts' = [amounts EXCEPT !.offer = paying[h].off] /\ Goto(h, "post")
    /\ UNCHANGED <<basket, percent, charge, changed, turned, priceBounds>>

Asked(j) == j.total - j.off

\* Mercado Pago answers at once of a card, later of a Pix.
PostPayment(h) ==
    LET j == paying[h] IN
    /\ j.at = "post" /\ Asked(j) > 0
    /\ \E p \in Charges, at \in {"pending", "approved"} :
         /\ charge[p].at = "none" /\ \A q \in Charges : q < p => charge[q].at # "none"
         /\ j.pix => at = "pending"
         /\ charge' = [charge EXCEPT ![p] = Charge(at, j.pix, Asked(j), 0)]
         /\ IF at = "approved" THEN Goto(h, "confirm") ELSE Ends(h)
    /\ UNCHANGED <<basket, amounts, percent, changed, turned, priceBounds>>

\* "Valor do pedido inválido para pagamento", or Mercado Pago refuses.
Refused(h) ==
    /\ paying[h].at = "post" /\ Ends(h)
    /\ UNCHANGED <<basket, amounts, percent, charge, changed, turned, priceBounds>>

\* fulfillPaidOrder, the rest of which is in Orders.
Confirm(h) ==
    /\ paying[h].at = "confirm"
    /\ amounts' = [amounts EXCEPT !.confirmed = TRUE] /\ Ends(h)
    /\ UNCHANGED <<basket, percent, charge, changed, turned, priceBounds>>

-----------------------------------------------------------------------------
(* The webhook: handleWebhook *)

\* amount < total - 0.01 in floating point: a difference of exactly a cent
\* may come out either way.
Short(amount, total) ==
    CASE amount < total - 1 -> {TRUE}
      [] amount = total - 1 -> BOOLEAN
      [] OTHER -> {FALSE}

\* transaction_amount_refunded >= transaction_amount - 0.01.
NearlyReturned(c) == c.at = "approved" /\ c.refund > 0 /\ c.refund = c.amount - 1

\* Mutant: the offer is not looked at.
NoOffer(c, less) == FALSE

\* A Pix paid at the price that was offered; less: it is below even that.
TakesOffer(c, less) == c.pix /\ amounts.offer > 0 /\ ~amounts.applied /\ ~less

Approving(c) == IF c.at = "approved" /\ c.refund = 0 THEN "confirm" ELSE "nothing"
Proceed(h, at, off, then) ==
    paying' = [paying EXCEPT ![h] = IF at = "nothing" THEN NoPay ELSE Call(at, 0, off, FALSE, then)]

PaymentWebhook(h, p) ==
    LET c == charge[p]
        ToGo(at) == Proceed(h, at, amounts.offer, Approving(c)) IN
    /\ c.at # "none" /\ Enters(h)
    /\ \/ /\ c.at = "refunded" \/ NearlyReturned(c)
          /\ ToGo("refund") /\ UNCHANGED turned
       \/ /\ c.at # "refunded"
          /\ \E short \in Short(c.amount, amounts.total),
                less \in Short(c.amount, amounts.total - amounts.offer) :
               LET low == c.at = "approved" /\ short IN
               CASE low /\ TakesOffer(c, less) -> ToGo("apply") /\ UNCHANGED turned
                 [] low /\ ~TakesOffer(c, less) -> Ends(h) /\ turned' = turned \cup {p}
                 [] OTHER -> ToGo(Approving(c)) /\ UNCHANGED turned
    /\ UNCHANGED <<basket, amounts, percent, charge, changed>>

\* Mutant: whoever read it unapplied applies it.
AppliesAgain(row) == TRUE

\* UPDATE ... WHERE pixDiscountApplied = false: "Uma vez só."
AppliesOnce(row) == ~row.applied

\* The total that is compared next is the one just compared.
Apply(h) ==
    LET j == paying[h] IN
    /\ j.at = "apply"
    /\ amounts' = IF AppliesOnce(amounts)
                THEN [amounts EXCEPT !.applied = TRUE, !.discount = @ + j.off, !.total = @ - j.off]
                ELSE amounts
    /\ Proceed(h, j.then, j.off, j.then)
    /\ UNCHANGED <<basket, percent, charge, changed, turned, priceBounds>>

MarkRefunded(h) ==
    /\ paying[h].at = "refund"
    /\ amounts' = [amounts EXCEPT !.refunded = TRUE] /\ Ends(h)
    /\ UNCHANGED <<basket, percent, charge, changed, turned, priceBounds>>

-----------------------------------------------------------------------------
(* Around them *)

CustomerPays(p) ==
    /\ charge[p].at = "pending"
    /\ charge' = [charge EXCEPT ![p].at = "approved"]
    /\ UNCHANGED <<basket, amounts, percent, paying, changed, turned, priceBounds>>

\* In the panel of Mercado Pago: all of it, all but a cent, or a cent.
RefundOutside(p) ==
    /\ charge[p].at = "approved" /\ charge[p].refund = 0 /\ Event
    /\ \E cents \in {1, charge[p].amount - 1, charge[p].amount} \ {0} :
         charge' = [charge EXCEPT ![p] =
            Charge(IF cents = @.amount THEN "refunded" ELSE @.at, @.pix, @.amount, cents)]
    /\ UNCHANGED <<basket, amounts, percent, paying, changed, turned>>

\* The store's settings.
SetPercent(pct) ==
    /\ pct # percent /\ Event
    /\ percent' = pct /\ changed' = amounts.made
    /\ UNCHANGED <<basket, amounts, charge, paying, turned>>

CallDies(h) ==
    /\ paying[h].at # "idle" /\ Event /\ Ends(h)
    /\ UNCHANGED <<basket, amounts, percent, charge, changed, turned>>

PricesInit ==
    /\ basket = <<>> /\ amounts = Amounts(FALSE, 0, 0, 0)
    /\ percent \in Percents /\ changed = FALSE
    /\ charge = [p \in Charges |-> Charge("none", FALSE, 0, 0)]
    /\ paying = [h \in Calls |-> NoPay]
    /\ turned = {} /\ pays = 0 /\ events = 0

PricesNext ==
    \/ \E l \in BagLines : AddLine(l)
    \/ \E c \in Coupons : PlaceOrder(c)
    \/ \E pct \in Percents : SetPercent(pct)
    \/ \E h \in Calls :
         \/ StartPay(h) \/ SaveOffer(h) \/ PostPayment(h) \/ Refused(h) \/ Confirm(h)
         \/ Apply(h) \/ MarkRefunded(h) \/ CallDies(h)
         \/ \E p \in Charges : PaymentWebhook(h, p)
    \/ \E p \in Charges : CustomerPays(p) \/ RefundOutside(p)

PricesSpec == PricesInit /\ [][PricesNext]_priceVars

-----------------------------------------------------------------------------
(* Properties *)

\* The percentage of the k-th dearest unit of a product: those that go with it
\* give theirs to as many units as the bag has of them, the best first.
PctOfUnit(lines, product, k) ==
    LET Givers == {p \in DOMAIN Rules \ {product} :
                     Rules[p].pct > 0 /\ product \in Rules[p].with}
        Before(p) == SumOver({q \in Givers : \/ Rules[q].pct > Rules[p].pct
                                            \/ (Rules[q].pct = Rules[p].pct /\ q < p)},
                             LAMBDA q : Units(lines, q))
        Gives(p) == Before(p) < k /\ k <= Before(p) + Units(lines, p)
    IN IF \E p \in Givers : Gives(p)
       THEN Pct(CHOOSE p \in Givers : Gives(p)) ELSE 0

UnitsOf(lines) == UNION {{<<i, n>> : n \in 1..lines[i].quantity} : i \in DOMAIN lines}

\* "Cada unidade de A no carrinho dá desconto em uma unidade de cada sugerido
\* ... cada unidade sugerida só ganha uma vez" (combo.ts:3-7): the loops over
\* principals, products and lots give every unit of the bag the discount it has
\* by its rank, in whatever order the lines come.
ComboAsPromised ==
    Combo(basket) = SumOver(UnitsOf(basket), LAMBDA u :
        LET i == u[1]
            dearer == SumOver({j \in DOMAIN basket : Dearer(basket, j, i)}, LAMBDA j : basket[j].quantity)
        IN Off(basket[i].price, PctOfUnit(basket, basket[i].product, dearer + u[2])))

\* The discounts of combo, coupon and Pix, given one after another by different
\* handlers, never take more than the goods cost: the total keeps the freight.
DiscountWithinGoods == amounts.discount <= amounts.subtotal

\* "isto não deveria disparar" (payments.service.ts:985): as long as the store
\* does not change its percentage, no payment of what was asked is turned away,
\* except on top of one that had the discount for Pix already.
NoneTurnedAway == turned # {} => changed \/ amounts.applied

\* "mostrarem o valor que o cliente pagou de verdade. Uma vez só."
\* (payments.service.ts:954): the total of a confirmed order that was paid once is
\* what was paid, to the cent's tolerance, however webhooks repeat, overlap and die;
\* a change of the percentage is excepted.
TotalIsPaid ==
    LET paid == {p \in Charges : charge[p].at \in {"approved", "refunded"}} IN
    amounts.confirmed /\ ~changed /\ Cardinality(paid) = 1 =>
        \A p \in paid : amounts.total - charge[p].amount \in {0, 1}
=============================================================================
