----------------------------- MODULE Storefront -----------------------------
(***************************************************************************)
(* A customer's browser: the bag, kept in localStorage and shared by all   *)
(* tabs (web/src/lib/cart.ts), the checkout page (app/loja/[slug]/checkout)*)
(* and the page of an order (app/loja/[slug]/pedido/[orderId]), with the   *)
(* requests they have under way: several at once, answered in any order,   *)
(* each with what was true when the api handled it, or lost.  Of the api   *)
(* what the pages see: orders, their payments, the expiry, the statuses    *)
(* that the staff sets.  A page that is left or reloaded forgets its       *)
(* state; what it sent is handled all the same.  Refunds are left out.     *)
(***************************************************************************)
EXTENDS Naturals, FiniteSets

CONSTANTS
    Products,
    OrderIds,
    Tabs,        \* numbered
    Slots,       \* numbered; bound: the requests a page has under way at once
    MaxVisits,   \* bound: pages opened
    MaxAdds,     \* bound: products put into the bag by hand
    MaxSubmits,  \* bound: payment forms sent
    MaxPolls,    \* bound: times a page asks how its order is
    MaxMishaps   \* bound: answers lost, orders that expire or that the staff moves

VARIABLES
    mode,       \* Store.checkoutMode
    bag,        \* localStorage: how many of each product
    order,      \* orders at the api
    charges,    \* payments of each order that Mercado Pago approved
    offered,    \* payments of each order that wait at Mercado Pago: Pix, review, preference
    page,       \* the page of each tab
    wire,       \* the requests each tab has under way
    taken,      \* history: orders that the staff set to a status of paid orders
    emptied,    \* history: orders whose page emptied the bag
    doubled,    \* history: a recovered line was in the bag already
    visits, adds, submits, polls, mishaps   \* bounds

pages == <<page, wire>>
shopBounds == <<visits, adds, submits, polls, mishaps>>
storefrontVars == <<mode, bag, order, charges, offered, taken, pages, emptied, doubled, shopBounds>>

-----------------------------------------------------------------------------
NoOrder == "no order"
ASSUME NoOrderIsNone == NoOrder \notin OrderIds
ASSUME SlotsAreFew == IsFiniteSet(Slots)

Empty == [p \in Products |-> 0]
NoWire == [kind |-> "none", at |-> "sent", order |-> NoOrder, answer |-> "none"]

\* brick: the payment form is open; waits: a Pix or a review is under way;
\* seen: the order as last shown; live: payments this visit made that were not
\* refused; again: forms whose answer was lost, or sent before one was answered.
Away == [kind |-> "away", order |-> NoOrder, brick |-> FALSE, waits |-> FALSE, seen |-> "none",
         retry |-> FALSE, cleared |-> FALSE, live |-> 0, again |-> 0]

Put(t, new) == page' = [page EXCEPT ![t] = new]
Request(kind, o) == [NoWire EXCEPT !.kind = kind, !.order = o]
Send(t, s, kind, o) == wire' = [wire EXCEPT ![t][s] = Request(kind, o)]
Reply(t, s, o, answer) ==
    wire' = [wire EXCEPT ![t][s] = IF page[t].kind = "away" THEN NoWire
                                   ELSE [@ EXCEPT !.at = "answered", !.order = o, !.answer = answer]]
Quiet(t) == \A s \in Slots : wire[t][s].kind = "none"
Vacant(t, s) == wire[t][s].kind = "none" /\ \A r \in Slots : r < s => wire[t][r].kind # "none"
Under(t, kinds) == \E s \in Slots : wire[t][s].kind \in kinds
Mishap == mishaps < MaxMishaps /\ mishaps' = mishaps + 1 /\ UNCHANGED <<visits, adds, submits, polls>>

\* What a page makes of the row it is given (paid, rejected, pendingPay).
Shown(row) ==
    IF row.pay = "APPROVED" \/ row.status = "PAID" THEN "paid"
    ELSE IF row.pay = "REJECTED" THEN "REJECTED"
    ELSE IF row.pay = "PENDING" /\ row.status = "PENDING" THEN "PENDING" ELSE "over"

\* The polls of a page are of an effect that is run anew when it starts or stops
\* waiting: of those under way then, the answer is only shown.
Rest(t, v) ==
    [s \in Slots |-> IF wire[t][s].kind = "poll" /\ v.waits # page[t].waits
                     THEN [wire[t][s] EXCEPT !.kind = "load"] ELSE wire[t][s]]
ShowThen(t, s, v, w) == Put(t, v) /\ wire' = [wire EXCEPT ![t] = [Rest(t, v) EXCEPT ![s] = w]]

\* clearCart, by the page of an order.
ClearCart(o) == bag' = Empty /\ emptied' = emptied \cup {o}
KeepBag == UNCHANGED <<bag, emptied>>

-----------------------------------------------------------------------------
(* The customer *)

AddToCart(p) ==
    /\ adds < MaxAdds /\ adds' = adds + 1
    /\ bag' = [bag EXCEPT ![p] = @ + 1]
    /\ UNCHANGED <<mode, order, charges, offered, taken, pages, emptied, doubled, visits, submits, polls, mishaps>>

RemoveFromCart(p) ==
    /\ bag[p] > 0 /\ bag' = [bag EXCEPT ![p] = 0]
    /\ UNCHANGED <<mode, order, charges, offered, taken, pages, emptied, doubled, shopBounds>>

\* Tabs are alike: the first unused one is taken.
Unused(t) == page[t].kind = "away" /\ Quiet(t)

Visit(t, new) ==
    /\ visits < MaxVisits /\ Unused(t) /\ \A u \in Tabs : u < t => ~Unused(u)
    /\ Put(t, new)
    /\ visits' = visits + 1
    /\ UNCHANGED <<mode, bag, order, charges, offered, taken, emptied, doubled, adds, submits, polls, mishaps>>

OpenCheckout(t) == Visit(t, [Away EXCEPT !.kind = "checkout"]) /\ UNCHANGED wire
OpenOrder(t, o) ==
    /\ order[o].pay # "none"
    /\ Visit(t, [Away EXCEPT !.kind = "order", !.order = o]) /\ UNCHANGED wire

\* The link of the reminder, for an order that expired.
OpenRecovery(t, o) ==
    /\ order[o].expired
    /\ Visit(t, [Away EXCEPT !.kind = "checkout"])
    /\ \E s \in Slots : Vacant(t, s) /\ Send(t, s, "recover", o)

\* Of a page that is gone no answer is waited for.
GoAway(t) ==
    /\ Put(t, Away)
    /\ wire' = [wire EXCEPT ![t] = [s \in Slots |->
                  IF @[s].at = "answered" \/ @[s].kind \in {"poll", "load"} THEN NoWire ELSE @[s]]]

Leave(t) ==
    /\ page[t].kind # "away" /\ GoAway(t)
    /\ UNCHANGED <<mode, bag, order, charges, offered, taken, emptied, doubled, shopBounds>>

Untouched == UNCHANGED <<mode, order, charges, offered, taken, doubled, shopBounds>>

\* onPay: the order is created once per visit, and paid.
Pay(t) ==
    /\ page[t].kind = "checkout" /\ ~Under(t, {"create", "pay"}) /\ ~page[t].brick /\ page[t].seen # "paid"
    /\ bag # Empty
    /\ \E s \in Slots :
         Vacant(t, s) /\ Send(t, s, IF page[t].order = NoOrder THEN "create" ELSE "pay", page[t].order)
    /\ UNCHANGED page /\ KeepBag /\ Untouched

\* startPayment of the order's page.
StartPayment(t) ==
    /\ page[t].kind = "order" /\ ~Under(t, {"pay"}) /\ ~page[t].brick /\ ~page[t].waits
    /\ page[t].seen = "PENDING" \/ page[t].retry
    /\ \E s \in Slots : Vacant(t, s) /\ Send(t, s, "pay", page[t].order)
    /\ UNCHANGED page /\ KeepBag /\ Untouched

\* Mutant: it stays while a Pix is under way.
FormStays(v) == v.brick /\ v.seen # "paid" /\ (v.kind = "order" => v.seen = "PENDING" \/ v.retry)

\* The form of the Brick is on the screen.
FormShown(v) ==
    /\ v.brick /\ ~v.waits /\ v.seen # "paid"
    /\ v.kind = "order" => v.seen = "PENDING" \/ v.retry

\* A form under way disables nothing: "Trocar" mounts another Brick meanwhile.
Submit(t) ==
    /\ FormShown(page[t])
    /\ submits < MaxSubmits /\ submits' = submits + 1
    /\ \E s \in Slots : Vacant(t, s) /\ Send(t, s, "brick", page[t].order)
    /\ Put(t, [page[t] EXCEPT !.again = IF Under(t, {"brick"}) THEN @ + 1 ELSE @])
    /\ UNCHANGED <<mode, bag, order, charges, offered, taken, emptied, doubled, visits, adds, polls, mishaps>>

\* "Tentar pagar de novo"
Retry(t) ==
    LET v == [page[t] EXCEPT !.retry = TRUE, !.brick = FALSE, !.waits = FALSE] IN
    /\ page[t].kind = "order" /\ page[t].seen = "REJECTED" /\ ~page[t].retry
    /\ Put(t, v) /\ wire' = [wire EXCEPT ![t] = Rest(t, v)] /\ KeepBag /\ Untouched

\* poll, tick: the checkout asks while a payment waits, the order's page always.
Poll(t) ==
    /\ page[t].kind = "order" \/ (page[t].kind = "checkout" /\ page[t].waits)
    /\ polls < MaxPolls /\ polls' = polls + 1
    /\ \E s \in Slots : Vacant(t, s) /\ Send(t, s, "poll", page[t].order)
    /\ UNCHANGED <<mode, bag, order, charges, offered, taken, page, emptied, doubled,
                   visits, adds, submits, mishaps>>

-----------------------------------------------------------------------------
(* The api *)

Sent(t, s, kinds) == wire[t][s].kind \in kinds /\ wire[t][s].at = "sent"
ApiOnly == UNCHANGED <<mode, bag, taken, emptied, doubled, shopBounds>>

CreateOrder(t, s) ==
    /\ Sent(t, s, {"create"})
    /\ \E o \in OrderIds :
         /\ order[o].pay = "none"
         /\ order' = [order EXCEPT ![o] = [@ EXCEPT !.pay = "PENDING", !.items = bag]]
         /\ Reply(t, s, o, "created")
    /\ UNCHANGED <<charges, offered, page>> /\ ApiOnly

\* loadOrderForPay
Closed(o) == order[o].pay = "CANCELLED" \/ order[o].status = "CANCELLED"

\* createPreference: a preference can be paid later.
OpenPayment(t, s) ==
    LET o == wire[t][s].order IN
    /\ Sent(t, s, {"pay"})
    /\ Reply(t, s, o, IF Closed(o) THEN "refused" ELSE "opened")
    /\ offered' = IF mode = "pro" /\ ~Closed(o) THEN [offered EXCEPT ![o] = @ + 1] ELSE offered
    /\ UNCHANGED <<order, charges, page>> /\ ApiOnly

\* markApproved; a cancelled order is revived before, or stays cancelled.
Marked(row) ==
    IF row.paidAt \/ row.pay = "APPROVED" THEN row
    ELSE [row EXCEPT !.pay = "APPROVED", !.paidAt = TRUE, !.status = IF @ = "PENDING" THEN "PAID" ELSE @]
Approved(row) ==
    IF row.status = "CANCELLED"
    THEN {[row EXCEPT !.pay = "APPROVED"], Marked([row EXCEPT !.pay = "PENDING", !.status = "PENDING"])}
    ELSE {Marked(row)}
Approve(o) == \E new \in Approved(order[o]) : order' = [order EXCEPT ![o] = new]

\* processBrickPayment: nothing but a cancelled order is refused; each call is a
\* payment of its own at Mercado Pago.
ChargeBrick(t, s) ==
    LET o == wire[t][s].order
        alive == page' = [page EXCEPT ![t].live = IF page[t].kind = "away" THEN @ ELSE @ + 1] IN
    /\ Sent(t, s, {"brick"})
    /\ \/ /\ Closed(o) /\ Reply(t, s, o, "refused")
          /\ UNCHANGED <<order, charges, offered, page>>
       \/ /\ ~Closed(o) /\ Reply(t, s, o, "approved") /\ alive
          /\ charges' = [charges EXCEPT ![o] = @ + 1] /\ Approve(o)
          /\ UNCHANGED offered
       \/ /\ ~Closed(o) /\ Reply(t, s, o, "pending") /\ alive
          /\ offered' = [offered EXCEPT ![o] = @ + 1]
          /\ order' = [order EXCEPT ![o].pay = "PENDING"]
          /\ UNCHANGED charges
       \/ /\ ~Closed(o) /\ Reply(t, s, o, "rejected")
          /\ order' = [order EXCEPT ![o].pay = "REJECTED"]
          /\ UNCHANGED <<charges, offered, page>>
    /\ ApiOnly

\* itensParaRecuperar
Recover(t, s) ==
    /\ Sent(t, s, {"recover"}) /\ Reply(t, s, wire[t][s].order, "items")
    /\ UNCHANGED <<order, charges, offered, page>> /\ ApiOnly

\* The order as it is now, which the page may be told later.
ReadOrder(t, s) ==
    /\ Sent(t, s, {"poll", "load"}) /\ Reply(t, s, wire[t][s].order, Shown(order[wire[t][s].order]))
    /\ UNCHANGED <<order, charges, offered, page>> /\ ApiOnly

\* A payment that waited is made (and its webhook handled).
OfferPaid(o) ==
    /\ offered[o] > 0
    /\ offered' = [offered EXCEPT ![o] = @ - 1] /\ charges' = [charges EXCEPT ![o] = @ + 1]
    /\ Approve(o)
    /\ UNCHANGED pages /\ ApiOnly

Expire(o) ==
    /\ order[o].pay = "PENDING" /\ order[o].status = "PENDING" /\ Mishap
    /\ order' = [order EXCEPT ![o] = [@ EXCEPT !.pay = "CANCELLED", !.status = "CANCELLED", !.expired = TRUE]]
    /\ UNCHANGED <<mode, bag, charges, offered, taken, pages, emptied, doubled>>

\* updateStatus, bulkUpdateStatus: PAID (which stands for PROCESSING, SHIPPED and
\* DELIVERED too) whatever was charged; an order that shows paid is not reopened.
StaffSets(o, status) ==
    /\ order[o].pay # "none" /\ Mishap
    /\ status = "PENDING" => Shown(order[o]) # "paid"
    /\ \/ order' = [order EXCEPT ![o].status = status]
       \/ status = "PAID" /\ order[o].pay # "APPROVED" /\ Approve(o)
    /\ taken' = IF status = "PAID" THEN taken \cup {o} ELSE taken
    /\ UNCHANGED <<mode, bag, charges, offered, pages, emptied, doubled>>

-----------------------------------------------------------------------------
(* The pages, on an answer *)

Answered(t, s, kinds) == wire[t][s].kind \in kinds /\ wire[t][s].at = "answered"

\* The id is kept for the visit, and the payment opened.
OrderCreated(t, s) ==
    LET o == wire[t][s].order IN
    /\ Answered(t, s, {"create"})
    /\ ShowThen(t, s, [page[t] EXCEPT !.order = o], Request("pay", o)) /\ KeepBag /\ Untouched

\* "pro": the checkout empties the bag and goes to Mercado Pago.
PaymentOpened(t, s) ==
    LET v == page[t]  answer == wire[t][s].answer IN
    /\ Answered(t, s, {"pay"}) /\ Untouched
    /\ \/ answer = "refused" /\ ShowThen(t, s, v, NoWire) /\ KeepBag
       \/ /\ answer = "opened" /\ mode = "pro"
          /\ GoAway(t)
          /\ IF v.kind = "checkout" THEN ClearCart(v.order) ELSE KeepBag
       \/ /\ answer = "opened" /\ mode = "personalized"
          /\ ShowThen(t, s, [v EXCEPT !.brick = TRUE], NoWire) /\ KeepBag

\* Mutant: a Pix that waits counts as sold.
ClearsEarly(answer) == answer \in {"approved", "pending"}

\* The answers that empty the bag.
Clears(answer) == answer = "approved"

\* The order's page empties the bag once, and loads the order again after every
\* answer: what it shows comes from there.
Charged(t, s) ==
    LET v == page[t]
        answer == wire[t][s].answer
        told == CASE answer = "approved" ->
                       [v EXCEPT !.seen = IF v.kind = "checkout" THEN "paid" ELSE @,
                                 !.waits = FALSE, !.retry = FALSE, !.cleared = TRUE]
                  [] answer = "pending" -> [v EXCEPT !.waits = TRUE]
                  [] answer = "rejected" -> [v EXCEPT !.retry = FALSE]
                  [] answer = "refused" -> v IN
    /\ Answered(t, s, {"brick"}) /\ Untouched
    /\ IF Clears(answer) /\ (v.kind = "order" => ~v.cleared) THEN ClearCart(v.order) ELSE KeepBag
    /\ ShowThen(t, s, told, IF v.kind = "order" /\ answer # "refused" THEN Request("load", v.order) ELSE NoWire)

\* An answer is shown when it comes, whatever came before it.
OrderRead(t, s) ==
    LET v == page[t]
        answer == wire[t][s].answer
        acts == wire[t][s].kind = "poll" /\ answer = "paid"
        told == [v EXCEPT !.seen = IF v.kind = "order" \/ acts THEN answer ELSE @] IN
    /\ Answered(t, s, {"poll", "load"}) /\ Untouched
    /\ IF acts /\ (v.kind = "order" => ~v.cleared) THEN ClearCart(v.order) ELSE KeepBag
    /\ ShowThen(t, s, IF acts THEN [told EXCEPT !.waits = FALSE, !.retry = FALSE, !.cleared = TRUE] ELSE told,
                NoWire)

\* naSacola is of the first render, before the provider has read localStorage.
FirstRender == {}

Recovered(t, s) ==
    LET items == order[wire[t][s].order].items
        added == {p \in Products : items[p] > 0 /\ p \notin FirstRender} IN
    /\ Answered(t, s, {"recover"})
    /\ ShowThen(t, s, page[t], NoWire)
    /\ bag' = [p \in Products |-> IF p \in added THEN bag[p] + items[p] ELSE bag[p]]
    /\ doubled' = (doubled \/ \E p \in added : bag[p] > 0)
    /\ UNCHANGED <<mode, order, charges, offered, taken, emptied, shopBounds>>

\* The request fails on the way there or back; the page says so, and stays.
Lost(t, s) ==
    /\ wire[t][s].kind # "none" /\ page[t].kind # "away" /\ Mishap
    /\ ShowThen(t, s, [page[t] EXCEPT !.again = IF wire[t][s].kind = "brick" THEN @ + 1 ELSE @], NoWire)
    /\ UNCHANGED <<mode, bag, order, charges, offered, taken, emptied, doubled>>

-----------------------------------------------------------------------------
StorefrontInit ==
    /\ mode \in {"personalized", "pro"} /\ bag = Empty
    /\ order = [o \in OrderIds |-> [pay |-> "none", status |-> "PENDING", paidAt |-> FALSE,
                                   expired |-> FALSE, items |-> Empty]]
    /\ charges = [o \in OrderIds |-> 0] /\ offered = charges /\ taken = {}
    /\ page = [t \in Tabs |-> Away] /\ wire = [t \in Tabs |-> [s \in Slots |-> NoWire]]
    /\ emptied = {} /\ doubled = FALSE
    /\ visits = 0 /\ adds = 0 /\ submits = 0 /\ polls = 0 /\ mishaps = 0

Browse(t) ==
    \/ OpenCheckout(t) \/ Leave(t) \/ Pay(t) \/ StartPayment(t) \/ Submit(t) \/ Retry(t) \/ Poll(t)
    \/ \E o \in OrderIds : OpenOrder(t, o) \/ OpenRecovery(t, o)

Serve(t, s) ==
    \/ CreateOrder(t, s) \/ OpenPayment(t, s) \/ ChargeBrick(t, s) \/ Recover(t, s) \/ ReadOrder(t, s)
    \/ OrderCreated(t, s) \/ PaymentOpened(t, s) \/ Charged(t, s) \/ Recovered(t, s) \/ OrderRead(t, s)
    \/ Lost(t, s)

StorefrontNext ==
    \/ \E p \in Products : AddToCart(p) \/ RemoveFromCart(p)
    \/ \E t \in Tabs : Browse(t) \/ \E s \in Slots : Serve(t, s)
    \/ \E o \in OrderIds :
         OfferPaid(o) \/ Expire(o) \/ \E status \in {"PENDING", "PAID", "CANCELLED"} : StaffSets(o, status)

StorefrontSpec == StorefrontInit /\ [][StorefrontNext]_storefrontVars

-----------------------------------------------------------------------------
(* Properties *)

\* A visit to the checkout makes no second payment that may still be charged,
\* but for a form sent before an earlier one was answered, or after an answer
\* was lost: whatever other tabs do, whatever expires or the staff sets, and
\* however late the answers to forms and polls come.
OncePerVisit == \A t \in Tabs : page[t].kind = "checkout" => page[t].live <= 1 + page[t].again

\* Success is shown, and in the store's own checkout the bag is emptied, only
\* for an order that Mercado Pago has charged or that the staff took for paid.
SuccessIsCharged ==
    /\ \A t \in Tabs : page[t].seen = "paid" => charges[page[t].order] > 0 \/ page[t].order \in taken
    /\ mode = "personalized" => \A o \in emptied : charges[o] > 0 \/ o \in taken

\* The link of the reminder puts back what is not in the bag
\* (checkout/page.tsx:125-127: "if (!naSacola.has(cartLineKey(item)))").
RecoveredOnce == ~doubled
=============================================================================
