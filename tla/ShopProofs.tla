----------------------------- MODULE ShopProofs -----------------------------
(***************************************************************************)
(* What Storefront and Notices promise the shop's customers, for any       *)
(* orders, products, tabs, processes and waiting rows, and what Catalogue  *)
(* promises of the stock of a product with variants, for any variants,     *)
(* orders and requests.                                                    *)
(***************************************************************************)
EXTENDS Storefront, Notices, Catalogue, FiniteSetTheorems, TLAPS

-----------------------------------------------------------------------------
(* The pages.  The argument is about one tab at a time: what the page      *)
(* shows and the requests it has under way fit together (TabFits).  Of the *)
(* orders one thing matters, that what shows as paid is backed: charged,   *)
(* or taken for paid by the staff; both are for good.                      *)

Ids == OrderIds \cup {NoOrder}
Bags == [Products -> Nat]
PayStates == {"none", "PENDING", "APPROVED", "REJECTED", "CANCELLED"}
SeenStates == {"none", "paid", "PENDING", "REJECTED", "over"}
OrderRows == [pay : PayStates, status : {"PENDING", "PAID", "CANCELLED"}, paidAt : BOOLEAN,
              expired : BOOLEAN, items : Bags]
Pages == [kind : {"away", "checkout", "order"}, order : Ids, brick : BOOLEAN, waits : BOOLEAN,
          seen : SeenStates, retry : BOOLEAN, cleared : BOOLEAN, live : Nat, again : Nat]
Kinds == {"none", "create", "pay", "brick", "recover", "poll", "load"}
Answers == {"none", "created", "opened", "refused", "approved", "pending", "rejected", "items"}
           \cup SeenStates
Wires == [kind : Kinds, at : {"sent", "answered"}, order : Ids, answer : Answers]
Wiring == [Slots -> Wires]

Backed == {o \in OrderIds : charges[o] > 0 \/ o \in taken}

Typed ==
    /\ mode \in {"personalized", "pro"} /\ bag \in Bags
    /\ order \in [OrderIds -> OrderRows]
    /\ charges \in [OrderIds -> Nat] /\ offered \in [OrderIds -> Nat]
    /\ taken \in SUBSET OrderIds /\ emptied \in SUBSET OrderIds
    /\ page \in [Tabs -> Pages] /\ wire \in [Tabs -> Wiring]

\* A request under way is about the page's order; one who left gets no answer.
Asks(v, w) ==
    /\ w.kind \in {"pay", "brick", "recover", "poll", "load"} => w.order \in OrderIds
    /\ w.at = "answered" => v.kind # "away"
    /\ w.kind = "create" /\ v.kind # "away" => v.order = NoOrder
    /\ w.kind = "create" /\ w.at = "answered" => w.order \in OrderIds
    /\ w.kind \in {"pay", "brick", "poll", "load"} /\ v.kind # "away" => w.order = v.order
    /\ w.kind = "brick" /\ w.at = "answered" => w.answer \in {"approved", "pending", "rejected", "refused"}
    /\ w.kind \in {"poll", "load"} /\ w.at = "answered" => w.answer \in SeenStates

\* An answer that says paid, and a page that shows it, are right.
Tells(w, backed) ==
    /\ w.kind = "brick" /\ w.at = "answered" /\ w.answer = "approved" => w.order \in backed
    /\ w.kind \in {"poll", "load"} /\ w.at = "answered" /\ w.answer = "paid" => w.order \in backed

Shows(v, backed) ==
    /\ v.brick => v.kind # "away"
    /\ v.kind = "order" \/ v.brick \/ v.waits \/ v.seen = "paid" => v.order \in OrderIds
    /\ v.seen = "paid" => v.order \in backed

CreatesOne(ws) == \A s, r \in Slots : ws[s].kind = "create" /\ ws[r].kind = "create" => s = r

\* The forms that were sent and not handled, and whether a form may have gone
\* through of which the page does not know yet.
Going(w) == w.kind = "brick" /\ w.at = "sent"
Outgoing(ws) == {s \in Slots : Going(ws[s])}
Hopes(w) == Going(w) \/ (w.kind = "brick" /\ w.answer \in {"approved", "pending"})

\* Each form but the first is accounted for; and where none may have gone through
\* unknown to a page that still offers the form, the first one is as well.
Counts(v, ws) ==
    v.kind = "checkout" =>
        /\ v.live + Cardinality(Outgoing(ws)) <= 1 + v.again
        /\ ~v.waits /\ v.seen # "paid" /\ (\A s \in Slots : ~Hopes(ws[s])) => v.live <= v.again

TabFits(v, ws, backed) ==
    /\ Shows(v, backed) /\ CreatesOne(ws) /\ Counts(v, ws)
    /\ \A s \in Slots : Asks(v, ws[s]) /\ Tells(ws[s], backed)

RowsBacked == \A o \in OrderIds : Shown(order[o]) = "paid" => o \in Backed
EmptiedBacked == mode = "personalized" => emptied \subseteq Backed

Inv ==
    /\ Typed /\ RowsBacked /\ EmptiedBacked
    /\ \A t \in Tabs : TabFits(page[t], wire[t], Backed)

-----------------------------------------------------------------------------
LEMMA TabIs ==
    ASSUME Inv, NEW t \in Tabs
    PROVE  page[t] \in Pages /\ wire[t] \in Wiring /\ TabFits(page[t], wire[t], Backed)
BY DEF Inv, Typed

\* What fits goes on to fit when more is backed.
LEMMA MoreBacked ==
    ASSUME NEW v \in Pages, NEW ws \in Wiring, NEW B, NEW C, TabFits(v, ws, B), B \subseteq C
    PROVE  TabFits(v, ws, C)
<1>1. Shows(v, C) BY DEF TabFits, Shows
<1>2. \A s \in Slots : Tells(ws[s], C) BY DEF TabFits, Tells
<1> QED BY <1>1, <1>2 DEF TabFits

\* Of the api: what shows as paid is backed, and nothing backed is lost.
RowsStep ==
    /\ order' \in [OrderIds -> OrderRows]
    /\ charges' \in [OrderIds -> Nat] /\ offered' \in [OrderIds -> Nat] /\ taken' \in SUBSET OrderIds
    /\ Backed \subseteq Backed' /\ RowsBacked'

\* The bag is kept, or emptied for an order that is backed or paid elsewhere.
BagStep ==
    /\ UNCHANGED mode /\ bag' \in Bags /\ emptied' \in SUBSET OrderIds
    /\ mode = "personalized" => emptied' \subseteq emptied \cup Backed

LEMMA RowsStay ==
    ASSUME Inv, UNCHANGED <<order, charges, offered, taken>>
    PROVE  RowsStep /\ Backed' = Backed
<1>1. Backed' = Backed BY DEF Backed
<1>2. RowsBacked' BY <1>1 DEF Inv, RowsBacked
<1> QED BY <1>1, <1>2 DEF Inv, Typed, RowsStep

LEMMA BagStays == ASSUME Inv, UNCHANGED <<mode, bag, emptied>> PROVE BagStep
BY DEF Inv, Typed, BagStep

\* One tab's step leaves the others alone.
LEMMA TabStep ==
    ASSUME Inv, RowsStep, BagStep, NEW t \in Tabs, NEW v \in Pages, NEW ws \in Wiring,
           page' = [page EXCEPT ![t] = v], wire' = [wire EXCEPT ![t] = ws], TabFits(v, ws, Backed')
    PROVE  Inv'
<1>1. page \in [Tabs -> Pages] /\ wire \in [Tabs -> Wiring] BY DEF Inv, Typed
<1>2. page' \in [Tabs -> Pages] /\ wire' \in [Tabs -> Wiring] BY <1>1
<1>3. Backed \subseteq Backed' BY DEF RowsStep
<1>4. ASSUME NEW u \in Tabs PROVE TabFits(page'[u], wire'[u], Backed')
  <2>1. CASE u = t BY <2>1, <1>1
  <2>2. CASE u # t
    <3>1. page'[u] = page[u] /\ wire'[u] = wire[u] BY <2>2, <1>1
    <3> QED BY <3>1, <1>3, TabIs, MoreBacked
  <2> QED BY <2>1, <2>2
<1>5. Typed' BY <1>2 DEF Inv, Typed, RowsStep, BagStep
<1>6. EmptiedBacked' BY <1>3 DEF Inv, EmptiedBacked, BagStep
<1> QED BY <1>4, <1>5, <1>6 DEF Inv, RowsStep

LEMMA RowsOnly ==
    ASSUME Inv, RowsStep, BagStep, UNCHANGED <<page, wire>>
    PROVE  Inv'
<1>1. Backed \subseteq Backed' BY DEF RowsStep
<1>2. \A u \in Tabs : TabFits(page'[u], wire'[u], Backed') BY <1>1, TabIs, MoreBacked
<1>3. Typed' BY DEF Inv, Typed, RowsStep, BagStep
<1>4. EmptiedBacked' BY <1>1 DEF Inv, EmptiedBacked, BagStep
<1> QED BY <1>2, <1>3, <1>4 DEF Inv, RowsStep

-----------------------------------------------------------------------------
(* One slot *)

LEMMA Blank ==
    /\ Away \in Pages /\ NoWire \in Wires /\ Empty \in Bags
    /\ Away.kind = "away" /\ Away.order = NoOrder /\ ~Away.brick /\ ~Away.waits /\ Away.seen = "none"
    /\ Away.live = 0 /\ Away.again = 0
    /\ NoWire.kind = "none" /\ NoWire.at = "sent"
<1>1. NoOrder \in Ids BY DEF Ids
<1> QED BY <1>1 DEF Away, NoWire, Empty, Pages, Wires, Bags, SeenStates, Answers, Kinds

LEMMA RequestIs ==
    ASSUME NEW kind \in Kinds, NEW o \in Ids
    PROVE  LET w == Request(kind, o) IN
           w \in Wires /\ w.kind = kind /\ w.order = o /\ w.at = "sent"
BY Blank DEF Request, NoWire, Wires

\* How many forms go, when one slot has another request.
LEMMA GoingCounts ==
    ASSUME NEW ws \in Wiring, NEW s \in Slots, NEW w \in Wires
    PROVE  LET new == [ws EXCEPT ![s] = w] IN
           /\ new \in Wiring
           /\ Cardinality(Outgoing(ws)) \in Nat /\ Cardinality(Outgoing(new)) \in Nat
           /\ Going(w) /\ ~Going(ws[s]) => Cardinality(Outgoing(new)) = Cardinality(Outgoing(ws)) + 1
           /\ ~Going(w) /\ Going(ws[s]) => Cardinality(Outgoing(new)) = Cardinality(Outgoing(ws)) - 1
           /\ (Going(w) <=> Going(ws[s])) => Cardinality(Outgoing(new)) = Cardinality(Outgoing(ws))
<1> DEFINE new == [ws EXCEPT ![s] = w]
<1>1. new \in Wiring /\ new[s] = w /\ \A r \in Slots : r # s => new[r] = ws[r] BY DEF Wiring
<1>2. IsFiniteSet(Outgoing(ws)) /\ IsFiniteSet(Outgoing(new)) BY SlotsAreFew, FS_Subset DEF Outgoing
<1>3. Cardinality(Outgoing(ws)) \in Nat /\ Cardinality(Outgoing(new)) \in Nat BY <1>2, FS_CardinalityType
<1> HIDE DEF new
<1>4. ASSUME Going(w), ~Going(ws[s]) PROVE Cardinality(Outgoing(new)) = Cardinality(Outgoing(ws)) + 1
  <2>1. Outgoing(new) = Outgoing(ws) \cup {s} /\ s \notin Outgoing(ws) BY <1>1, <1>4 DEF Outgoing
  <2> QED BY <2>1, <1>2, FS_AddElement
<1>5. ASSUME ~Going(w), Going(ws[s]) PROVE Cardinality(Outgoing(new)) = Cardinality(Outgoing(ws)) - 1
  <2>1. Outgoing(new) = Outgoing(ws) \ {s} /\ s \in Outgoing(ws) BY <1>1, <1>5 DEF Outgoing
  <2> QED BY <2>1, <1>2, FS_RemoveElement
<1>6. ASSUME Going(w) <=> Going(ws[s]) PROVE Cardinality(Outgoing(new)) = Cardinality(Outgoing(ws))
  <2>1. Outgoing(new) = Outgoing(ws) BY <1>1, <1>6 DEF Outgoing
  <2> QED BY <2>1
<1> QED BY <1>1, <1>3, <1>4, <1>5, <1>6 DEF new

LEMMA SlotFits ==
    ASSUME NEW v \in Pages, NEW ws \in Wiring, NEW s \in Slots, NEW w \in Wires, NEW B,
           Shows(v, B), \A r \in Slots : r # s => Asks(v, ws[r]) /\ Tells(ws[r], B),
           Asks(v, w), Tells(w, B), CreatesOne(ws),
           w.kind = "create" => \A r \in Slots : r # s => ws[r].kind # "create",
           Counts(v, [ws EXCEPT ![s] = w])
    PROVE  [ws EXCEPT ![s] = w] \in Wiring /\ TabFits(v, [ws EXCEPT ![s] = w], B)
<1> DEFINE new == [ws EXCEPT ![s] = w]
<1>1. new \in Wiring /\ new[s] = w /\ \A r \in Slots : r # s => new[r] = ws[r] BY DEF Wiring
<1>2. Counts(v, new) OBVIOUS
<1> HIDE DEF new
<1>3. \A r \in Slots : Asks(v, new[r]) /\ Tells(new[r], B) BY <1>1
<1>4. CreatesOne(new) BY <1>1 DEF CreatesOne
<1>5. TabFits(v, new, B) BY <1>2, <1>3, <1>4 DEF TabFits
<1> QED BY <1>1, <1>5 DEF new

\* A request that is no form changes no count.
LEMMA PlainCounts ==
    ASSUME NEW v \in Pages, NEW u \in Pages, NEW ws \in Wiring, NEW s \in Slots, NEW w \in Wires,
           Counts(u, ws), ws[s].kind # "brick", w.kind # "brick",
           v.kind = u.kind, v.live = u.live, v.again = u.again, v.waits = u.waits, v.seen = u.seen
    PROVE  Counts(v, [ws EXCEPT ![s] = w])
<1> DEFINE new == [ws EXCEPT ![s] = w]
<1>1. \A r \in Slots : r # s => new[r] = ws[r] BY DEF Wiring
<1>2. ~Going(w) /\ ~Going(ws[s]) /\ ~Hopes(w) /\ ~Hopes(ws[s]) BY DEF Going, Hopes
<1>3. Cardinality(Outgoing(new)) = Cardinality(Outgoing(ws)) BY <1>2, GoingCounts
<1>4. (\A r \in Slots : ~Hopes(new[r])) => \A r \in Slots : ~Hopes(ws[r]) BY <1>1, <1>2
<1> HIDE DEF new
<1>5. Counts(v, new) BY <1>3, <1>4 DEF Counts
<1> QED BY <1>5 DEF new

-----------------------------------------------------------------------------
(* The customer *)

LEMMA Start == StorefrontInit => Inv
<1> SUFFICES ASSUME StorefrontInit PROVE Inv OBVIOUS
<1> USE DEF StorefrontInit
<1>1. order \in [OrderIds -> OrderRows] BY Blank DEF OrderRows, PayStates
<1>2. Typed BY <1>1, Blank DEF Typed, Wiring
<1>3. RowsBacked BY DEF RowsBacked, Shown
<1>4. EmptiedBacked BY DEF EmptiedBacked
<1>5. ASSUME NEW t \in Tabs PROVE TabFits(page[t], wire[t], Backed)
  <2>1. page[t] = Away /\ \A s \in Slots : wire[t][s] = NoWire OBVIOUS
  <2>2. Shows(page[t], Backed) /\ Counts(page[t], wire[t]) BY <2>1, Blank DEF Shows, Counts
  <2>3. CreatesOne(wire[t]) BY <2>1, Blank DEF CreatesOne
  <2>4. \A s \in Slots : Asks(page[t], wire[t][s]) /\ Tells(wire[t][s], Backed)
    BY <2>1, Blank DEF Asks, Tells
  <2> QED BY <2>2, <2>3, <2>4 DEF TabFits
<1> QED BY <1>2, <1>3, <1>4, <1>5 DEF Inv

\* A tab opens with a new page, and at most the request for an order's items.
LEMMA Opens ==
    ASSUME Inv, NEW t \in Tabs, NEW v \in Pages, NEW ws \in Wiring, Visit(t, v), wire' = [wire EXCEPT ![t] = ws],
           v.kind \in {"checkout", "order"}, v.kind = "order" => v.order \in OrderIds,
           ~v.brick, ~v.waits, v.seen = "none", v.live = 0, v.again = 0,
           \A s \in Slots : ws[s].kind \in {"none", "recover"} /\ (ws[s].kind = "recover" => ws[s].order \in OrderIds)
    PROVE  Inv'
<1>1. Outgoing(ws) = {} BY DEF Outgoing, Going
<1>2. Cardinality(Outgoing(ws)) = 0 BY <1>1, FS_EmptySet
<1>3. Counts(v, ws) BY <1>2 DEF Counts
<1>4. \A s \in Slots : Asks(v, ws[s]) /\ Tells(ws[s], Backed) BY DEF Asks, Tells
<1>5. Shows(v, Backed) /\ CreatesOne(ws) BY DEF Shows, CreatesOne
<1>6. page' = [page EXCEPT ![t] = v] /\ UNCHANGED <<mode, bag, order, charges, offered, taken, emptied>>
  BY DEF Visit, Put
<1>7. RowsStep /\ Backed' = Backed /\ BagStep BY <1>6, RowsStay, BagStays
<1> QED BY <1>3, <1>4, <1>5, <1>6, <1>7, TabStep DEF TabFits

LEMMA Visits ==
    ASSUME Inv, NEW t \in Tabs,
           OpenCheckout(t) \/ \E o \in OrderIds : OpenOrder(t, o) \/ OpenRecovery(t, o)
    PROVE  Inv'
<1> DEFINE checkout == [Away EXCEPT !.kind = "checkout"]
<1>1. /\ checkout \in Pages /\ checkout.kind = "checkout" /\ ~checkout.brick /\ ~checkout.waits
      /\ checkout.seen = "none" /\ checkout.live = 0 /\ checkout.again = 0
  BY Blank DEF Pages, Away
<1>2. wire[t] \in Wiring /\ wire = [wire EXCEPT ![t] = wire[t]] BY DEF Inv, Typed
<1>3. Unused(t) => \A s \in Slots : wire[t][s].kind = "none" BY DEF Unused, Quiet
<1> HIDE DEF checkout
<1>4. CASE OpenCheckout(t)
  <2>1. Visit(t, checkout) /\ UNCHANGED wire BY <1>4 DEF OpenCheckout, checkout
  <2> QED BY <2>1, <1>1, <1>2, <1>3, Opens DEF Visit
<1>5. ASSUME NEW o \in OrderIds, OpenOrder(t, o) PROVE Inv'
  <2> DEFINE ofOrder == [Away EXCEPT !.kind = "order", !.order = o]
  <2>1. /\ ofOrder \in Pages /\ ofOrder.kind = "order" /\ ofOrder.order = o /\ ~ofOrder.brick
        /\ ~ofOrder.waits /\ ofOrder.seen = "none" /\ ofOrder.live = 0 /\ ofOrder.again = 0
    BY Blank DEF Pages, Ids, Away
  <2>2. Visit(t, ofOrder) /\ UNCHANGED wire BY <1>5 DEF OpenOrder
  <2> HIDE DEF ofOrder
  <2> QED BY <2>1, <2>2, <1>2, <1>3, Opens DEF Visit
<1>6. ASSUME NEW o \in OrderIds, OpenRecovery(t, o) PROVE Inv'
  <2>1. Visit(t, checkout) BY <1>6 DEF OpenRecovery, checkout
  <2>2. PICK s \in Slots : Send(t, s, "recover", o) BY <1>6 DEF OpenRecovery
  <2>3. /\ Request("recover", o) \in Wires /\ Request("recover", o).kind = "recover"
        /\ Request("recover", o).order = o
    BY RequestIs DEF Kinds, Ids
  <2> DEFINE ws == [wire[t] EXCEPT ![s] = Request("recover", o)]
  <2>4. wire' = [wire EXCEPT ![t] = ws] BY <2>2, <1>2 DEF Send
  <2>5. ws \in Wiring BY <2>3, <1>2 DEF Wiring
  <2>6. \A r \in Slots : ws[r] = IF r = s THEN Request("recover", o) ELSE wire[t][r] BY <1>2 DEF Wiring
  <2> HIDE DEF ws
  <2>7. \A r \in Slots : /\ ws[r].kind \in {"none", "recover"}
                         /\ ws[r].kind = "recover" => ws[r].order \in OrderIds
    BY <2>1, <2>3, <2>6, <1>3 DEF Visit
  <2> QED BY <2>1, <2>4, <2>5, <2>7, <1>1, Opens
<1> QED BY <1>4, <1>5, <1>6

LEMMA GoesAway ==
    ASSUME Inv, NEW t \in Tabs, GoAway(t), BagStep, UNCHANGED <<order, charges, offered, taken>>
    PROVE  Inv'
<1> DEFINE gone(w) == IF w.at = "answered" \/ w.kind \in {"poll", "load"} THEN NoWire ELSE w
           ws == [s \in Slots |-> gone(wire[t][s])]
<1>1. wire[t] \in Wiring /\ TabFits(page[t], wire[t], Backed) BY TabIs
<1>2. page' = [page EXCEPT ![t] = Away] /\ wire' = [wire EXCEPT ![t] = ws]
  BY DEF GoAway, Put, Inv, Typed
<1>3. ws \in Wiring BY <1>1, Blank DEF Wiring
<1>4. ASSUME NEW s \in Slots PROVE Asks(Away, ws[s]) /\ Tells(ws[s], Backed)
  <2>1. wire[t][s] \in Wires /\ Asks(page[t], wire[t][s]) BY <1>1 DEF Wiring, TabFits
  <2>2. ws[s].at = "sent" /\ (ws[s].kind = "none" \/ ws[s] = wire[t][s]) BY <2>1, Blank DEF Wires
  <2> QED BY <2>1, <2>2, Blank DEF Asks, Tells
<1>5. CreatesOne(ws) BY <1>1, Blank DEF TabFits, CreatesOne
<1> HIDE DEF ws
<1>6. Shows(Away, Backed) /\ Counts(Away, ws) BY Blank DEF Shows, Counts
<1>7. RowsStep /\ Backed' = Backed BY RowsStay
<1> QED BY <1>2, <1>3, <1>4, <1>5, <1>6, <1>7, Blank, TabStep DEF TabFits

LEMMA Leaves == ASSUME Inv, NEW t \in Tabs, Leave(t) PROVE Inv'
BY GoesAway, BagStays DEF Leave

\* A page that stays sends a request of its own, other than a form.
LEMMA Sends ==
    ASSUME Inv, NEW t \in Tabs, NEW s \in Slots, NEW kind \in {"create", "pay", "poll"},
           Vacant(t, s), Send(t, s, kind, page[t].order),
           UNCHANGED <<mode, bag, order, charges, offered, taken, page, emptied>>, page[t].kind # "away",
           kind = "create" => page[t].order = NoOrder /\ ~Under(t, {"create"}),
           kind # "create" => page[t].order \in OrderIds
    PROVE  Inv'
<1> DEFINE v == page[t]
           w == Request(kind, v.order)
           ws == [wire[t] EXCEPT ![s] = w]
<1>1. v \in Pages /\ wire[t] \in Wiring /\ TabFits(v, wire[t], Backed) BY TabIs
<1>2. w \in Wires /\ w.kind = kind /\ w.order = v.order /\ w.at = "sent"
  BY <1>1, RequestIs DEF Pages, Kinds
<1>3. page' = [page EXCEPT ![t] = v] /\ wire' = [wire EXCEPT ![t] = ws] BY DEF Send, Inv, Typed
<1>4. wire[t][s].kind = "none" BY DEF Vacant
<1> HIDE DEF w
<1>5. Asks(v, w) /\ Tells(w, Backed) BY <1>2 DEF Asks, Tells
<1>6. Counts(v, ws) BY <1>1, <1>2, <1>4, PlainCounts DEF TabFits
<1>7. w.kind = "create" => \A r \in Slots : r # s => wire[t][r].kind # "create" BY <1>2 DEF Under
<1>8. ws \in Wiring /\ TabFits(v, ws, Backed) BY <1>1, <1>2, <1>5, <1>6, <1>7, SlotFits DEF TabFits
<1>9. RowsStep /\ Backed' = Backed /\ BagStep BY RowsStay, BagStays
<1> HIDE DEF v, ws
<1> QED BY <1>1, <1>3, <1>8, <1>9, TabStep

LEMMA Pays == ASSUME Inv, NEW t \in Tabs, Pay(t) \/ StartPayment(t) \/ Poll(t) PROVE Inv'
<1>1. page[t] \in Pages /\ Shows(page[t], Backed) BY TabIs DEF TabFits
<1>2. CASE Pay(t)
  <2>1. PICK s \in Slots :
          Vacant(t, s) /\ Send(t, s, IF page[t].order = NoOrder THEN "create" ELSE "pay", page[t].order)
    BY <1>2 DEF Pay
  <2>2. /\ UNCHANGED <<mode, bag, order, charges, offered, taken, page, emptied>>
        /\ page[t].kind # "away" /\ ~Under(t, {"create"})
    BY <1>2 DEF Pay, KeepBag, Untouched, Under
  <2>3. CASE page[t].order = NoOrder BY <2>1, <2>2, <2>3, Sends
  <2>4. CASE page[t].order # NoOrder
    <3>1. page[t].order \in OrderIds BY <1>1, <2>4 DEF Pages, Ids
    <3> QED BY <2>1, <2>2, <2>4, <3>1, Sends
  <2> QED BY <2>3, <2>4
<1>3. CASE StartPayment(t)
  <2>1. page[t].order \in OrderIds BY <1>1, <1>3 DEF StartPayment, Shows
  <2> QED BY <1>3, <2>1, Sends DEF StartPayment, KeepBag, Untouched
<1>4. CASE Poll(t)
  <2>1. page[t].order \in OrderIds BY <1>1, <1>4 DEF Poll, Shows
  <2> QED BY <1>4, <2>1, Sends DEF Poll
<1> QED BY <1>2, <1>3, <1>4

\* A form: the first that may go through is free, any other is accounted for.
LEMMA Submits == ASSUME Inv, NEW t \in Tabs, Submit(t) PROVE Inv'
<1> DEFINE u == page[t]
           n == IF Under(t, {"brick"}) THEN u.again + 1 ELSE u.again
           v == [u EXCEPT !.again = n]
<1>1. u \in Pages /\ wire[t] \in Wiring /\ TabFits(u, wire[t], Backed) BY TabIs
<1>2. PICK s \in Slots : Vacant(t, s) /\ Send(t, s, "brick", u.order) BY DEF Submit
<1> DEFINE w == Request("brick", u.order)
           ws == [wire[t] EXCEPT ![s] = w]
<1>3. u.brick /\ ~u.waits /\ u.seen # "paid" BY DEF Submit, FormShown
<1>4. u.order \in OrderIds /\ u.kind # "away" BY <1>1, <1>3 DEF TabFits, Shows
<1>5. w \in Wires /\ w.kind = "brick" /\ w.order = u.order /\ w.at = "sent"
  BY <1>4, RequestIs DEF Kinds, Ids
<1>6. page' = [page EXCEPT ![t] = v] /\ wire' = [wire EXCEPT ![t] = ws]
  BY <1>2 DEF Submit, Put, Send, Inv, Typed
<1>7. wire[t][s].kind = "none" BY <1>2 DEF Vacant
<1>8. n \in Nat /\ n = IF Under(t, {"brick"}) THEN u.again + 1 ELSE u.again BY <1>1 DEF Pages
<1> HIDE DEF n
<1>9. /\ v \in Pages /\ v.kind = u.kind /\ v.order = u.order /\ v.brick = u.brick /\ v.waits = u.waits
      /\ v.seen = u.seen /\ v.live = u.live /\ v.again = n /\ u.live \in Nat /\ u.again \in Nat
  BY <1>1, <1>8 DEF Pages
<1> HIDE DEF v, w, u
<1>10. Counts(v, ws)
  <2>1. /\ Cardinality(Outgoing(wire[t])) \in Nat
        /\ Cardinality(Outgoing(ws)) = Cardinality(Outgoing(wire[t])) + 1
        /\ ws[s] = w
    BY <1>1, <1>5, <1>7, GoingCounts DEF Going, Wiring
  <2>2. Hopes(ws[s]) BY <2>1, <1>5 DEF Hopes, Going
  <2>3. ASSUME ~Under(t, {"brick"}), v.kind = "checkout" PROVE v.live + Cardinality(Outgoing(ws)) <= 1 + v.again
    <3>1. \A r \in Slots : ~Hopes(wire[t][r]) BY <2>3 DEF Under, Hopes, Going
    <3>2. Outgoing(wire[t]) = {} BY <3>1 DEF Outgoing, Hopes
    <3>3. Cardinality(Outgoing(wire[t])) = 0 BY <3>2, FS_EmptySet
    <3>4. u.live <= u.again BY <3>1, <1>1, <1>3, <1>9, <2>3 DEF TabFits, Counts
    <3> QED BY <3>3, <3>4, <2>1, <2>3, <1>8, <1>9
  <2>4. ASSUME Under(t, {"brick"}), v.kind = "checkout" PROVE v.live + Cardinality(Outgoing(ws)) <= 1 + v.again
    BY <2>1, <2>4, <1>1, <1>8, <1>9 DEF TabFits, Counts
  <2> QED BY <2>2, <2>3, <2>4 DEF Counts
<1>11. Asks(v, w) /\ Tells(w, Backed) BY <1>4, <1>5, <1>9 DEF Asks, Tells
<1>12. \A r \in Slots : Asks(v, wire[t][r]) /\ Tells(wire[t][r], Backed)
  BY <1>1, <1>9 DEF TabFits, Asks
<1>13. Shows(v, Backed) BY <1>1, <1>9 DEF TabFits, Shows
<1>14. ws \in Wiring /\ TabFits(v, ws, Backed)
  BY <1>1, <1>5, <1>9, <1>10, <1>11, <1>12, <1>13, SlotFits DEF TabFits
<1>15. RowsStep /\ Backed' = Backed /\ BagStep BY RowsStay, BagStays DEF Submit
<1> HIDE DEF ws
<1> QED BY <1>6, <1>9, <1>14, <1>15, TabStep

\* What a page does to its requests when it changes: polls go on as reads.
LEMMA RestIs ==
    ASSUME Inv, NEW t \in Tabs, NEW v
    PROVE  /\ Rest(t, v) \in Wiring
           /\ \A s \in Slots :
                LET w == Rest(t, v)[s] IN
                /\ w.at = wire[t][s].at /\ w.order = wire[t][s].order /\ w.answer = wire[t][s].answer
                /\ w.kind = wire[t][s].kind \/ (w.kind = "load" /\ wire[t][s].kind = "poll")
<1>1. wire[t] \in Wiring BY TabIs
<1>2. ASSUME NEW s \in Slots
      PROVE  LET w == Rest(t, v)[s] IN
             /\ w \in Wires
             /\ w.at = wire[t][s].at /\ w.order = wire[t][s].order /\ w.answer = wire[t][s].answer
             /\ w.kind = wire[t][s].kind \/ (w.kind = "load" /\ wire[t][s].kind = "poll")
  <2>1. wire[t][s] \in Wires BY <1>1 DEF Wiring
  <2> QED BY <2>1 DEF Rest, Wires, Kinds
<1>3. Rest(t, v) \in Wiring BY <1>2 DEF Rest, Wiring
<1> QED BY <1>2, <1>3

LEMMA RestFits ==
    ASSUME Inv, NEW t \in Tabs, NEW v
    PROVE  LET rest == Rest(t, v) IN
           /\ rest \in Wiring /\ CreatesOne(rest) /\ Outgoing(rest) = Outgoing(wire[t])
           /\ \A s \in Slots : Hopes(rest[s]) <=> Hopes(wire[t][s])
           /\ \A s \in Slots : rest[s].kind = wire[t][s].kind \/ (rest[s].kind = "load" /\ wire[t][s].kind = "poll")
           /\ \A s \in Slots : Asks(page[t], rest[s]) /\ Tells(rest[s], Backed)
<1> DEFINE rest == Rest(t, v)
<1>1. wire[t] \in Wiring /\ TabFits(page[t], wire[t], Backed) BY TabIs
<1>2. /\ rest \in Wiring
      /\ \A s \in Slots :
           /\ rest[s].at = wire[t][s].at /\ rest[s].order = wire[t][s].order
           /\ rest[s].answer = wire[t][s].answer
           /\ rest[s].kind = wire[t][s].kind \/ (rest[s].kind = "load" /\ wire[t][s].kind = "poll")
  BY RestIs
<1> HIDE DEF rest
<1>3. CreatesOne(rest) BY <1>1, <1>2 DEF TabFits, CreatesOne
<1>4. \A s \in Slots : Going(rest[s]) <=> Going(wire[t][s]) BY <1>2 DEF Going
<1>5. Outgoing(rest) = Outgoing(wire[t]) BY <1>4 DEF Outgoing
<1>6. \A s \in Slots : Hopes(rest[s]) <=> Hopes(wire[t][s]) BY <1>2, <1>4 DEF Hopes
<1>7. ASSUME NEW s \in Slots PROVE Asks(page[t], rest[s]) /\ Tells(rest[s], Backed)
  <2>1. Asks(page[t], wire[t][s]) /\ Tells(wire[t][s], Backed) BY <1>1 DEF TabFits
  <2>2. CASE rest[s].kind = wire[t][s].kind BY <2>1, <2>2, <1>2 DEF Asks, Tells
  <2>3. CASE rest[s].kind = "load" /\ wire[t][s].kind = "poll" BY <2>1, <2>3, <1>2 DEF Asks, Tells
  <2> QED BY <2>2, <2>3, <1>2
<1> QED BY <1>2, <1>3, <1>5, <1>6, <1>7 DEF rest

\* The order's page gives up what waited.
LEMMA Retries == ASSUME Inv, NEW t \in Tabs, Retry(t) PROVE Inv'
<1> DEFINE v == [page[t] EXCEPT !.retry = TRUE, !.brick = FALSE, !.waits = FALSE]
           rest == Rest(t, v)
<1>1. page[t] \in Pages /\ TabFits(page[t], wire[t], Backed) BY TabIs
<1>2. page' = [page EXCEPT ![t] = v] /\ wire' = [wire EXCEPT ![t] = rest] BY DEF Retry, Put
<1>3. /\ v \in Pages /\ v.kind = page[t].kind /\ v.order = page[t].order /\ ~v.brick /\ ~v.waits
      /\ v.seen = page[t].seen /\ v.kind = "order"
  BY <1>1 DEF Pages, Retry
<1> HIDE DEF v
<1>4. rest \in Wiring /\ CreatesOne(rest) /\ \A s \in Slots : Asks(page[t], rest[s]) /\ Tells(rest[s], Backed)
  BY RestFits
<1> HIDE DEF rest
<1>5. \A s \in Slots : Asks(v, rest[s]) BY <1>3, <1>4 DEF Asks
<1>6. Shows(v, Backed) /\ Counts(v, rest) BY <1>1, <1>3 DEF TabFits, Shows, Counts
<1>7. RowsStep /\ Backed' = Backed /\ BagStep BY RowsStay, BagStays DEF Retry, KeepBag, Untouched
<1> QED BY <1>2, <1>3, <1>4, <1>5, <1>6, <1>7, TabStep DEF TabFits

-----------------------------------------------------------------------------
(* The api *)

\* The answer as the page will find it; one who left finds none.
Answer(t, s, o, answer) ==
    IF page[t].kind = "away" THEN NoWire
    ELSE [wire[t][s] EXCEPT !.at = "answered", !.order = o, !.answer = answer]

LEMMA Replies ==
    ASSUME Inv, NEW t \in Tabs, NEW s \in Slots, NEW o \in OrderIds, NEW answer \in Answers,
           Reply(t, s, o, answer)
    PROVE  \E w \in Wires :
           /\ wire' = [wire EXCEPT ![t] = [wire[t] EXCEPT ![s] = w]]
           /\ page[t].kind = "away" => w = NoWire
           /\ page[t].kind # "away" => /\ w.kind = wire[t][s].kind /\ w.at = "answered"
                                       /\ w.order = o /\ w.answer = answer
<1>1. wire[t] \in Wiring /\ wire[t][s] \in Wires /\ o \in Ids BY TabIs DEF Wiring, Ids
<1> DEFINE w == Answer(t, s, o, answer)
<1>2. w \in Wires BY <1>1, Blank DEF Answer, Wires
<1>3. wire' = [wire EXCEPT ![t] = [wire[t] EXCEPT ![s] = w]] BY <1>1 DEF Reply, Answer, Inv, Typed, Wiring
<1>4. page[t].kind = "away" => w = NoWire BY DEF Answer
<1>5. page[t].kind # "away" => /\ w.kind = wire[t][s].kind /\ w.at = "answered"
                               /\ w.order = o /\ w.answer = answer
  BY <1>1 DEF Answer, Wires
<1> QED BY <1>2, <1>3, <1>4, <1>5

\* An answer to what is no form, or that a form was of no use.
LEMMA PlainReplies ==
    ASSUME Inv, RowsStep, UNCHANGED <<mode, bag, emptied, page>>, NEW t \in Tabs, NEW s \in Slots,
           NEW o \in OrderIds, NEW answer \in Answers, Reply(t, s, o, answer), wire[t][s].at = "sent",
           \/ wire[t][s].kind \in {"create", "recover"}
           \/ wire[t][s].kind = "pay" /\ o = wire[t][s].order
           \/ wire[t][s].kind = "brick" /\ o = wire[t][s].order /\ answer \in {"refused", "rejected"}
           \/ /\ wire[t][s].kind \in {"poll", "load"} /\ o = wire[t][s].order
              /\ answer \in SeenStates /\ (answer = "paid" => o \in Backed')
    PROVE  Inv'
<1> DEFINE v == page[t]
<1>1. v \in Pages /\ wire[t] \in Wiring /\ wire[t][s] \in Wires /\ TabFits(v, wire[t], Backed)
  BY TabIs DEF Wiring
<1>2. TabFits(v, wire[t], Backed') BY <1>1, MoreBacked DEF RowsStep
<1>3. PICK w \in Wires :
        /\ wire' = [wire EXCEPT ![t] = [wire[t] EXCEPT ![s] = w]]
        /\ v.kind = "away" => w = NoWire
        /\ v.kind # "away" => /\ w.kind = wire[t][s].kind /\ w.at = "answered"
                              /\ w.order = o /\ w.answer = answer
  BY Replies
<1> DEFINE ws == [wire[t] EXCEPT ![s] = w]
<1>4. page' = [page EXCEPT ![t] = v] BY DEF Inv, Typed
<1> HIDE DEF v
<1>5. Asks(v, w) /\ Tells(w, Backed')
  <2>1. Asks(v, wire[t][s]) BY <1>2 DEF TabFits
  <2>2. CASE v.kind = "away" BY <2>2, <1>3, Blank DEF Asks, Tells
  <2>3. CASE v.kind # "away"
    <3>1. Asks(v, w) BY <2>1, <2>3, <1>3 DEF Asks
    <3>2. Tells(w, Backed') BY <2>3, <1>3 DEF Tells
    <3> QED BY <3>1, <3>2
  <2> QED BY <2>2, <2>3
<1>6. ~Hopes(w) /\ ~Going(w)
  <2>1. CASE v.kind = "away" BY <2>1, <1>3, Blank DEF Hopes, Going
  <2>2. CASE v.kind # "away" BY <2>2, <1>3 DEF Hopes, Going
  <2> QED BY <2>1, <2>2
<1>7. Counts(v, ws)
  <2>1. /\ Cardinality(Outgoing(wire[t])) \in Nat /\ Cardinality(Outgoing(ws)) \in Nat
        /\ Going(wire[t][s]) => Cardinality(Outgoing(ws)) = Cardinality(Outgoing(wire[t])) - 1
        /\ ~Going(wire[t][s]) => Cardinality(Outgoing(ws)) = Cardinality(Outgoing(wire[t]))
    BY <1>1, <1>6, GoingCounts
  <2>2. v.live \in Nat /\ v.again \in Nat BY <1>1 DEF Pages
  <2>3. \A r \in Slots : r # s => ws[r] = wire[t][r] BY <1>1 DEF Wiring
  <2>4. CASE v.kind = "checkout"
    <3>1. v.live + Cardinality(Outgoing(wire[t])) <= 1 + v.again BY <2>4, <1>2 DEF TabFits, Counts
    <3>2. v.live + Cardinality(Outgoing(ws)) <= 1 + v.again BY <3>1, <2>1, <2>2
    <3>3. ASSUME ~v.waits, v.seen # "paid", \A r \in Slots : ~Hopes(ws[r]) PROVE v.live <= v.again
      <4>1. CASE Going(wire[t][s]) BY <4>1, <3>1, <2>1, <2>2
      <4>2. CASE ~Going(wire[t][s])
        <5>1. ~Hopes(wire[t][s])
          <6>1. wire[t][s].kind # "brick" BY <4>2 DEF Going
          <6> QED BY <6>1 DEF Hopes, Going
        <5> QED BY <5>1, <2>3, <2>4, <3>3, <1>2 DEF TabFits, Counts
      <4> QED BY <4>1, <4>2
    <3> QED BY <3>2, <3>3 DEF Counts
  <2> QED BY <2>4 DEF Counts
<1>8. w.kind = "create" => \A r \in Slots : r # s => wire[t][r].kind # "create"
  <2>1. w.kind = "create" => wire[t][s].kind = "create" BY <1>3, Blank
  <2> QED BY <2>1, <1>2 DEF TabFits, CreatesOne
<1>9. ws \in Wiring /\ TabFits(v, ws, Backed')
  BY <1>1, <1>2, <1>5, <1>7, <1>8, SlotFits DEF TabFits
<1>10. BagStep BY BagStays
<1> HIDE DEF ws
<1> QED BY <1>1, <1>3, <1>4, <1>9, <1>10, TabStep DEF ws

LEMMA RowStep ==
    ASSUME Inv, NEW o \in OrderIds, NEW new \in OrderRows, order' = [order EXCEPT ![o] = new],
           charges' \in [OrderIds -> Nat], offered' \in [OrderIds -> Nat], taken' \in SUBSET OrderIds,
           Backed \subseteq Backed', Shown(new) = "paid" => o \in Backed'
    PROVE  RowsStep
<1>1. order \in [OrderIds -> OrderRows] BY DEF Inv, Typed
<1>2. order' \in [OrderIds -> OrderRows] /\ order'[o] = new /\ \A p \in OrderIds : p # o => order'[p] = order[p]
  BY <1>1
<1>3. ASSUME NEW p \in OrderIds, Shown(order'[p]) = "paid" PROVE p \in Backed'
  <2>1. CASE p = o BY <2>1, <1>2, <1>3
  <2>2. CASE p # o
    <3>1. Shown(order[p]) = "paid" BY <2>2, <1>2, <1>3
    <3> QED BY <3>1 DEF Inv, RowsBacked
  <2> QED BY <2>1, <2>2
<1>4. RowsBacked'
  <2>1. \A p \in OrderIds : Shown(order'[p]) = "paid" => p \in Backed' BY <1>3
  <2> QED BY <2>1 DEF RowsBacked
<1> QED BY <1>2, <1>4 DEF RowsStep

\* Money that comes in backs its order.
LEMMA Approves ==
    ASSUME Inv, NEW o \in OrderIds, charges' = [charges EXCEPT ![o] = @ + 1], Approve(o),
           offered' \in [OrderIds -> Nat], UNCHANGED taken
    PROVE  RowsStep /\ o \in Backed'
<1>1. /\ order[o] \in OrderRows /\ charges \in [OrderIds -> Nat] /\ taken \in SUBSET OrderIds
  BY DEF Inv, Typed
<1>2. PICK new \in Approved(order[o]) : order' = [order EXCEPT ![o] = new] BY DEF Approve
<1>3. new \in OrderRows BY <1>1, <1>2 DEF Approved, Marked, OrderRows, PayStates
<1>4. charges' \in [OrderIds -> Nat] /\ charges'[o] > 0 /\ \A p \in OrderIds : charges[p] > 0 => charges'[p] > 0
  BY <1>1
<1>5. Backed \subseteq Backed' /\ o \in Backed' BY <1>4 DEF Backed
<1> QED BY <1>1, <1>2, <1>3, <1>4, <1>5, RowStep

LEMMA SameRows ==
    ASSUME Inv, UNCHANGED <<order, charges, taken>>, offered' \in [OrderIds -> Nat]
    PROVE  RowsStep /\ Backed' = Backed
<1>1. Backed' = Backed BY DEF Backed
<1>2. RowsBacked' BY <1>1 DEF Inv, RowsBacked
<1> QED BY <1>1, <1>2 DEF Inv, Typed, RowsStep

LEMMA Creates == ASSUME Inv, NEW t \in Tabs, NEW s \in Slots, CreateOrder(t, s) PROVE Inv'
<1>1. PICK o \in OrderIds :
        /\ order[o].pay = "none"
        /\ order' = [order EXCEPT ![o] = [@ EXCEPT !.pay = "PENDING", !.items = bag]]
        /\ Reply(t, s, o, "created")
  BY DEF CreateOrder
<1> DEFINE new == [order[o] EXCEPT !.pay = "PENDING", !.items = bag]
<1>2. order[o] \in OrderRows /\ bag \in Bags /\ taken \in SUBSET OrderIds BY DEF Inv, Typed
<1>3. new \in OrderRows /\ new.pay = "PENDING" /\ new.status = order[o].status BY <1>2 DEF OrderRows, PayStates
<1>4. UNCHANGED <<mode, bag, emptied, page, charges, offered, taken>> /\ wire[t][s].kind = "create" /\ wire[t][s].at = "sent"
  BY DEF CreateOrder, ApiOnly, Sent
<1>5. Backed' = Backed BY <1>4 DEF Backed
<1>6. order' = [order EXCEPT ![o] = new] BY <1>1
<1> HIDE DEF new
<1>7. Shown(new) = "paid" => Shown(order[o]) = "paid" BY <1>3 DEF Shown
<1>8. RowsStep BY <1>2, <1>3, <1>4, <1>5, <1>6, <1>7, RowStep DEF Inv, Typed, RowsBacked
<1> QED BY <1>1, <1>4, <1>8, PlainReplies DEF Answers

LEMMA Recovers == ASSUME Inv, NEW t \in Tabs, NEW s \in Slots, Recover(t, s) PROVE Inv'
<1>1. /\ UNCHANGED <<mode, bag, emptied, page, order, charges, offered, taken>>
      /\ wire[t][s].kind = "recover" /\ wire[t][s].at = "sent"
  BY DEF Recover, ApiOnly, Sent
<1>2. wire[t][s].order \in OrderIds BY <1>1, TabIs DEF TabFits, Asks
<1>3. RowsStep BY <1>1, RowsStay
<1> QED BY <1>1, <1>2, <1>3, PlainReplies DEF Recover, Answers

LEMMA PaymentOpens == ASSUME Inv, NEW t \in Tabs, NEW s \in Slots, OpenPayment(t, s) PROVE Inv'
<1>1. /\ UNCHANGED <<mode, bag, emptied, page, order, charges, taken>>
      /\ wire[t][s].kind = "pay" /\ wire[t][s].at = "sent"
  BY DEF OpenPayment, ApiOnly, Sent
<1>2. wire[t][s].order \in OrderIds BY <1>1, TabIs DEF TabFits, Asks
<1>3. offered' \in [OrderIds -> Nat] BY <1>2 DEF OpenPayment, Inv, Typed
<1>4. RowsStep BY <1>1, <1>3, SameRows
<1>5. PICK answer \in {"refused", "opened"} : Reply(t, s, wire[t][s].order, answer) BY DEF OpenPayment
<1> QED BY <1>1, <1>2, <1>4, <1>5, PlainReplies DEF Answers

\* What is read is true when it is read, and of a backed order for good.
LEMMA OrderReads == ASSUME Inv, NEW t \in Tabs, NEW s \in Slots, ReadOrder(t, s) PROVE Inv'
<1> DEFINE o == wire[t][s].order
<1>1. /\ UNCHANGED <<mode, bag, emptied, page, order, charges, offered, taken>>
      /\ wire[t][s].kind \in {"poll", "load"} /\ wire[t][s].at = "sent" /\ Reply(t, s, o, Shown(order[o]))
  BY DEF ReadOrder, ApiOnly, Sent
<1>2. o \in OrderIds BY <1>1, TabIs DEF TabFits, Asks
<1>3. RowsStep /\ Backed' = Backed BY <1>1, RowsStay
<1>4. Shown(order[o]) \in SeenStates BY DEF Shown, SeenStates
<1>5. Shown(order[o]) = "paid" => o \in Backed BY <1>2 DEF Inv, RowsBacked
<1>6. Shown(order[o]) \in Answers BY <1>4 DEF Answers
<1> HIDE DEF o
<1> QED BY <1>1, <1>2, <1>3, <1>4, <1>5, <1>6, PlainReplies DEF o

\* A form that is charged, or waits: it no longer goes, and is counted as live.
LEMMA Lives ==
    ASSUME Inv, RowsStep, UNCHANGED <<mode, bag, emptied>>, NEW t \in Tabs, NEW s \in Slots,
           NEW answer \in {"approved", "pending"}, Reply(t, s, wire[t][s].order, answer),
           wire[t][s].kind = "brick", wire[t][s].at = "sent", wire[t][s].order \in OrderIds,
           page' = [page EXCEPT ![t].live = IF page[t].kind = "away" THEN @ ELSE @ + 1],
           answer = "approved" => wire[t][s].order \in Backed'
    PROVE  Inv'
<1> DEFINE u == page[t]
           n == IF u.kind = "away" THEN u.live ELSE u.live + 1
           v == [u EXCEPT !.live = n]
<1>1. u \in Pages /\ wire[t] \in Wiring /\ TabFits(u, wire[t], Backed) BY TabIs
<1>2. TabFits(u, wire[t], Backed') BY <1>1, MoreBacked DEF RowsStep
<1>3. PICK w \in Wires :
        /\ wire' = [wire EXCEPT ![t] = [wire[t] EXCEPT ![s] = w]]
        /\ u.kind = "away" => w = NoWire
        /\ u.kind # "away" => /\ w.kind = wire[t][s].kind /\ w.at = "answered"
                              /\ w.order = wire[t][s].order /\ w.answer = answer
  BY Replies DEF Answers
<1> DEFINE ws == [wire[t] EXCEPT ![s] = w]
<1>4. page' = [page EXCEPT ![t] = v] BY DEF Inv, Typed
<1>5. n \in Nat /\ n = IF u.kind = "away" THEN u.live ELSE u.live + 1 BY <1>1 DEF Pages
<1> HIDE DEF n
<1>6. /\ v \in Pages /\ v.kind = u.kind /\ v.order = u.order /\ v.brick = u.brick /\ v.waits = u.waits
      /\ v.seen = u.seen /\ v.live = n /\ v.again = u.again /\ u.live \in Nat /\ u.again \in Nat
  BY <1>1, <1>5 DEF Pages
<1> HIDE DEF v, u
<1>7. Asks(v, w) /\ Tells(w, Backed')
  <2>1. Asks(u, wire[t][s]) BY <1>2 DEF TabFits
  <2>2. CASE u.kind = "away" BY <2>2, <1>3, Blank DEF Asks, Tells
  <2>3. CASE u.kind # "away"
    <3>1. Asks(v, w) BY <2>1, <2>3, <1>3, <1>6 DEF Asks
    <3>2. Tells(w, Backed') BY <2>3, <1>3 DEF Tells
    <3> QED BY <3>1, <3>2
  <2> QED BY <2>2, <2>3
<1>8. Counts(v, ws)
  <2>1. CASE v.kind = "checkout"
    <3>1. Going(wire[t][s]) /\ ~Going(w) /\ Hopes(w) BY <2>1, <1>3, <1>6 DEF Going, Hopes
    <3>2. /\ Cardinality(Outgoing(wire[t])) \in Nat
          /\ Cardinality(Outgoing(ws)) = Cardinality(Outgoing(wire[t])) - 1
      BY <3>1, <1>1, GoingCounts
    <3>3. u.live + Cardinality(Outgoing(wire[t])) <= 1 + u.again BY <2>1, <1>2, <1>6 DEF TabFits, Counts
    <3>4. v.live + Cardinality(Outgoing(ws)) <= 1 + v.again BY <2>1, <3>2, <3>3, <1>5, <1>6
    <3>5. ws[s] = w BY <1>1 DEF Wiring
    <3> QED BY <3>1, <3>4, <3>5 DEF Counts
  <2> QED BY <2>1 DEF Counts
<1>9. \A r \in Slots : Asks(v, wire[t][r]) /\ Tells(wire[t][r], Backed') BY <1>2, <1>6 DEF TabFits, Asks
<1>10. Shows(v, Backed') BY <1>2, <1>6 DEF TabFits, Shows
<1>11. w.kind # "create" BY <1>3, Blank
<1>12. ws \in Wiring /\ TabFits(v, ws, Backed')
  BY <1>1, <1>2, <1>6, <1>7, <1>8, <1>9, <1>10, <1>11, SlotFits DEF TabFits
<1>13. BagStep BY BagStays
<1> HIDE DEF ws
<1> QED BY <1>3, <1>4, <1>6, <1>12, <1>13, TabStep DEF ws

LEMMA Charges == ASSUME Inv, NEW t \in Tabs, NEW s \in Slots, ChargeBrick(t, s) PROVE Inv'
<1> DEFINE o == wire[t][s].order
           alive == page' = [page EXCEPT ![t].live = IF page[t].kind = "away" THEN @ ELSE @ + 1]
<1>1. UNCHANGED <<mode, bag, emptied, taken>> /\ wire[t][s].kind = "brick" /\ wire[t][s].at = "sent"
  BY DEF ChargeBrick, ApiOnly, Sent
<1>2. o \in OrderIds BY <1>1, TabIs DEF TabFits, Asks
<1>3. /\ order[o] \in OrderRows /\ charges \in [OrderIds -> Nat] /\ offered \in [OrderIds -> Nat]
      /\ taken \in SUBSET OrderIds
  BY <1>2 DEF Inv, Typed
<1>4. ASSUME NEW pay \in {"PENDING", "REJECTED"}, order' = [order EXCEPT ![o].pay = pay], UNCHANGED charges,
             offered' \in [OrderIds -> Nat]
      PROVE  RowsStep
  <2> DEFINE new == [order[o] EXCEPT !.pay = pay]
  <2>1. new \in OrderRows /\ new.pay = pay /\ new.status = order[o].status BY <1>3 DEF OrderRows, PayStates
  <2>2. order' = [order EXCEPT ![o] = new] BY <1>4
  <2>3. Backed' = Backed BY <1>1, <1>4 DEF Backed
  <2> HIDE DEF new
  <2>4. Shown(new) = "paid" => Shown(order[o]) = "paid" BY <2>1 DEF Shown
  <2> QED BY <2>1, <2>2, <2>3, <2>4, <1>1, <1>2, <1>3, <1>4, RowStep DEF Inv, RowsBacked
<1>5. CASE Reply(t, s, o, "refused") /\ UNCHANGED <<order, charges, offered, page>>
  <2>1. RowsStep BY <1>1, <1>5, RowsStay
  <2> QED BY <1>1, <1>2, <1>5, <2>1, PlainReplies DEF Answers
<1>6. CASE /\ Reply(t, s, o, "rejected") /\ order' = [order EXCEPT ![o].pay = "REJECTED"]
           /\ UNCHANGED <<charges, offered, page>>
  <2>1. RowsStep BY <1>3, <1>4, <1>6
  <2> QED BY <1>1, <1>2, <1>6, <2>1, PlainReplies DEF Answers
<1>7. CASE /\ Reply(t, s, o, "approved") /\ alive
           /\ charges' = [charges EXCEPT ![o] = @ + 1] /\ Approve(o)
           /\ UNCHANGED offered
  <2>1. RowsStep /\ o \in Backed' BY <1>1, <1>2, <1>3, <1>7, Approves
  <2> QED BY <2>1, <1>1, <1>2, <1>7, Lives
<1>8. CASE /\ Reply(t, s, o, "pending") /\ alive
           /\ offered' = [offered EXCEPT ![o] = @ + 1]
           /\ order' = [order EXCEPT ![o].pay = "PENDING"]
           /\ UNCHANGED charges
  <2>1. RowsStep BY <1>2, <1>3, <1>4, <1>8
  <2> QED BY <2>1, <1>1, <1>2, <1>8, Lives
<1> QED BY <1>5, <1>6, <1>7, <1>8 DEF ChargeBrick

-----------------------------------------------------------------------------
(* Money that comes, orders that expire or are moved, what is put into the bag *)

LEMMA Money == ASSUME Inv, NEW o \in OrderIds, OfferPaid(o) PROVE Inv'
<1>1. UNCHANGED <<mode, bag, emptied, page, wire, taken>> BY DEF OfferPaid, ApiOnly, pages
<1>2. offered' \in [OrderIds -> Nat] BY DEF OfferPaid, Inv, Typed
<1>3. RowsStep BY <1>1, <1>2, Approves DEF OfferPaid
<1> QED BY <1>1, <1>3, RowsOnly, BagStays

LEMMA Expires == ASSUME Inv, NEW o \in OrderIds, Expire(o) PROVE Inv'
<1> DEFINE new == [order[o] EXCEPT !.pay = "CANCELLED", !.status = "CANCELLED", !.expired = TRUE]
<1>1. UNCHANGED <<mode, bag, emptied, page, wire, taken, charges, offered>> BY DEF Expire, pages
<1>2. order[o] \in OrderRows BY DEF Inv, Typed
<1>3. new \in OrderRows /\ new.pay = "CANCELLED" /\ new.status = "CANCELLED" BY <1>2 DEF OrderRows, PayStates
<1>4. order' = [order EXCEPT ![o] = new] BY DEF Expire
<1>5. Backed' = Backed BY <1>1 DEF Backed
<1> HIDE DEF new
<1>6. Shown(new) # "paid" BY <1>3 DEF Shown
<1>7. RowsStep BY <1>1, <1>3, <1>4, <1>5, <1>6, RowStep DEF Inv, Typed
<1> QED BY <1>1, <1>7, RowsOnly, BagStays

\* What the staff sets to paid is taken for paid; nothing else it sets makes an order paid.
LEMMA Staff ==
    ASSUME Inv, NEW o \in OrderIds, NEW status \in {"PENDING", "PAID", "CANCELLED"}, StaffSets(o, status)
    PROVE  Inv'
<1>1. UNCHANGED <<mode, bag, emptied, page, wire, charges, offered>> BY DEF StaffSets, pages
<1>2. order[o] \in OrderRows /\ taken \in SUBSET OrderIds BY DEF Inv, Typed
<1>3. taken' \in SUBSET OrderIds /\ taken \subseteq taken' /\ (status = "PAID" => o \in taken')
  BY <1>2 DEF StaffSets
<1>4. Backed \subseteq Backed' /\ (status = "PAID" => o \in Backed') BY <1>1, <1>3 DEF Backed
<1>5. charges' \in [OrderIds -> Nat] /\ offered' \in [OrderIds -> Nat] BY <1>1 DEF Inv, Typed
<1>6. RowsStep
  <2>1. CASE order' = [order EXCEPT ![o].status = status]
    <3> DEFINE new == [order[o] EXCEPT !.status = status]
    <3>1. new \in OrderRows /\ new.pay = order[o].pay /\ new.status = status BY <1>2 DEF OrderRows
    <3>2. order' = [order EXCEPT ![o] = new] BY <2>1
    <3> HIDE DEF new
    <3>3. Shown(new) = "paid" => status = "PAID" \/ Shown(order[o]) = "paid" BY <3>1 DEF Shown
    <3>4. Shown(new) = "paid" => o \in Backed' BY <3>3, <1>4 DEF Inv, RowsBacked
    <3> QED BY <3>1, <3>2, <3>4, <1>3, <1>4, <1>5, RowStep
  <2>2. CASE status = "PAID" /\ Approve(o)
    <3>1. PICK new \in Approved(order[o]) : order' = [order EXCEPT ![o] = new] BY <2>2 DEF Approve
    <3>2. new \in OrderRows BY <1>2, <3>1 DEF Approved, Marked, OrderRows, PayStates
    <3> QED BY <2>2, <3>1, <3>2, <1>3, <1>4, <1>5, RowStep
  <2> QED BY <2>1, <2>2 DEF StaffSets
<1> QED BY <1>1, <1>6, RowsOnly, BagStays

LEMMA BagChanges ==
    ASSUME Inv, NEW p \in Products, AddToCart(p) \/ RemoveFromCart(p)
    PROVE  Inv'
<1>1. UNCHANGED <<mode, order, charges, offered, taken, page, wire, emptied>>
  BY DEF AddToCart, RemoveFromCart, pages
<1>2. bag' \in Bags BY DEF AddToCart, RemoveFromCart, Bags, Inv, Typed
<1>3. RowsStep /\ BagStep BY <1>1, <1>2, RowsStay DEF BagStep, Inv, Typed
<1> QED BY <1>1, <1>3, RowsOnly

-----------------------------------------------------------------------------
(* The pages, on an answer *)

\* What is left to count when an answer is dealt with, or given up.
LEMMA CountsThen ==
    ASSUME Inv, NEW t \in Tabs, NEW s \in Slots, NEW v \in Pages, NEW w \in Wires,
           v.kind = page[t].kind, v.live = page[t].live, ~Hopes(w),
           \/ v.kind = "order" \/ v.again = page[t].again + 1
           \/ /\ v.again = page[t].again
              /\ \/ v.waits \/ v.seen = "paid"
                 \/ v.waits = page[t].waits /\ v.seen = page[t].seen /\ ~Hopes(wire[t][s])
    PROVE  Counts(v, [Rest(t, v) EXCEPT ![s] = w])
<1> DEFINE u == page[t]
           rest == Rest(t, v)
           new == [rest EXCEPT ![s] = w]
<1>1. u \in Pages /\ TabFits(u, wire[t], Backed) BY TabIs
<1>2. /\ rest \in Wiring /\ Outgoing(rest) = Outgoing(wire[t])
      /\ \A r \in Slots : Hopes(rest[r]) <=> Hopes(wire[t][r])
  BY RestFits
<1> HIDE DEF rest
<1>3. ~Going(w) BY DEF Hopes
<1>4. /\ Cardinality(Outgoing(wire[t])) \in Nat /\ Cardinality(Outgoing(new)) \in Nat
      /\ Cardinality(Outgoing(new)) <= Cardinality(Outgoing(wire[t]))
  BY <1>2, <1>3, GoingCounts
<1>5. \A r \in Slots : r # s => new[r] = rest[r] BY <1>2 DEF Wiring
<1>6. u.live \in Nat /\ u.again \in Nat /\ v.live = u.live BY <1>1 DEF Pages
<1> HIDE DEF new
<1>7. CASE v.kind = "checkout"
  <2>1. u.live + Cardinality(Outgoing(wire[t])) <= 1 + u.again BY <1>1, <1>7 DEF TabFits, Counts
  <2>2. v.live + Cardinality(Outgoing(new)) <= 1 + v.again
    <3>1. v.again \in {u.again, u.again + 1} BY <1>7
    <3> QED BY <3>1, <2>1, <1>4, <1>6
  <2>3. ASSUME ~v.waits, v.seen # "paid", \A r \in Slots : ~Hopes(new[r]) PROVE v.live <= v.again
    <3>1. CASE v.again = u.again + 1 BY <3>1, <2>1, <1>4, <1>6
    <3>2. CASE v.again = u.again /\ v.waits = u.waits /\ v.seen = u.seen /\ ~Hopes(wire[t][s])
      <4>1. \A r \in Slots : ~Hopes(wire[t][r]) BY <3>2, <2>3, <1>2, <1>5
      <4>2. u.live <= u.again BY <4>1, <3>2, <2>3, <1>1, <1>7 DEF TabFits, Counts
      <4> QED BY <4>2, <3>2, <1>6
    <3> QED BY <3>1, <3>2, <2>3, <1>7
  <2>4. Counts(v, new) BY <1>7, <2>2, <2>3 DEF Counts
  <2> QED BY <2>4 DEF new, rest
<1> QED BY <1>7 DEF Counts

\* A page goes on with its order, or takes the one that it had created.
LEMMA Goes ==
    ASSUME Inv, BagStep, UNCHANGED <<order, charges, offered, taken>>, NEW t \in Tabs, NEW s \in Slots,
           NEW v \in Pages, NEW w \in Wires, ShowThen(t, s, v, w), page[t].kind # "away",
           v.kind = page[t].kind, v.live = page[t].live,
           v.order = page[t].order \/ (page[t].order = NoOrder /\ wire[t][s].kind = "create"),
           Shows(v, Backed), w.kind \in {"none", "pay", "load"}, w.at = "sent",
           w.kind # "none" => w.order \in OrderIds /\ w.order = v.order,
           \/ v.kind = "order" \/ v.again = page[t].again + 1
           \/ /\ v.again = page[t].again
              /\ \/ v.waits \/ v.seen = "paid"
                 \/ v.waits = page[t].waits /\ v.seen = page[t].seen /\ ~Hopes(wire[t][s])
    PROVE  Inv'
<1> DEFINE rest == Rest(t, v)
           ws == [rest EXCEPT ![s] = w]
<1>1. wire[t] \in Wiring /\ CreatesOne(wire[t]) BY TabIs DEF TabFits
<1>2. /\ rest \in Wiring /\ CreatesOne(rest)
      /\ \A r \in Slots : rest[r].kind = wire[t][r].kind \/ (rest[r].kind = "load" /\ wire[t][r].kind = "poll")
      /\ \A r \in Slots : Asks(page[t], rest[r]) /\ Tells(rest[r], Backed)
  BY RestFits
<1>3. page' = [page EXCEPT ![t] = v] /\ wire' = [wire EXCEPT ![t] = ws] BY DEF ShowThen, Put
<1>4. ~Hopes(w) BY DEF Hopes, Going
<1>5. Counts(v, ws) BY <1>4, CountsThen
<1> HIDE DEF rest
<1>6. ASSUME NEW r \in Slots, r # s PROVE Asks(v, rest[r])
  <2>1. Asks(page[t], rest[r]) BY <1>2
  <2>2. CASE v.order = page[t].order BY <2>1, <2>2 DEF Asks
  <2>3. CASE page[t].order = NoOrder /\ wire[t][s].kind = "create"
    <3>1. wire[t][r].kind # "create" BY <2>3, <1>1, <1>6 DEF CreatesOne
    <3>2. rest[r].kind # "create" BY <3>1, <1>2
    <3>3. rest[r].kind \notin {"pay", "brick", "poll", "load"} BY <2>1, <2>3, NoOrderIsNone DEF Asks
    <3> QED BY <2>1, <3>2, <3>3 DEF Asks
  <2> QED BY <2>2, <2>3
<1>7. Asks(v, w) /\ Tells(w, Backed) BY DEF Asks, Tells
<1>8. ws \in Wiring /\ TabFits(v, ws, Backed) BY <1>2, <1>5, <1>6, <1>7, SlotFits
<1>9. RowsStep /\ Backed' = Backed BY RowsStay
<1> HIDE DEF ws
<1> QED BY <1>3, <1>8, <1>9, TabStep

\* An answer reached a page that is there.
LEMMA AnswerIs ==
    ASSUME Inv, NEW t \in Tabs, NEW s \in Slots, wire[t][s].at = "answered"
    PROVE  /\ page[t] \in Pages /\ page[t].kind # "away" /\ TabFits(page[t], wire[t], Backed)
           /\ Asks(page[t], wire[t][s]) /\ Tells(wire[t][s], Backed) /\ Shows(page[t], Backed)
           /\ ~Going(wire[t][s])
BY TabIs DEF TabFits, Asks, Going

LEMMA OrderIsCreated == ASSUME Inv, NEW t \in Tabs, NEW s \in Slots, OrderCreated(t, s) PROVE Inv'
<1> DEFINE u == page[t]
           o == wire[t][s].order
           v == [u EXCEPT !.order = o]
           w == Request("pay", o)
<1>1. wire[t][s].kind = "create" /\ wire[t][s].at = "answered" BY DEF OrderCreated, Answered
<1>2. /\ u \in Pages /\ u.kind # "away" /\ Asks(u, wire[t][s]) /\ Shows(u, Backed)
  BY <1>1, AnswerIs
<1>3. o \in OrderIds /\ u.order = NoOrder BY <1>1, <1>2 DEF Asks
<1>4. w \in Wires /\ w.kind = "pay" /\ w.order = o /\ w.at = "sent" BY <1>3, RequestIs DEF Kinds, Ids
<1>5. ShowThen(t, s, v, w) BY DEF OrderCreated
<1>6. /\ v \in Pages /\ v.kind = u.kind /\ v.order = o /\ v.brick = u.brick /\ v.waits = u.waits
      /\ v.seen = u.seen /\ v.live = u.live /\ v.again = u.again
  BY <1>2, <1>3 DEF Pages, Ids
<1> HIDE DEF v, w
<1>7. Shows(v, Backed) BY <1>2, <1>3, <1>6, NoOrderIsNone DEF Shows
<1>8. ~Hopes(wire[t][s]) BY <1>1 DEF Hopes, Going
<1>9. BagStep /\ UNCHANGED <<order, charges, offered, taken>>
  BY BagStays DEF OrderCreated, KeepBag, Untouched
<1> QED BY <1>1, <1>2, <1>3, <1>4, <1>5, <1>6, <1>7, <1>8, <1>9, Goes

\* The bag is emptied for an order that is backed, or in the mode "pro".
LEMMA Empties ==
    ASSUME Inv, NEW o \in OrderIds, ClearCart(o), UNCHANGED mode, mode = "personalized" => o \in Backed
    PROVE  BagStep
BY Blank DEF ClearCart, BagStep, Inv, Typed

LEMMA Keeps == ASSUME Inv, KeepBag, Untouched PROVE BagStep /\ UNCHANGED <<order, charges, offered, taken>>
BY BagStays DEF KeepBag, Untouched

LEMMA PaymentIsOpened == ASSUME Inv, NEW t \in Tabs, NEW s \in Slots, PaymentOpened(t, s) PROVE Inv'
<1> DEFINE u == page[t]
<1>1. wire[t][s].kind = "pay" /\ wire[t][s].at = "answered" /\ Untouched BY DEF PaymentOpened, Answered
<1>2. u \in Pages /\ u.kind # "away" /\ Asks(u, wire[t][s]) /\ Shows(u, Backed) BY <1>1, AnswerIs
<1>3. u.order \in OrderIds BY <1>1, <1>2 DEF Asks
<1>4. ~Hopes(wire[t][s]) BY <1>1 DEF Hopes, Going
<1>5. UNCHANGED <<mode, order, charges, offered, taken>> BY <1>1 DEF Untouched
<1>6. CASE ShowThen(t, s, u, NoWire) /\ KeepBag
  BY <1>1, <1>2, <1>4, <1>6, Blank, Keeps, Goes
<1>7. CASE mode = "pro" /\ GoAway(t) /\ (IF u.kind = "checkout" THEN ClearCart(u.order) ELSE KeepBag)
  <2>1. BagStep BY <1>1, <1>3, <1>5, <1>7, Empties, Keeps
  <2> QED BY <2>1, <1>5, <1>7, GoesAway
<1>8. CASE ShowThen(t, s, [u EXCEPT !.brick = TRUE], NoWire) /\ KeepBag
  <2> DEFINE v == [u EXCEPT !.brick = TRUE]
  <2>1. /\ v \in Pages /\ v.kind = u.kind /\ v.order = u.order /\ v.waits = u.waits
        /\ v.seen = u.seen /\ v.live = u.live /\ v.again = u.again
    BY <1>2 DEF Pages
  <2>2. ShowThen(t, s, v, NoWire) BY <1>8
  <2> HIDE DEF v
  <2>3. Shows(v, Backed) BY <2>1, <1>2, <1>3 DEF Shows
  <2> QED BY <2>1, <2>2, <2>3, <1>1, <1>2, <1>4, <1>8, Blank, Keeps, Goes
<1> QED BY <1>6, <1>7, <1>8 DEF PaymentOpened

\* Only an approval shows success and empties the bag: it was charged. The
\* checkout that has one, or waits for one, offers the form no more.
LEMMA FormIsAnswered == ASSUME Inv, NEW t \in Tabs, NEW s \in Slots, Charged(t, s) PROVE Inv'
<1> DEFINE u == page[t]
           answer == wire[t][s].answer
           w == IF u.kind = "order" /\ answer # "refused" THEN Request("load", u.order) ELSE NoWire
<1>1. wire[t][s].kind = "brick" /\ wire[t][s].at = "answered" /\ Untouched BY DEF Charged, Answered
<1>2. /\ u \in Pages /\ u.kind # "away" /\ Asks(u, wire[t][s]) /\ Tells(wire[t][s], Backed)
      /\ Shows(u, Backed) /\ ~Going(wire[t][s])
  BY <1>1, AnswerIs
<1>3. u.order \in OrderIds /\ answer \in {"approved", "pending", "rejected", "refused"}
  BY <1>1, <1>2 DEF Asks
<1>4. answer = "approved" => u.order \in Backed BY <1>1, <1>2 DEF Asks, Tells
<1>5. UNCHANGED <<mode, order, charges, offered, taken>> BY <1>1 DEF Untouched
<1>6. BagStep
  <2>1. CASE ClearCart(u.order) /\ answer = "approved" BY <2>1, <1>3, <1>4, <1>5, Empties
  <2>2. CASE KeepBag BY <2>2, <1>1, Keeps
  <2> QED BY <2>1, <2>2 DEF Charged, Clears
<1>7. w \in Wires /\ w.kind \in {"none", "load"} /\ w.at = "sent" /\ (w.kind # "none" => w.order = u.order)
  BY <1>3, Blank, RequestIs DEF Kinds, Ids
<1>8. answer \in {"rejected", "refused"} => ~Hopes(wire[t][s]) BY <1>2 DEF Hopes
<1> HIDE DEF w
<1>9. ASSUME NEW v \in Pages, ShowThen(t, s, v, w), v.kind = u.kind, v.order = u.order, v.live = u.live,
             v.again = u.again, v.seen = "paid" => u.order \in Backed,
             u.kind = "order" \/ v.waits \/ v.seen = "paid"
             \/ (v.waits = u.waits /\ v.seen = u.seen /\ answer \in {"rejected", "refused"})
      PROVE  Inv'
  <2>1. Shows(v, Backed) BY <1>2, <1>3, <1>9 DEF Shows
  <2> QED BY <2>1, <1>1, <1>2, <1>3, <1>5, <1>6, <1>7, <1>8, <1>9, Goes
<1>10. CASE answer = "approved"
  <2> DEFINE v == [u EXCEPT !.seen = IF u.kind = "checkout" THEN "paid" ELSE @,
                            !.waits = FALSE, !.retry = FALSE, !.cleared = TRUE]
  <2>1. /\ v \in Pages /\ v.kind = u.kind /\ v.order = u.order /\ v.live = u.live /\ v.again = u.again
        /\ v.seen = IF u.kind = "checkout" THEN "paid" ELSE u.seen
    BY <1>2 DEF Pages, SeenStates
  <2>2. ShowThen(t, s, v, w) BY <1>10 DEF Charged, w
  <2>3. u.kind \in {"checkout", "order"} BY <1>2 DEF Pages
  <2> HIDE DEF v
  <2> QED BY <2>1, <2>2, <2>3, <1>4, <1>9, <1>10
<1>11. CASE answer = "pending"
  <2> DEFINE v == [u EXCEPT !.waits = TRUE]
  <2>1. /\ v \in Pages /\ v.kind = u.kind /\ v.order = u.order /\ v.live = u.live /\ v.again = u.again
        /\ v.seen = u.seen /\ v.waits
    BY <1>2 DEF Pages
  <2>2. ShowThen(t, s, v, w) BY <1>11 DEF Charged, w
  <2> HIDE DEF v
  <2> QED BY <2>1, <2>2, <1>2, <1>9 DEF Shows
<1>12. CASE answer = "rejected"
  <2> DEFINE v == [u EXCEPT !.retry = FALSE]
  <2>1. /\ v \in Pages /\ v.kind = u.kind /\ v.order = u.order /\ v.live = u.live /\ v.again = u.again
        /\ v.seen = u.seen /\ v.waits = u.waits
    BY <1>2 DEF Pages
  <2>2. ShowThen(t, s, v, w) BY <1>12 DEF Charged, w
  <2> HIDE DEF v
  <2> QED BY <2>1, <2>2, <1>2, <1>9, <1>12 DEF Shows
<1>13. CASE answer = "refused"
  <2>1. ShowThen(t, s, u, w) BY <1>13 DEF Charged, w
  <2> QED BY <2>1, <1>2, <1>9, <1>13 DEF Shows
<1> QED BY <1>3, <1>10, <1>11, <1>12, <1>13

\* A poll that says paid does the same, and is as right.
LEMMA OrderIsRead == ASSUME Inv, NEW t \in Tabs, NEW s \in Slots, OrderRead(t, s) PROVE Inv'
<1> DEFINE u == page[t]
           answer == wire[t][s].answer
           acts == wire[t][s].kind = "poll" /\ answer = "paid"
           told == [u EXCEPT !.seen = IF u.kind = "order" \/ acts THEN answer ELSE @]
           v == IF acts THEN [told EXCEPT !.waits = FALSE, !.retry = FALSE, !.cleared = TRUE] ELSE told
<1>1. wire[t][s].kind \in {"poll", "load"} /\ wire[t][s].at = "answered" /\ Untouched
  BY DEF OrderRead, Answered
<1>2. /\ u \in Pages /\ u.kind # "away" /\ Asks(u, wire[t][s]) /\ Tells(wire[t][s], Backed) /\ Shows(u, Backed)
  BY <1>1, AnswerIs
<1>3. u.order \in OrderIds /\ answer \in SeenStates BY <1>1, <1>2 DEF Asks
<1>4. answer = "paid" => u.order \in Backed BY <1>1, <1>2 DEF Asks, Tells
<1>5. UNCHANGED <<mode, order, charges, offered, taken>> BY <1>1 DEF Untouched
<1>6. BagStep
  <2>1. CASE ClearCart(u.order) /\ acts BY <2>1, <1>3, <1>4, <1>5, Empties
  <2>2. CASE KeepBag BY <2>2, <1>1, Keeps
  <2> QED BY <2>1, <2>2 DEF OrderRead
<1>7. /\ told \in Pages /\ told.kind = u.kind /\ told.order = u.order /\ told.live = u.live
      /\ told.again = u.again /\ told.waits = u.waits /\ told.brick = u.brick
      /\ told.seen = IF u.kind = "order" \/ acts THEN answer ELSE u.seen
  BY <1>2, <1>3 DEF Pages
<1> HIDE DEF told
<1>8. /\ v \in Pages /\ v.kind = u.kind /\ v.order = u.order /\ v.live = u.live
      /\ v.again = u.again /\ (~acts => v.waits = u.waits) /\ v.seen = told.seen /\ v.brick = u.brick
  BY <1>7 DEF Pages
<1>9. ShowThen(t, s, v, NoWire) BY DEF OrderRead, told
<1>10. ~Hopes(wire[t][s]) BY <1>1 DEF Hopes, Going
<1> HIDE DEF v
<1>11. Shows(v, Backed) BY <1>2, <1>3, <1>4, <1>7, <1>8 DEF Shows
<1>12. u.kind \in {"checkout", "order"} BY <1>2 DEF Pages
<1>13. \/ v.kind = "order" \/ v.seen = "paid"
       \/ v.waits = u.waits /\ v.seen = u.seen /\ ~Hopes(wire[t][s])
  BY <1>7, <1>8, <1>10, <1>12
<1> HIDE DEF acts
<1> QED BY <1>1, <1>2, <1>5, <1>6, <1>8, <1>9, <1>11, <1>13, Blank, Goes

LEMMA ItemsAreRecovered == ASSUME Inv, NEW t \in Tabs, NEW s \in Slots, Recovered(t, s) PROVE Inv'
<1> DEFINE u == page[t]
           items == order[wire[t][s].order].items
<1>1. wire[t][s].kind = "recover" /\ wire[t][s].at = "answered" BY DEF Recovered, Answered
<1>2. u \in Pages /\ u.kind # "away" /\ Asks(u, wire[t][s]) /\ Shows(u, Backed) BY <1>1, AnswerIs
<1>3. items \in Bags /\ bag \in Bags BY <1>1, <1>2 DEF Asks, Inv, Typed, OrderRows
<1>4. UNCHANGED <<mode, order, charges, offered, taken, emptied>> BY DEF Recovered
<1> HIDE DEF items
<1>5. PICK added \in SUBSET Products : bag' = [p \in Products |-> IF p \in added THEN bag[p] + items[p] ELSE bag[p]]
  BY DEF Recovered, items
<1>6. bag' \in Bags BY <1>3, <1>5 DEF Bags
<1>7. BagStep BY <1>4, <1>6 DEF BagStep, Inv, Typed
<1>8. ~Hopes(wire[t][s]) BY <1>1 DEF Hopes, Going
<1>9. ShowThen(t, s, u, NoWire) BY DEF Recovered
<1> QED BY <1>1, <1>2, <1>4, <1>7, <1>8, <1>9, Blank, Goes

\* A form whose answer is lost is accounted for twice: it may be sent again.
LEMMA IsLost == ASSUME Inv, NEW t \in Tabs, NEW s \in Slots, Lost(t, s) PROVE Inv'
<1> DEFINE u == page[t]
           n == IF wire[t][s].kind = "brick" THEN u.again + 1 ELSE u.again
           v == [u EXCEPT !.again = n]
<1>1. u \in Pages /\ u.kind # "away" /\ Shows(u, Backed) BY TabIs DEF Lost, TabFits
<1>2. n \in Nat /\ n = IF wire[t][s].kind = "brick" THEN u.again + 1 ELSE u.again BY <1>1 DEF Pages
<1>3. ShowThen(t, s, v, NoWire) BY DEF Lost
<1> HIDE DEF n
<1>4. /\ v \in Pages /\ v.kind = u.kind /\ v.order = u.order /\ v.brick = u.brick /\ v.waits = u.waits
      /\ v.seen = u.seen /\ v.live = u.live /\ v.again = n
  BY <1>1, <1>2 DEF Pages
<1> HIDE DEF v
<1>5. Shows(v, Backed) BY <1>1, <1>4 DEF Shows
<1>6. v.again = u.again + 1 \/ (v.again = u.again /\ ~Hopes(wire[t][s]))
  BY <1>2, <1>4 DEF Hopes, Going
<1>7. BagStep /\ UNCHANGED <<order, charges, offered, taken>> BY BagStays DEF Lost
<1> QED BY <1>1, <1>3, <1>4, <1>5, <1>6, <1>7, Blank, Goes

-----------------------------------------------------------------------------
(* The invariant is inductive *)

LEMMA Stays == ASSUME Inv, [StorefrontNext]_storefrontVars PROVE Inv'
<1>1. CASE UNCHANGED storefrontVars
  <2>1. UNCHANGED <<mode, bag, order, charges, offered, taken, page, wire, emptied>>
    BY <1>1 DEF storefrontVars, pages
  <2> QED BY <2>1, RowsStay, BagStays, RowsOnly
<1>2. ASSUME NEW p \in Products, AddToCart(p) \/ RemoveFromCart(p) PROVE Inv' BY <1>2, BagChanges
<1>3. ASSUME NEW t \in Tabs, Browse(t) PROVE Inv'
  BY <1>3, Visits, Leaves, Pays, Submits, Retries DEF Browse
<1>4. ASSUME NEW t \in Tabs, NEW s \in Slots, Serve(t, s) PROVE Inv'
  BY <1>4, Creates, PaymentOpens, Charges, Recovers, OrderReads, OrderIsCreated, PaymentIsOpened,
     FormIsAnswered, ItemsAreRecovered, OrderIsRead, IsLost
  DEF Serve
<1>5. ASSUME NEW o \in OrderIds,
             \/ OfferPaid(o) \/ Expire(o)
             \/ \E status \in {"PENDING", "PAID", "CANCELLED"} : StaffSets(o, status)
      PROVE  Inv'
  BY <1>5, Money, Expires, Staff
<1> QED BY <1>1, <1>2, <1>3, <1>4, <1>5 DEF StorefrontNext

LEMMA Fits == StorefrontSpec => []Inv
BY Start, Stays, PTL DEF StorefrontSpec

\* A visit to the checkout makes one payment that may still be charged, and one
\* more for each form that it sent before an earlier one was answered or whose
\* answer was lost: for any number of tabs, of requests under way and of orders.
THEOREM VisitsPayOnce == StorefrontSpec => []OncePerVisit
<1>1. Inv => OncePerVisit
  <2> SUFFICES ASSUME Inv, NEW t \in Tabs, page[t].kind = "checkout" PROVE page[t].live <= 1 + page[t].again
    BY DEF OncePerVisit
  <2>1. page[t] \in Pages /\ wire[t] \in Wiring /\ Counts(page[t], wire[t]) BY TabIs DEF TabFits
  <2>2. IsFiniteSet(Outgoing(wire[t])) BY SlotsAreFew, FS_Subset DEF Outgoing
  <2>3. Cardinality(Outgoing(wire[t])) \in Nat BY <2>2, FS_CardinalityType
  <2> QED BY <2>1, <2>3 DEF Counts, Pages
<1> QED BY <1>1, Fits, PTL

\* Success is shown, and the bag emptied, only for an order that was charged or
\* that the staff took for paid, in whatever order the answers come.
THEOREM SuccessIsTrue == StorefrontSpec => []SuccessIsCharged
<1>1. Inv => SuccessIsCharged
  <2> SUFFICES ASSUME Inv PROVE SuccessIsCharged OBVIOUS
  <2>1. \A t \in Tabs : page[t].seen = "paid" => page[t].order \in Backed BY TabIs DEF TabFits, Shows
  <2>2. mode = "personalized" => emptied \subseteq Backed BY DEF Inv, EmptiedBacked
  <2> QED BY <2>1, <2>2 DEF SuccessIsCharged, Backed
<1> QED BY <1>1, Fits, PTL

-----------------------------------------------------------------------------
(* The notices.  Whoever asks gives one right to a mail.  It lies with the *)
(* row while that waits, with the process that marked it until the mail    *)
(* has arrived, and with the row again when the mark is taken back.        *)

TurnShaped(t) == t = [at |-> t.at, todo |-> t.todo]

TurnTyped ==
    /\ since = [n \in Row |-> since[n]]
    /\ turn = [p \in Sweepers |-> turn[p]] /\ \A p \in Sweepers : TurnShaped(turn[p])
    /\ mails \in [Row -> Nat] /\ asked \in [Row -> Nat] /\ unsure \in [Row -> Nat]

\* t has marked n, and has not mailed it or not yet taken the mark back.
HasInHand(t, n) == t.at \in {"mail", "unmark"} /\ Head(t.todo) = n
Holding(n) == {p \in Sweepers : HasInHand(turn[p], n)}

\* One for a condition that holds.
Counted(b) == IF b THEN 1 ELSE 0

Rights ==
    \A n \in Row :
      /\ IsFiniteSet(Holding(n))
      /\ mails[n] + Cardinality(Holding(n)) + Counted(Waits(n)) <= asked[n] + unsure[n]

MailInv == TurnTyped /\ Rights

-----------------------------------------------------------------------------
LEMMA MailStart == NoticesInit => MailInv
<1> SUFFICES ASSUME NoticesInit PROVE MailInv OBVIOUS
<1> USE DEF NoticesInit
<1>1. \A p \in Sweepers : turn[p] = NoTurn OBVIOUS
<1>2. TurnTyped BY <1>1 DEF TurnTyped, TurnShaped, NoTurn
<1>3. ASSUME NEW n \in Row
      PROVE  /\ IsFiniteSet(Holding(n))
             /\ mails[n] + Cardinality(Holding(n)) + Counted(Waits(n)) <= asked[n] + unsure[n]
  <2>1. Holding(n) = {} BY <1>1 DEF Holding, HasInHand, NoTurn
  <2>2. IsFiniteSet(Holding(n)) /\ Cardinality(Holding(n)) = 0 BY <2>1, FS_EmptySet
  <2>3. Counted(Waits(n)) = 0 BY DEF Waits, Counted
  <2> QED BY <2>2, <2>3
<1> QED BY <1>2, <1>3 DEF MailInv, Rights

\* Between two steps no row has more rights in mails and hands than were added.
Balanced(p) ==
    \A n \in Row :
      mails'[n] + Counted(HasInHand(turn'[p], n)) + Counted(Waits(n))'
        + asked[n] + unsure[n]
      <= asked'[n] + unsure'[n]
        + mails[n] + Counted(HasInHand(turn[p], n)) + Counted(Waits(n))

\* Who has n in hand after a step of p.
LEMMA HandsStep ==
    ASSUME MailInv, NEW p \in Sweepers, NEW t, turn' = [turn EXCEPT ![p] = t], NEW n \in Row
    PROVE  /\ IsFiniteSet(Holding(n))'
           /\ Cardinality(Holding(n))' + Counted(HasInHand(turn[p], n))
                = Cardinality(Holding(n)) + Counted(HasInHand(turn'[p], n))
           /\ Cardinality(Holding(n)) \in Nat
<1> DEFINE others == Holding(n) \ {p}
<1>1. turn = [q \in Sweepers |-> turn[q]] BY DEF MailInv, TurnTyped
<1>2. turn'[p] = t /\ \A q \in Sweepers \ {p} : turn'[q] = turn[q] BY <1>1
<1>3. IsFiniteSet(Holding(n)) BY DEF MailInv, Rights
<1>4. IsFiniteSet(others) /\ p \notin others BY <1>3, FS_RemoveElement
<1>5. /\ IsFiniteSet(others \cup {p}) /\ Cardinality(others \cup {p}) = Cardinality(others) + 1
      /\ Cardinality(others) \in Nat
  BY <1>4, FS_AddElement, FS_CardinalityType
<1>6. Holding(n) = IF HasInHand(turn[p], n) THEN others \cup {p} ELSE others
  BY DEF Holding
<1>7. Holding(n)' = IF HasInHand(turn'[p], n) THEN others \cup {p} ELSE others
  BY <1>2 DEF Holding, HasInHand
<1> HIDE DEF others
<1>8. Cardinality(Holding(n)) = Cardinality(others) + Counted(HasInHand(turn[p], n))
  <2>1. CASE HasInHand(turn[p], n) BY <2>1, <1>5, <1>6 DEF Counted
  <2>2. CASE ~HasInHand(turn[p], n) BY <2>2, <1>5, <1>6 DEF Counted
  <2> QED BY <2>1, <2>2
<1>9. /\ IsFiniteSet(Holding(n))'
      /\ Cardinality(Holding(n))' = Cardinality(others) + Counted(HasInHand(turn'[p], n))
  <2>1. CASE HasInHand(turn'[p], n) BY <2>1, <1>5, <1>7 DEF Counted
  <2>2. CASE ~HasInHand(turn'[p], n) BY <2>2, <1>4, <1>5, <1>7 DEF Counted
  <2> QED BY <2>1, <2>2
<1>10. Counted(HasInHand(turn[p], n)) \in {0, 1} /\ Counted(HasInHand(turn'[p], n)) \in {0, 1} BY DEF Counted
<1> QED BY <1>5, <1>8, <1>9, <1>10

LEMMA TurnStep ==
    ASSUME MailInv, TurnTyped', NEW p \in Sweepers, NEW t, turn' = [turn EXCEPT ![p] = t], Balanced(p)
    PROVE  MailInv'
<1>1. ASSUME NEW n \in Row
      PROVE  /\ IsFiniteSet(Holding(n))'
             /\ mails'[n] + Cardinality(Holding(n))' + Counted(Waits(n))' <= asked'[n] + unsure'[n]
  <2>1. PICK c \in Nat : c = Cardinality(Holding(n)) BY HandsStep
  <2>2. PICK h \in {0, 1} : h = Counted(HasInHand(turn[p], n)) BY DEF Counted
  <2>3. PICK g \in {0, 1} : g = Counted(HasInHand(turn'[p], n)) BY DEF Counted
  <2>4. PICK d : d = Cardinality(Holding(n))' OBVIOUS
  <2>5. IsFiniteSet(Holding(n))' /\ d + h = c + g BY <2>1, <2>2, <2>3, <2>4, HandsStep
  <2>6. d \in Nat
    <3>1. Cardinality(Holding(n)') \in Nat BY <2>5, FS_CardinalityType
    <3> QED BY <3>1, <2>4
  <2>7. PICK w \in {0, 1} : w = Counted(Waits(n)) BY DEF Counted
  <2>8. PICK v \in {0, 1} : v = Counted(Waits(n))' BY DEF Counted
  <2>9. mails[n] + c + w <= asked[n] + unsure[n] BY <2>1, <2>7 DEF MailInv, Rights
  <2>10. mails'[n] + g + v + asked[n] + unsure[n] <= asked'[n] + unsure'[n] + mails[n] + h + w
    BY <2>2, <2>3, <2>7, <2>8 DEF Balanced
  <2>11. /\ mails[n] \in Nat /\ asked[n] \in Nat /\ unsure[n] \in Nat
         /\ mails'[n] \in Nat /\ asked'[n] \in Nat /\ unsure'[n] \in Nat
    BY DEF MailInv, TurnTyped
  <2>12. mails'[n] + d + v <= asked'[n] + unsure'[n]
    BY <2>5, <2>6, <2>9, <2>10, <2>11
  <2> QED BY <2>4, <2>5, <2>8, <2>12
<1> QED BY <1>1 DEF MailInv, Rights

\* A process goes to another row, or ends its turn: its hands are empty.
LEMMA Emptied ==
    ASSUME NEW t
    PROVE  TurnShaped(NextRow(t)) /\ \A n : ~HasInHand(NextRow(t), n)
<1>1. CASE Tail(t.todo) = <<>> BY <1>1 DEF NextRow, NoTurn, TurnShaped, HasInHand
<1>2. CASE Tail(t.todo) # <<>>
  <2>1. NextRow(t) = [at |-> "row", todo |-> Tail(t.todo)] BY <1>2 DEF NextRow
  <2>2. NextRow(t).at = "row" /\ NextRow(t).todo = Tail(t.todo) BY <2>1
  <2> QED BY <2>1, <2>2 DEF TurnShaped, HasInHand
<1> QED BY <1>1, <1>2

\* What a process does with no row in hand, before and after.
LEMMA HandsFree ==
    ASSUME MailInv, NEW p \in Sweepers, NEW t, TurnShaped(t), turn' = [turn EXCEPT ![p] = t],
           \A n : ~HasInHand(turn[p], n), \A n : ~HasInHand(t, n),
           UNCHANGED <<since, marked, mails, asked, unsure>>
    PROVE  MailInv'
<1>1. turn'[p] = t /\ TurnTyped' BY DEF MailInv, TurnTyped
<1>2. \A n \in Row : Waits(n)' = Waits(n) BY DEF Waits
<1>3. Balanced(p) BY <1>1, <1>2 DEF Balanced, Counted, MailInv, TurnTyped
<1> QED BY <1>1, <1>3, TurnStep

LEMMA Reads ==
    ASSUME MailInv, NEW p \in Sweepers, Select(p, Alerts) \/ Select(p, Carts) \/ Look(p)
    PROVE  MailInv'
<1>1. ASSUME NEW kind, Select(p, kind) PROVE MailInv'
  <2> DEFINE t == [at |-> "row", todo |-> Selected(kind)]
  <2>1. t.at = "row" /\ TurnShaped(t) BY DEF TurnShaped
  <2>2. turn' = [turn EXCEPT ![p] = t] /\ UNCHANGED <<since, marked, mails, asked, unsure>>
    BY <1>1 DEF Select
  <2>3. \A n : ~HasInHand(turn[p], n) BY <1>1 DEF Select, HasInHand
  <2>4. \A n : ~HasInHand(t, n) BY <2>1 DEF HasInHand
  <2> HIDE DEF t
  <2> QED BY <2>1, <2>2, <2>3, <2>4, HandsFree
<1>2. CASE Look(p)
  <2>1. \A n : ~HasInHand(turn[p], n) BY <1>2 DEF Look, HasInHand
  <2>2. UNCHANGED <<since, marked, mails, asked, unsure>> BY <1>2 DEF Look
  <2>3. CASE Skip(p)
    <3>1. turn' = [turn EXCEPT ![p] = NextRow(turn[p])] BY <2>3 DEF Skip
    <3> QED BY <3>1, <2>1, <2>2, Emptied, HandsFree
  <2>4. CASE turn' = [turn EXCEPT ![p].at = "mark"]
    <3> DEFINE t == [turn[p] EXCEPT !.at = "mark"]
    <3>1. TurnShaped(turn[p]) BY DEF MailInv, TurnTyped
    <3>2. t.at = "mark" /\ TurnShaped(t) BY <3>1 DEF TurnShaped
    <3>3. turn' = [turn EXCEPT ![p] = t] BY <2>4
    <3>4. \A n : ~HasInHand(t, n) BY <3>2 DEF HasInHand
    <3> HIDE DEF t
    <3> QED BY <3>2, <3>3, <3>4, <2>1, <2>2, HandsFree
  <2> QED BY <1>2, <2>3, <2>4 DEF Look
<1> QED BY <1>1, <1>2

\* The mark takes the right from the row to the process.
LEMMA Marking == ASSUME MailInv, NEW p \in Sweepers, Mark(p) PROVE MailInv'
<1>1. UNCHANGED <<since, mails, asked, unsure>> /\ turn[p].at = "mark" BY DEF Mark
<1>2. \A n : ~HasInHand(turn[p], n) BY <1>1 DEF HasInHand
<1>3. CASE UNCHANGED marked /\ Skip(p)
  <2>1. turn' = [turn EXCEPT ![p] = NextRow(turn[p])] BY <1>3 DEF Skip
  <2> QED BY <2>1, <1>1, <1>2, <1>3, Emptied, HandsFree
<1>4. CASE /\ Marks(At(p)) /\ marked' = marked \cup {At(p)}
           /\ turn' = [turn EXCEPT ![p].at = "mail"]
  <2> DEFINE t == [turn[p] EXCEPT !.at = "mail"]
  <2>1. TurnShaped(turn[p]) BY DEF MailInv, TurnTyped
  <2>2. t.at = "mail" /\ t.todo = turn[p].todo /\ TurnShaped(t) BY <2>1 DEF TurnShaped
  <2>3. turn' = [turn EXCEPT ![p] = t] BY <1>4
  <2> HIDE DEF t
  <2>4. TurnTyped' /\ turn'[p] = t BY <1>1, <2>2, <2>3 DEF MailInv, TurnTyped
  <2>5. \A n \in Row : HasInHand(t, n) <=> n = At(p) BY <2>2 DEF HasInHand, At
  <2>6. \A n \in Row : Waits(n)' <=> Waits(n) /\ n # At(p) BY <1>1, <1>4 DEF Waits
  <2>7. Waits(At(p)) BY <1>4 DEF Marks
  <2>8. Balanced(p) BY <1>1, <1>2, <2>4, <2>5, <2>6, <2>7 DEF Balanced, Counted, MailInv, TurnTyped
  <2> QED BY <2>3, <2>4, <2>8, TurnStep
<1> QED BY <1>3, <1>4 DEF Mark

\* A mail that arrives uses up the right; one of unknown fate is given another.
LEMMA Mailing == ASSUME MailInv, NEW p \in Sweepers, Mail(p) \/ MailFails(p) PROVE MailInv'
<1>1. UNCHANGED <<since, marked, asked>> /\ turn[p].at = "mail" BY DEF Mail, MailFails
<1>2. \A n \in Row : HasInHand(turn[p], n) <=> n = At(p) BY <1>1 DEF HasInHand, At
<1>3. \A n \in Row : Waits(n)' = Waits(n) BY <1>1 DEF Waits
<1>4. mails \in [Row -> Nat] /\ asked \in [Row -> Nat] /\ unsure \in [Row -> Nat] BY DEF MailInv, TurnTyped
<1>5. CASE Mail(p)
  <2>1. turn' = [turn EXCEPT ![p] = NextRow(turn[p])] BY <1>5 DEF Mail, Skip
  <2>2. mails' = [mails EXCEPT ![At(p)] = @ + 1] /\ UNCHANGED unsure BY <1>5 DEF Mail, Arrives
  <2> DEFINE t == NextRow(turn[p])
  <2>3. TurnShaped(t) BY Emptied
  <2> HIDE DEF t
  <2>4. turn' = [turn EXCEPT ![p] = t] BY <2>1 DEF t
  <2>5. mails' \in [Row -> Nat]
    <3>1. PICK m : m = At(p) OBVIOUS
    <3>2. mails' = [mails EXCEPT ![m] = mails[m] + 1] BY <2>2, <3>1
    <3>3. CASE m \in Row
      <4>1. mails[m] + 1 \in Nat BY <3>3, <1>4
      <4> QED BY <4>1, <1>4, <3>2
    <3>4. CASE m \notin Row BY <3>4, <1>4, <3>2
    <3> QED BY <3>3, <3>4
  <2>6. TurnTyped' /\ turn'[p] = t BY <1>1, <1>4, <2>2, <2>3, <2>4, <2>5 DEF MailInv, TurnTyped
  <2>7. TurnTyped' /\ turn'[p] = NextRow(turn[p]) BY <2>6 DEF t
  <2>8. \A n \in Row : mails'[n] = IF n = At(p) THEN mails[n] + 1 ELSE mails[n] BY <1>4, <2>2
  <2>9. \A n \in Row : ~HasInHand(turn'[p], n) BY <2>7, Emptied
  <2>10. Balanced(p) BY <1>1, <1>2, <1>3, <1>4, <2>2, <2>8, <2>9 DEF Balanced, Counted
  <2> QED BY <2>1, <2>7, <2>10, TurnStep
<1>6. CASE MailFails(p)
  <2> DEFINE t == [turn[p] EXCEPT !.at = "unmark"]
  <2>1. TurnShaped(turn[p]) BY DEF MailInv, TurnTyped
  <2>2. t.at = "unmark" /\ t.todo = turn[p].todo /\ TurnShaped(t) BY <2>1 DEF TurnShaped
  <2>3. turn' = [turn EXCEPT ![p] = t] BY <1>6 DEF MailFails
  <2>4. \/ UNCHANGED <<mails, unsure>>
        \/ /\ mails' = [mails EXCEPT ![At(p)] = @ + 1]
           /\ unsure' = [unsure EXCEPT ![At(p)] = @ + 1]
    BY <1>6 DEF MailFails, Arrives
  <2> HIDE DEF t
  <2>5. mails' \in [Row -> Nat] /\ unsure' \in [Row -> Nat] BY <1>4, <2>4
  <2>6. TurnTyped' /\ turn'[p] = t BY <1>1, <1>4, <2>2, <2>3, <2>5 DEF MailInv, TurnTyped
  <2>7. \A n \in Row : HasInHand(t, n) <=> n = At(p) BY <2>2 DEF HasInHand, At
  <2>8. \A n \in Row : mails'[n] + unsure[n] = mails[n] + unsure'[n] BY <1>4, <2>4
  <2>9. Balanced(p)
    BY <1>1, <1>2, <1>3, <1>4, <2>5, <2>6, <2>7, <2>8 DEF Balanced, Counted
  <2> QED BY <2>3, <2>6, <2>9, TurnStep
<1> QED BY <1>5, <1>6

\* The row gets the right back; a process that dies takes it along.
LEMMA Unmarking == ASSUME MailInv, NEW p \in Sweepers, Unmark(p) PROVE MailInv'
<1>1. UNCHANGED <<since, mails, asked, unsure>> /\ turn[p].at = "unmark" BY DEF Unmark
<1>2. \A n \in Row : HasInHand(turn[p], n) <=> n = At(p) BY <1>1 DEF HasInHand, At
<1>3. marked' = marked \ {At(p)} /\ turn' = [turn EXCEPT ![p] = NextRow(turn[p])]
  BY DEF Unmark, Unmarked, Skip
<1>4. \A n \in Row : n # At(p) => Waits(n)' = Waits(n) BY <1>1, <1>3 DEF Waits
<1>5. TurnTyped' /\ turn'[p] = NextRow(turn[p]) BY <1>1, <1>3, Emptied DEF MailInv, TurnTyped
<1>6. \A n \in Row : ~HasInHand(turn'[p], n) BY <1>5, Emptied
<1>7. \A n \in Row : Counted(Waits(n))' <= Counted(Waits(n)) + (IF n = At(p) THEN 1 ELSE 0)
  BY <1>4 DEF Counted
<1>8. Balanced(p) BY <1>1, <1>2, <1>6, <1>7 DEF Balanced, Counted, MailInv, TurnTyped
<1> QED BY <1>3, <1>5, <1>8, TurnStep

LEMMA Dying == ASSUME MailInv, NEW p \in Sweepers, SweeperDies(p) PROVE MailInv'
<1>1. UNCHANGED <<since, marked, mails, asked, unsure>> /\ turn' = [turn EXCEPT ![p] = NoTurn]
  BY DEF SweeperDies
<1>2. TurnShaped(NoTurn) /\ \A n : ~HasInHand(NoTurn, n) BY DEF TurnShaped, NoTurn, HasInHand
<1>3. TurnTyped' /\ turn'[p] = NoTurn BY <1>1, <1>2 DEF MailInv, TurnTyped
<1>4. \A n \in Row : Waits(n)' = Waits(n) BY <1>1 DEF Waits
<1>5. Balanced(p) BY <1>1, <1>2, <1>3, <1>4 DEF Balanced, Counted, MailInv, TurnTyped
<1> QED BY <1>1, <1>3, <1>5, TurnStep

\* Whoever asks gives the row one right, also when it has one.
LEMMA Asking == ASSUME MailInv, NEW n \in Row, Ask(n) PROVE MailInv'
<1> DEFINE time == 1 + Max({since[m] : m \in Row})
<1> HIDE DEF time
<1>0. since' = [since EXCEPT ![n] = time] /\ marked' = marked \ {n} BY DEF Ask, time
<1>1. UNCHANGED <<turn, mails, unsure>> /\ asked' = [asked EXCEPT ![n] = @ + 1] BY DEF Ask
<1>2. \A m \in Row \ {n} : Waits(m)' = Waits(m) BY <1>0 DEF Waits, MailInv, TurnTyped
<1>3. TurnTyped' BY <1>0, <1>1 DEF MailInv, TurnTyped
<1>4. ASSUME NEW m \in Row
      PROVE  /\ IsFiniteSet(Holding(m))'
             /\ mails'[m] + Cardinality(Holding(m))' + Counted(Waits(m))' <= asked'[m] + unsure'[m]
  <2>1. Holding(m)' = Holding(m) BY <1>1 DEF Holding
  <2>2. IsFiniteSet(Holding(m)) /\ mails[m] + Cardinality(Holding(m)) + Counted(Waits(m)) <= asked[m] + unsure[m]
    BY DEF MailInv, Rights
  <2>3. Cardinality(Holding(m)) \in Nat BY <2>2, FS_CardinalityType
  <2>4. mails[m] \in Nat /\ asked[m] \in Nat /\ unsure[m] \in Nat BY DEF MailInv, TurnTyped
  <2>5. PICK w \in {0, 1} : w = Counted(Waits(m)) BY DEF Counted
  <2>6. PICK v \in {0, 1} : v = Counted(Waits(m))' BY DEF Counted
  <2>7. mails[m] + Cardinality(Holding(m)) + v <= asked'[m] + unsure[m]
    <3>1. CASE m = n
      <4>1. asked'[m] = asked[m] + 1 BY <3>1, <1>1 DEF MailInv, TurnTyped
      <4> QED BY <4>1, <2>2, <2>3, <2>4, <2>5
    <3>2. CASE m # n
      <4>1. asked'[m] = asked[m] /\ v = w BY <3>2, <1>1, <1>2, <2>5, <2>6 DEF Counted
      <4> QED BY <4>1, <2>2, <2>5
    <3> QED BY <3>1, <3>2
  <2>8. Cardinality(Holding(m))' = Cardinality(Holding(m)) BY <2>1
  <2> QED BY <2>1, <2>2, <2>6, <2>7, <2>8, <1>1
<1> QED BY <1>3, <1>4 DEF MailInv, Rights

LEMMA MailStays ==
    ASSUME MailInv, UNCHANGED <<since, marked, turn, mails, asked, unsure>>
    PROVE  MailInv'
BY DEF MailInv, TurnTyped, Rights, Holding, Waits

LEMMA MailInvariance == NoticesSpec => []MailInv
<1>1. MailInv /\ [NoticesNext]_noticeVars => MailInv'
  <2> SUFFICES ASSUME MailInv, [NoticesNext]_noticeVars PROVE MailInv' OBVIOUS
  <2>1. CASE \E n \in Row : Ask(n) BY <2>1, Asking
  <2>2. CASE \E n \in Row : Flip(n) \/ Lapse(n) BY <2>2, MailStays DEF Flip, Lapse
  <2>3. CASE \E p \in Sweepers : Select(p, Alerts) \/ Select(p, Carts) \/ Turn(p) \/ SweeperDies(p)
    BY <2>3, Reads, Marking, Mailing, Unmarking, Dying DEF Turn
  <2>4. CASE UNCHANGED noticeVars BY <2>4, MailStays DEF noticeVars
  <2> QED BY <2>1, <2>2, <2>3, <2>4 DEF NoticesNext
<1> QED BY <1>1, MailStart, PTL DEF NoticesSpec

\* Nobody gets more mails than were asked for, but for those of unknown fate,
\* whatever processes sweep at once, fail and die (Notices!MailsWithinRequests).
THEOREM MailsAsked == NoticesSpec => []MailsWithinRequests
<1>1. MailInv => MailsWithinRequests
  <2> SUFFICES ASSUME MailInv, NEW n \in Row PROVE mails[n] <= asked[n] + unsure[n]
    BY DEF MailsWithinRequests
  <2>1. IsFiniteSet(Holding(n)) /\ mails[n] + Cardinality(Holding(n)) + Counted(Waits(n)) <= asked[n] + unsure[n]
    BY DEF MailInv, Rights
  <2>2. Cardinality(Holding(n)) \in Nat BY <2>1, FS_CardinalityType
  <2>3. Counted(Waits(n)) \in {0, 1} BY DEF Counted
  <2>4. mails[n] \in Nat /\ asked[n] \in Nat /\ unsure[n] \in Nat BY DEF MailInv, TurnTyped
  <2> QED BY <2>1, <2>2, <2>3, <2>4
<1> QED BY <1>1, MailInvariance, PTL

-----------------------------------------------------------------------------
(* The stock of a product with variants: no unit is on the shelf and in an *)
(* order at once, and a transaction that nothing overlaps leaves the right *)
(* sum.  First, one transaction.                                           *)

\* The first n lines of order o that are of variant v.
Units(o, n, v) == {i \in 1..n : Lines[o][i] = v}
Ordering == {"reserve", "return"}
Level == Nat \cup {Gone}

\* The lines done: the one being summed is.
Count(t) == Len(Lines[t.order]) - Len(t.todo) + IF t.at \in {"sum", "write"} THEN 1 ELSE 0

\* The stock of v as the transaction sees it.
Seen(t, v, s) == IF v \in DOMAIN t.new THEN t.new[v] ELSE s[v]

Fields == {"at", "kind", "order", "todo", "new", "sum", "alone"}
Shaped(t) == DOMAIN t = Fields

TxTyped(t) ==
    /\ Shaped(t)
    /\ t.at \in {"idle", "items", "line", "loose", "sum", "write", "commit"}
    /\ t.kind \in {"none", "reserve", "return", "save"}
    /\ t.at = "idle" <=> t.kind = "none"
    /\ t.at = "items" => t.kind = "return"
    /\ t.at \in {"idle", "items"} => DOMAIN t.new = {}
    /\ t.kind \in Ordering => t.order \in DOMAIN Lines

\* It has locked the rows it wrote, and brings no deleted row back.
Locks(t, h, s, w) ==
    /\ \A r \in DOMAIN t.new \cap Rows : w[r] = h
    /\ \A v \in DOMAIN t.new \cap Variants :
         t.new[v] \in Level /\ (s[v] = Gone => t.new[v] = Gone)

Trading(t) == t.kind \in Ordering /\ t.at # "items"

\* The lines left are the last ones of the order, but for deleted variants.
Queue(t, s) ==
    Trading(t) =>
      /\ t.todo \in Seq(Variants \cup {Null})
      /\ Len(t.todo) <= Len(Lines[t.order])
      /\ t.todo = <<>> <=> t.at = "commit"
      /\ t.at = "line" => Head(t.todo) # Null
      /\ t.at = "loose" => Head(t.todo) = Null
      /\ \A j \in 1..Len(t.todo) :
           LET v == Lines[t.order][Len(Lines[t.order]) - Len(t.todo) + j] IN
           t.todo[j] = v \/ (t.todo[j] = Null /\ s[v] = Gone)

\* It sees the shelf with one unit less, or more, for every line done.
Tally(t, s) ==
    Trading(t) =>
      \A v \in Variants : s[v] # Gone =>
        LET n == Cardinality(Units(t.order, Count(t), v)) IN
        Seen(t, v, s) = IF t.kind = "return" THEN s[v] + n ELSE s[v] - n

TxFits(t, h, s, w) == TxTyped(t) /\ Locks(t, h, s, w) /\ Queue(t, s) /\ Tally(t, s)

-----------------------------------------------------------------------------
(* The invariant: units are on the shelf, with the orders that hold them,  *)
(* or on their way back from an order that let them go                     *)

\* The units of v in the orders that the claimants hold: of[c] is the order of c.
Claims(of, v) ==
    {x \in UNION {{<<c, i>> : i \in DOMAIN Lines[of[c]]} : c \in DOMAIN of} :
       Lines[of[x[1]]][x[2]] = v}
Held == [o \in held |-> o]
Returns == [h \in {g \in Sessions : tx[g].kind = "return"} |-> tx[h].order]

ShelfTyped ==
    /\ stock \in [Variants -> Level]
    /\ form = [open |-> form.open, stock |-> form.stock] /\ form.stock \in [Variants -> Level]
    /\ held \subseteq DOMAIN Lines /\ made \subseteq DOMAIN Lines
    /\ owner = [r \in Rows |-> owner[r]] /\ tx = [h \in Sessions |-> tx[h]]

AllFit == \A h \in Sessions : TxFits(tx[h], h, stock, owner)

Conserved ==
    \A v \in Variants :
      /\ IsFiniteSet(Claims(Held, v)) /\ IsFiniteSet(Claims(Returns, v))
      /\ v \notin overwritten /\ stock[v] # Gone =>
           stock[v] + Cardinality(Claims(Held, v)) + Cardinality(Claims(Returns, v)) <= Shelf[v]

UnitInv == ShelfTyped /\ AllFit /\ Conserved

-----------------------------------------------------------------------------
(* Lines and claims *)

LEMMA LinesTyped ==
    ASSUME NEW o \in DOMAIN Lines
    PROVE  /\ Lines[o] \in Seq(Variants) /\ Lines[o] # <<>>
           /\ Len(Lines[o]) \in Nat \ {0} /\ DOMAIN Lines[o] = 1..Len(Lines[o])
           /\ \A i \in 1..Len(Lines[o]) : Lines[o][i] \in Variants
<1>1. Lines[o] \in Seq(Variants) /\ Lines[o] # <<>> BY OrdersHaveLines
<1> QED BY <1>1

LEMMA RowsApart ==
    /\ Product \notin Variants /\ Null \notin Variants /\ Product \in Rows
    /\ \A v \in Variants : v \in Rows /\ v # Product /\ v # Null
    /\ \A h \in Sessions : h # NoOne
BY VariantsAreNoWords, SessionsAreNumbers DEF Product, Null, Rows, NoOne

\* One line more.
LEMMA UnitsCount ==
    ASSUME NEW o, NEW n \in Nat, NEW v
    PROVE  /\ IsFiniteSet(Units(o, n, v)) /\ Cardinality(Units(o, n, v)) \in Nat
           /\ Cardinality(Units(o, 0, v)) = 0
           /\ Cardinality(Units(o, n + 1, v))
                = Cardinality(Units(o, n, v)) + IF Lines[o][n + 1] = v THEN 1 ELSE 0
<1>1. IsFiniteSet(1..n) BY FS_Interval
<1>2. IsFiniteSet(Units(o, n, v)) BY <1>1, FS_Subset DEF Units
<1>3. Units(o, 0, v) = {} BY DEF Units
<1>4. Units(o, n + 1, v) = IF Lines[o][n + 1] = v THEN Units(o, n, v) \cup {n + 1} ELSE Units(o, n, v)
  BY DEF Units
<1>5. n + 1 \notin Units(o, n, v) BY DEF Units
<1>6. /\ Cardinality(Units(o, n, v) \cup {n + 1}) = Cardinality(Units(o, n, v)) + 1
      /\ Cardinality(Units(o, n, v)) \in Nat
  BY <1>2, <1>5, FS_AddElement, FS_CardinalityType
<1> QED BY <1>2, <1>3, <1>4, <1>6, FS_EmptySet

LEMMA ClaimsAre ==
    ASSUME NEW of, NEW v, NEW x
    PROVE  x \in Claims(of, v) <=>
             \E c \in DOMAIN of : \E i \in DOMAIN Lines[of[c]] : x = <<c, i>> /\ Lines[of[c]][i] = v
BY DEF Claims

\* One claimant more.
LEMMA ClaimAdded ==
    ASSUME NEW of, NEW more, NEW c, c \notin DOMAIN of, DOMAIN more = DOMAIN of \cup {c},
           \A d \in DOMAIN of : more[d] = of[d], NEW o \in DOMAIN Lines, more[c] = o, NEW v,
           NEW n, n = Cardinality(Units(o, Len(Lines[o]), v))
    PROVE  /\ IsFiniteSet(Claims(more, v)) <=> IsFiniteSet(Claims(of, v))
           /\ IsFiniteSet(Claims(of, v)) =>
                /\ Cardinality(Claims(of, v)) \in Nat
                /\ Cardinality(Claims(more, v)) = Cardinality(Claims(of, v)) + n
<1> DEFINE units == Units(o, Len(Lines[o]), v)
<1> DEFINE mine == {<<c, i>> : i \in units}
<1>1. Len(Lines[o]) \in Nat /\ DOMAIN Lines[o] = 1..Len(Lines[o]) BY LinesTyped
<1>2. IsFiniteSet(units) BY <1>1, UnitsCount
<1>3. IsFiniteSet(mine) /\ Cardinality(mine) = Cardinality(units)
  <2> DEFINE f == [i \in units |-> <<c, i>>]
  <2>1. f \in [units -> mine] OBVIOUS
  <2>2. \A i, j \in units : f[i] = f[j] => i = j OBVIOUS
  <2>3. \A x \in mine : \E i \in units : f[i] = x OBVIOUS
  <2>4. f \in Bijection(units, mine)
    BY <2>1, <2>2, <2>3 DEF Bijection, Injection, Surjection, IsInjective
  <2>5. ExistsBijection(units, mine) BY <2>4 DEF ExistsBijection
  <2> QED BY <1>2, <2>5, FS_Bijection
<1>4. Claims(more, v) = Claims(of, v) \cup mine
  <2>1. \A x : x \in mine <=> \E i \in DOMAIN Lines[o] : x = <<c, i>> /\ Lines[o][i] = v
    BY <1>1 DEF Units
  <2>2. ASSUME NEW x PROVE x \in Claims(more, v) <=> x \in Claims(of, v) \/ x \in mine
    <3> HIDE DEF mine
    <3>1. x \in Claims(more, v) <=>
            \E d \in DOMAIN of \cup {c} : \E i \in DOMAIN Lines[more[d]] :
               x = <<d, i>> /\ Lines[more[d]][i] = v
      BY ClaimsAre
    <3>2. x \in Claims(of, v) <=>
            \E d \in DOMAIN of : \E i \in DOMAIN Lines[more[d]] : x = <<d, i>> /\ Lines[more[d]][i] = v
      BY ClaimsAre
    <3> QED BY <3>1, <3>2, <2>1
  <2> QED BY <2>2
<1>5. Claims(of, v) \cap mine = {}
  <2>1. \A x \in Claims(of, v) : x[1] \in DOMAIN of BY ClaimsAre
  <2>2. \A x \in mine : x[1] = c OBVIOUS
  <2> QED BY <2>1, <2>2
<1> HIDE DEF mine, units
<1>6. IsFiniteSet(Claims(more, v)) => IsFiniteSet(Claims(of, v)) BY <1>4, FS_Subset
<1>7. ASSUME IsFiniteSet(Claims(of, v))
      PROVE  /\ IsFiniteSet(Claims(more, v)) /\ Cardinality(Claims(of, v)) \in Nat
             /\ Cardinality(Claims(more, v)) = Cardinality(Claims(of, v)) + Cardinality(units)
  <2>1. /\ IsFiniteSet(Claims(of, v) \cup mine)
        /\ Cardinality(Claims(of, v) \cup mine) =
             Cardinality(Claims(of, v)) + Cardinality(mine) - Cardinality(Claims(of, v) \cap mine)
    BY <1>3, <1>7, FS_Union
  <2>2. Cardinality(Claims(of, v) \cap mine) = 0 BY <1>5, FS_EmptySet
  <2>3. Cardinality(Claims(of, v)) \in Nat /\ Cardinality(mine) \in Nat BY <1>3, <1>7, FS_CardinalityType
  <2> QED BY <1>3, <1>4, <2>1, <2>2, <2>3
<1> QED BY <1>6, <1>7 DEF units
-----------------------------------------------------------------------------
(* What one transaction does to itself *)

Label(todo) == IF todo = <<>> THEN "commit" ELSE IF Head(todo) = Null THEN "loose" ELSE "line"

LEMMA NextLineIs == ASSUME NEW job PROVE NextLine(job) = [job EXCEPT !.at = Label(job.todo)]
BY DEF NextLine, Label

LEMMA LabelKnown ==
    ASSUME NEW todo
    PROVE  /\ Label(todo) \in {"line", "loose", "commit"} /\ (Label(todo) = "commit" <=> todo = <<>>)
           /\ Label(todo) = "line" => Head(todo) # Null
           /\ Label(todo) = "loose" => Head(todo) = Null
BY DEF Label

\* An idle handler fits everywhere.
LEMMA IdleFits == ASSUME NEW h, NEW s, NEW w PROVE TxFits(NoTx, h, s, w)
<1>1. /\ Shaped(NoTx) /\ NoTx.at = "idle" /\ NoTx.kind = "none" /\ DOMAIN NoTx.new = {}
  BY DEF NoTx, Shaped, Fields, Nothing
<1> QED BY <1>1 DEF TxFits, TxTyped, Locks, Queue, Tally, Trading, Ordering

\* A form's transaction has only its locks to keep.
LEMMA SaveFits ==
    ASSUME NEW u, NEW h, NEW s, NEW w, Shaped(u), u.kind = "save",
           u.at \in {"line", "loose", "sum", "write", "commit"}, Locks(u, h, s, w)
    PROVE  TxFits(u, h, s, w)
BY DEF TxFits, TxTyped, Queue, Tally, Trading, Ordering

\* An order's transaction begins with all its lines.
LEMMA FreshFits ==
    ASSUME NEW u, NEW h, NEW s, NEW w, Shaped(u), s \in [Variants -> Level],
           u.kind \in Ordering, u.order \in DOMAIN Lines, DOMAIN u.new = {}, u.at = Label(u.todo),
           u.todo \in Seq(Variants \cup {Null}), Len(u.todo) = Len(Lines[u.order]),
           \A j \in 1..Len(u.todo) : \/ u.todo[j] = Lines[u.order][j]
                                     \/ u.todo[j] = Null /\ s[Lines[u.order][j]] = Gone
    PROVE  TxFits(u, h, s, w)
<1> DEFINE L == Lines[u.order]
<1>1. Len(L) \in Nat /\ Len(u.todo) \in Nat BY LinesTyped
<1>2. u.at \in {"line", "loose", "commit"} BY LabelKnown
<1>3. TxTyped(u) BY <1>2 DEF TxTyped, Ordering
<1>4. Locks(u, h, s, w) BY DEF Locks
<1>5. Queue(u, s)
  <2>1. \A j \in 1..Len(u.todo) : Len(L) - Len(u.todo) + j = j BY <1>1
  <2> QED BY <1>1, <2>1, LabelKnown DEF Queue
<1>6. Tally(u, s)
  <2>1. Count(u) = 0 BY <1>1, <1>2 DEF Count
  <2>2. \A v \in Variants : s[v] # Gone => s[v] \in Nat BY DEF Level
  <2>3. ASSUME NEW v \in Variants, s[v] # Gone
        PROVE  Cardinality(Units(u.order, Count(u), v)) = 0 /\ Seen(u, v, s) = s[v]
    <3>1. 0 \in Nat OBVIOUS
    <3> QED BY <2>1, <3>1, UnitsCount DEF Seen
  <2> QED BY <2>2, <2>3 DEF Tally
<1> QED BY <1>3, <1>4, <1>5, <1>6 DEF TxFits

\* The line at the head is the next of the order.
LEMMA HeadIs ==
    ASSUME NEW t, NEW h, NEW s, NEW w, TxFits(t, h, s, w), t.kind \in Ordering, t.at \in {"line", "loose", "sum", "write"}
    PROVE  LET v == Lines[t.order][Len(Lines[t.order]) - Len(t.todo) + 1] IN
           /\ t.order \in DOMAIN Lines /\ t.todo \in Seq(Variants \cup {Null}) /\ t.todo # <<>>
           /\ Len(t.todo) \in Nat \ {0} /\ Len(t.todo) <= Len(Lines[t.order])
           /\ Len(Lines[t.order]) - Len(t.todo) \in Nat
           /\ Tail(t.todo) \in Seq(Variants \cup {Null}) /\ Len(Tail(t.todo)) = Len(t.todo) - 1
           /\ v \in Variants /\ (Head(t.todo) = v \/ (Head(t.todo) = Null /\ s[v] = Gone))
<1> DEFINE L == Lines[t.order]
<1>1. t.order \in DOMAIN Lines BY DEF TxFits, TxTyped
<1>2. /\ t.todo \in Seq(Variants \cup {Null}) /\ Len(t.todo) <= Len(L) /\ t.todo # <<>>
      /\ \A j \in 1..Len(t.todo) : t.todo[j] = L[Len(L) - Len(t.todo) + j]
                                   \/ (t.todo[j] = Null /\ s[L[Len(L) - Len(t.todo) + j]] = Gone)
  BY DEF TxFits, Queue, Trading
<1>3. Len(L) \in Nat \ {0} /\ \A i \in 1..Len(L) : L[i] \in Variants BY <1>1, LinesTyped
<1>4. Len(t.todo) \in Nat \ {0} BY <1>2
<1>5. 1 \in 1..Len(t.todo) /\ Len(L) - Len(t.todo) + 1 \in 1..Len(L)
  <2>1. PICK n, k : n = Len(L) /\ k = Len(t.todo) OBVIOUS
  <2>2. n \in Nat /\ k \in Nat \ {0} /\ k <= n BY <1>2, <1>3, <1>4, <2>1
  <2>3. 1 \in 1..k /\ n - k + 1 \in 1..n BY <2>2
  <2> QED BY <2>1, <2>3
<1>6. Head(t.todo) = t.todo[1] BY <1>2
<1>7. Tail(t.todo) \in Seq(Variants \cup {Null}) /\ Len(Tail(t.todo)) = Len(t.todo) - 1 BY <1>2
<1> HIDE DEF L
<1>8. /\ L[Len(L) - Len(t.todo) + 1] \in Variants
      /\ Head(t.todo) = L[Len(L) - Len(t.todo) + 1]
         \/ (Head(t.todo) = Null /\ s[L[Len(L) - Len(t.todo) + 1]] = Gone)
  BY <1>2, <1>3, <1>5, <1>6
<1>9. Len(L) - Len(t.todo) \in Nat BY <1>2, <1>3, <1>4
<1> QED BY <1>1, <1>2, <1>4, <1>7, <1>8, <1>9 DEF L

\* What is left after the line at the head.
LEMMA QueueTail ==
    ASSUME NEW t, NEW h, NEW s, NEW w, TxFits(t, h, s, w), t.kind \in Ordering, t.at \in {"loose", "write"},
           NEW u, u.kind = t.kind, u.order = t.order, u.todo = Tail(t.todo), u.at = Label(u.todo)
    PROVE  Queue(u, s) /\ Count(u) = Len(Lines[t.order]) - Len(t.todo) + 1
<1> DEFINE L == Lines[t.order]
<1>1. /\ t.order \in DOMAIN Lines /\ t.todo \in Seq(Variants \cup {Null}) /\ t.todo # <<>>
      /\ Len(t.todo) \in Nat \ {0} /\ Len(t.todo) <= Len(L) /\ Len(L) - Len(t.todo) \in Nat
      /\ u.todo \in Seq(Variants \cup {Null}) /\ Len(u.todo) = Len(t.todo) - 1
  BY HeadIs
<1>2. Len(L) \in Nat BY <1>1, LinesTyped
<1>3. u.at \in {"line", "loose", "commit"} /\ (u.at = "commit" <=> u.todo = <<>>)
      /\ (u.at = "line" => Head(u.todo) # Null) /\ (u.at = "loose" => Head(u.todo) = Null)
  BY LabelKnown
<1>4. Count(u) = Len(L) - Len(t.todo) + 1
  <2>1. Count(u) = Len(L) - Len(u.todo) + 0 BY <1>3 DEF Count
  <2>2. PICK n, k : n = Len(L) /\ k = Len(t.todo) OBVIOUS
  <2>3. n \in Nat /\ k \in Nat /\ Len(u.todo) = k - 1 BY <1>1, <1>2, <2>2
  <2>4. n - (k - 1) + 0 = n - k + 1 BY <2>3
  <2> QED BY <2>1, <2>2, <2>3, <2>4
<1>5. ASSUME NEW j \in 1..Len(u.todo)
      PROVE  u.todo[j] = L[Len(L) - Len(u.todo) + j]
             \/ (u.todo[j] = Null /\ s[L[Len(L) - Len(u.todo) + j]] = Gone)
  <2>1. j + 1 \in 1..Len(t.todo) /\ u.todo[j] = t.todo[j + 1] BY <1>1
  <2>2. Len(L) - Len(u.todo) + j = Len(L) - Len(t.todo) + (j + 1)
    <3>1. PICK n, k : n = Len(L) /\ k = Len(t.todo) OBVIOUS
    <3>2. n \in Nat /\ k \in Nat /\ Len(u.todo) = k - 1 /\ j \in Nat BY <1>1, <1>2, <3>1
    <3>3. n - (k - 1) + j = n - k + (j + 1) BY <3>2
    <3> QED BY <3>1, <3>2, <3>3
  <2>3. \A i \in 1..Len(t.todo) : t.todo[i] = L[Len(L) - Len(t.todo) + i]
                                  \/ (t.todo[i] = Null /\ s[L[Len(L) - Len(t.todo) + i]] = Gone)
    BY DEF TxFits, Queue, Trading
  <2> HIDE DEF L
  <2> QED BY <2>1, <2>2, <2>3
<1>6. Len(u.todo) <= Len(L) BY <1>1, <1>2
<1> QED BY <1>1, <1>3, <1>4, <1>5, <1>6 DEF Queue
\* The units seen after one line more, of x at the place after the n-th.
LEMMA TallyNext ==
    ASSUME NEW t, NEW s, Tally(t, s), Trading(t), NEW u, Trading(u), s \in [Variants -> Level],
           u.kind = t.kind, u.order = t.order, Count(t) \in Nat, Count(u) = Count(t) + 1,
           NEW x, x = Lines[t.order][Count(t) + 1],
           s[x] # Gone => Seen(u, x, s) = IF t.kind = "return" THEN Seen(t, x, s) + 1 ELSE Seen(t, x, s) - 1,
           \A v \in Variants \ {x} : Seen(u, v, s) = Seen(t, v, s)
    PROVE  Tally(u, s)
<1>1. ASSUME NEW v \in Variants, s[v] # Gone
      PROVE  Seen(u, v, s) = IF u.kind = "return"
                             THEN s[v] + Cardinality(Units(u.order, Count(u), v))
                             ELSE s[v] - Cardinality(Units(u.order, Count(u), v))
  <2>1. PICK n : n = Cardinality(Units(t.order, Count(t), v)) OBVIOUS
  <2>2. n \in Nat /\ Cardinality(Units(u.order, Count(u), v)) = n + IF x = v THEN 1 ELSE 0
    <3>1. PICK c \in Nat : c = Count(t) OBVIOUS
    <3>2. PICK o : o = t.order OBVIOUS
    <3>3. /\ Cardinality(Units(o, c, v)) \in Nat
          /\ Cardinality(Units(o, c + 1, v))
               = Cardinality(Units(o, c, v)) + IF Lines[o][c + 1] = v THEN 1 ELSE 0
      BY UnitsCount
    <3> QED BY <2>1, <3>1, <3>2, <3>3
  <2>3. s[v] \in Nat BY <1>1 DEF Level
  <2>4. Seen(t, v, s) = IF t.kind = "return" THEN s[v] + n ELSE s[v] - n
    BY <1>1, <2>1 DEF Tally
  <2>5. Seen(u, v, s) = IF x = v
                        THEN IF t.kind = "return" THEN Seen(t, v, s) + 1 ELSE Seen(t, v, s) - 1
                        ELSE Seen(t, v, s)
    BY <1>1
  <2>6. PICK i \in {0, 1} : i = IF x = v THEN 1 ELSE 0 OBVIOUS
  <2>7. PICK k : k = Cardinality(Units(u.order, Count(u), v)) OBVIOUS
  <2>8. k = n + i BY <2>2, <2>6, <2>7
  <2>9. PICK a, b : a = Seen(t, v, s) /\ b = Seen(u, v, s) OBVIOUS
  <2>10. b = IF t.kind = "return" THEN a + i ELSE a - i
    <3>1. a \in Int BY <2>2, <2>3, <2>4, <2>9
    <3> QED BY <3>1, <2>5, <2>6, <2>9
  <2>11. b = IF t.kind = "return" THEN s[v] + k ELSE s[v] - k
    BY <2>2, <2>3, <2>4, <2>8, <2>9, <2>10
  <2> QED BY <2>7, <2>9, <2>11
<1> QED BY <1>1 DEF Tally

\* The UPDATE of a line: the row is found and changed by one, or it is gone.
LEMMA LineFits ==
    ASSUME NEW t, NEW h, NEW s, NEW w, TxFits(t, h, s, w), s \in [Variants -> Level],
           t.kind \in Ordering, t.at = "line",
           NEW u, Shaped(u), u.at = "sum", u.kind = t.kind, u.order = t.order, u.todo = t.todo,
           NEW x, x = Head(t.todo), NEW w2,
           t.kind = "reserve" => Seen(t, x, s) >= 1,
           \/ Seen(t, x, s) = Gone /\ t.kind = "return" /\ u.new = t.new /\ w2 = w
           \/ /\ Seen(t, x, s) # Gone
              /\ DOMAIN u.new = DOMAIN t.new \cup {x}
              /\ u.new[x] = IF t.kind = "return" THEN Seen(t, x, s) + 1 ELSE Seen(t, x, s) - 1
              /\ \A r \in DOMAIN t.new \ {x} : u.new[r] = t.new[r]
              /\ w2[x] = h /\ \A r \in Rows \ {x} : w2[r] = w[r]
    PROVE  TxFits(u, h, s, w2)
<1>1. /\ t.order \in DOMAIN Lines /\ t.todo # <<>> /\ x \in Variants
      /\ x = Lines[t.order][Len(Lines[t.order]) - Len(t.todo) + 1]
      /\ Len(Lines[t.order]) - Len(t.todo) \in Nat
  <2>1. Head(t.todo) # Null BY DEF TxFits, Queue, Trading
  <2> QED BY <2>1, HeadIs
<1>2. Trading(t) /\ Trading(u) /\ TxTyped(t) /\ Locks(t, h, s, w) /\ Queue(t, s) /\ Tally(t, s)
  BY DEF TxFits, Trading
<1>3. Count(t) = Len(Lines[t.order]) - Len(t.todo) /\ Count(u) = Count(t) + 1 BY <1>1 DEF Count
<1>4. Seen(t, x, s) \in Level /\ (s[x] = Gone => Seen(t, x, s) = Gone)
  BY <1>1, <1>2 DEF Seen, Locks
<1>5. TxTyped(u) BY <1>1, <1>2 DEF TxTyped, Ordering
<1>6. Locks(u, h, s, w2)
  <2>1. CASE Seen(t, x, s) = Gone BY <2>1, <1>2 DEF Locks
  <2>2. CASE Seen(t, x, s) # Gone
    <3>1. Seen(t, x, s) \in Nat /\ s[x] # Gone BY <2>2, <1>4 DEF Level
    <3>2. u.new[x] \in Nat BY <2>2, <3>1 DEF Ordering
    <3>3. \A r \in DOMAIN u.new \cap Rows : w2[r] = h BY <2>2, <1>2 DEF Locks
    <3>4. ASSUME NEW v \in DOMAIN u.new \cap Variants
          PROVE  u.new[v] \in Level /\ (s[v] = Gone => u.new[v] = Gone)
      <4>1. CASE v = x BY <4>1, <3>1, <3>2 DEF Level
      <4>2. CASE v # x
        <5>1. v \in DOMAIN t.new \cap Variants /\ u.new[v] = t.new[v] BY <4>2, <2>2
        <5> QED BY <5>1, <1>2 DEF Locks
      <4> QED BY <4>1, <4>2
    <3> QED BY <3>3, <3>4 DEF Locks
  <2> QED BY <2>1, <2>2
<1>7. Queue(u, s) BY <1>1, <1>2 DEF Queue
<1>8. Tally(u, s)
  <2>1. ASSUME s[x] # Gone
        PROVE  Seen(u, x, s) = IF t.kind = "return" THEN Seen(t, x, s) + 1 ELSE Seen(t, x, s) - 1
    <3>1. Seen(t, x, s) # Gone
      <4>1. PICK n \in Nat : Seen(t, x, s) = IF t.kind = "return" THEN s[x] + n ELSE s[x] - n
        <5>1. Cardinality(Units(t.order, Count(t), x)) \in Nat BY <1>1, <1>3, UnitsCount
        <5> QED BY <5>1, <2>1, <1>1, <1>2 DEF Tally
      <4>2. s[x] \in Nat BY <2>1, <1>1 DEF Level
      <4>3. t.kind = "return" => Seen(t, x, s) >= 0 BY <4>1, <4>2
      <4> QED BY <4>3 DEF Ordering, Gone
    <3> QED BY <3>1 DEF Seen
  <2>2. ASSUME NEW v \in Variants \ {x} PROVE Seen(u, v, s) = Seen(t, v, s)
    <3>1. CASE u.new = t.new BY <3>1 DEF Seen
    <3>2. CASE DOMAIN u.new = DOMAIN t.new \cup {x} /\ \A r \in DOMAIN t.new \ {x} : u.new[r] = t.new[r]
      BY <3>2, <2>2 DEF Seen
    <3> QED BY <3>1, <3>2
  <2>3. Count(t) \in Nat /\ x = Lines[t.order][Count(t) + 1] BY <1>1, <1>3
  <2> QED BY <2>1, <2>2, <2>3, <1>2, <1>3, TallyNext
<1> QED BY <1>5, <1>6, <1>7, <1>8 DEF TxFits

\* The sum changes no line.
LEMMA SumFits ==
    ASSUME NEW t, NEW h, NEW s, NEW w, TxFits(t, h, s, w), t.at = "sum",
           NEW u, Shaped(u), u.at = "write", u.kind = t.kind, u.order = t.order, u.todo = t.todo, u.new = t.new
    PROVE  TxFits(u, h, s, w)
<1>1. TxTyped(u) /\ Locks(u, h, s, w) BY DEF TxFits, TxTyped, Locks
<1>2. Queue(u, s) BY DEF TxFits, Queue, Trading
<1>3. Count(u) = Count(t) /\ Trading(u) = Trading(t) BY DEF Count, Trading
<1>4. \A v : Seen(u, v, s) = Seen(t, v, s) BY DEF Seen
<1>5. Tally(u, s) BY <1>3, <1>4 DEF TxFits, Tally
<1> QED BY <1>1, <1>2, <1>5 DEF TxFits

\* What a transaction writes to the product changes no variant's row.
LEMMA ProductFits ==
    ASSUME NEW t, NEW h, NEW s, NEW w, TxFits(t, h, s, w), s \in [Variants -> Level],
           t.at \in {"write", "loose"},
           NEW u, Shaped(u), u.kind = t.kind, u.order = t.order, u.at = Label(u.todo),
           t.kind \in Ordering => u.todo = Tail(t.todo),
           DOMAIN u.new = DOMAIN t.new \cup {Product},
           \A r \in DOMAIN t.new \ {Product} : u.new[r] = t.new[r],
           NEW w2, w2[Product] = h, \A r \in Rows \ {Product} : w2[r] = w[r]
    PROVE  TxFits(u, h, s, w2)
<1>1. TxTyped(t) /\ Locks(t, h, s, w) /\ Queue(t, s) /\ Tally(t, s) BY DEF TxFits
<1>2. u.at \in {"line", "loose", "commit"} BY LabelKnown
<1>3. TxTyped(u) BY <1>1, <1>2 DEF TxTyped, Ordering
<1>4. \A v \in Variants : v \in DOMAIN u.new <=> v \in DOMAIN t.new BY RowsApart
<1>5. \A v \in Variants : v \in DOMAIN t.new => u.new[v] = t.new[v] BY RowsApart
<1>6. Locks(u, h, s, w2)
  <2>1. \A r \in DOMAIN u.new \cap Rows : w2[r] = h BY <1>1 DEF Locks
  <2> QED BY <2>1, <1>1, <1>4, <1>5 DEF Locks
<1>7. \A v \in Variants : Seen(u, v, s) = Seen(t, v, s) BY <1>4, <1>5 DEF Seen
<1>8. CASE t.kind \in Ordering
  <2>1. Queue(u, s) /\ Count(u) = Len(Lines[t.order]) - Len(t.todo) + 1 BY <1>8, QueueTail
  <2>2. Trading(t) /\ Trading(u) BY <1>2, <1>8 DEF Trading
  <2>3. PICK n : n = Len(Lines[t.order]) - Len(t.todo) OBVIOUS
  <2>4. n \in Nat BY <2>3, <1>8, HeadIs
  <2>5. Tally(u, s)
    <3>1. CASE t.at = "write"
      <4>1. Count(t) = n + 1 /\ Count(u) = n + 1 BY <2>1, <2>3, <3>1 DEF Count
      <4> QED BY <4>1, <2>2, <1>1, <1>7 DEF Tally
    <3>2. CASE t.at = "loose"
      <4>1. Count(t) = n /\ Count(u) = Count(t) + 1
        <5>1. Count(t) = n + 0 BY <2>3, <3>2 DEF Count
        <5> QED BY <5>1, <2>1, <2>3, <2>4
      <4>2. PICK x : x = Lines[t.order][n + 1] OBVIOUS
      <4>3. x \in Variants /\ (Head(t.todo) = x \/ (Head(t.todo) = Null /\ s[x] = Gone))
        <5>1. t.at \in {"line", "loose", "sum", "write"} OBVIOUS
        <5>2. LET y == Lines[t.order][Len(Lines[t.order]) - Len(t.todo) + 1] IN
              y \in Variants /\ (Head(t.todo) = y \/ (Head(t.todo) = Null /\ s[y] = Gone))
          BY ONLY <5>1, <1>8, HeadIs, TxFits(t, h, s, w)
        <5> QED BY <5>2, <4>2, <2>3
      <4>4. Head(t.todo) = Null BY <1>1, <2>2, <3>2 DEF Queue
      <4>5. s[x] = Gone BY <4>3, <4>4, RowsApart
      <4> QED BY <4>1, <4>2, <4>5, <2>2, <2>4, <1>1, <1>7, TallyNext
    <3> QED BY <3>1, <3>2
  <2> QED BY <2>1, <2>5, <1>3, <1>6 DEF TxFits
<1>9. CASE t.kind \notin Ordering
  <2>1. ~Trading(u) BY <1>9 DEF Trading
  <2> QED BY <2>1, <1>3, <1>6 DEF TxFits, Queue, Tally
<1> QED BY <1>8, <1>9
-----------------------------------------------------------------------------
(* What a step does to the other transactions *)

\* Rows that a transaction has locked are not changed by another.
LEMMA OthersFit ==
    ASSUME NEW t, NEW g, NEW s, NEW w, TxFits(t, g, s, w), NEW s2, NEW w2,
           s \in [Variants -> Level], s2 \in [Variants -> Level],
           \A v \in Variants : s[v] = Gone => s2[v] = Gone,
           \A v \in Variants : s2[v] = s[v] \/ v \notin DOMAIN t.new,
           \A r \in Rows : w[r] = g => w2[r] = g
    PROVE  TxFits(t, g, s2, w2)
<1>1. TxTyped(t) /\ Locks(t, g, s, w) /\ Queue(t, s) /\ Tally(t, s) BY DEF TxFits
<1>2. Locks(t, g, s2, w2)
  <2>1. \A r \in DOMAIN t.new \cap Rows : w2[r] = g BY <1>1 DEF Locks
  <2>2. \A v \in DOMAIN t.new \cap Variants : t.new[v] \in Level /\ (s2[v] = Gone => t.new[v] = Gone)
    BY <1>1 DEF Locks
  <2> QED BY <2>1, <2>2 DEF Locks
<1>3. Queue(t, s2)
  <2>1. SUFFICES ASSUME Trading(t) PROVE Queue(t, s2) BY DEF Queue
  <2>2. t.order \in DOMAIN Lines BY <1>1, <2>1 DEF TxTyped, Trading
  <2>3. PICK n, k : n = Len(Lines[t.order]) /\ k = Len(t.todo) OBVIOUS
  <2>4. /\ t.todo \in Seq(Variants \cup {Null}) /\ k <= n /\ (t.todo = <<>> <=> t.at = "commit")
        /\ (t.at = "line" => Head(t.todo) # Null) /\ (t.at = "loose" => Head(t.todo) = Null)
        /\ \A j \in 1..k : \/ t.todo[j] = Lines[t.order][n - k + j]
                           \/ (t.todo[j] = Null /\ s[Lines[t.order][n - k + j]] = Gone)
    BY <1>1, <2>1, <2>3 DEF Queue
  <2>5. \A j \in 1..k : Lines[t.order][n - k + j] \in Variants
    <3>1. n \in Nat /\ \A i \in 1..n : Lines[t.order][i] \in Variants BY <2>2, <2>3, LinesTyped
    <3>2. k \in Nat BY <2>3, <2>4
    <3>3. \A j \in 1..k : n - k + j \in 1..n BY <2>4, <3>1, <3>2
    <3> QED BY <3>1, <3>3
  <2>6. \A j \in 1..k : \/ t.todo[j] = Lines[t.order][n - k + j]
                        \/ (t.todo[j] = Null /\ s2[Lines[t.order][n - k + j]] = Gone)
    BY <2>4, <2>5
  <2> QED BY <2>3, <2>4, <2>6 DEF Queue
<1>4. Tally(t, s2)
  <2>1. SUFFICES ASSUME Trading(t), NEW v \in Variants, s2[v] # Gone
                 PROVE  LET n == Cardinality(Units(t.order, Count(t), v)) IN
                        Seen(t, v, s2) = IF t.kind = "return" THEN s2[v] + n ELSE s2[v] - n
    BY DEF Tally
  <2>2. s[v] # Gone BY <2>1
  <2>3. PICK n : n = Cardinality(Units(t.order, Count(t), v)) OBVIOUS
  <2>4. Seen(t, v, s) = IF t.kind = "return" THEN s[v] + n ELSE s[v] - n
    BY <1>1, <2>1, <2>2, <2>3 DEF Tally
  <2>5. CASE s2[v] = s[v] BY <2>3, <2>4, <2>5 DEF Seen
  <2>6. CASE v \notin DOMAIN t.new
    <3>1. n \in Nat
      <4>1. Count(t) \in Nat
        <5>1. t.order \in DOMAIN Lines BY <1>1, <2>1 DEF TxTyped, Trading
        <5>2. PICK m, k : m = Len(Lines[t.order]) /\ k = Len(t.todo) OBVIOUS
        <5>3. t.todo \in Seq(Variants \cup {Null}) /\ k <= m BY <1>1, <2>1, <5>2 DEF Queue
        <5>4. m \in Nat /\ k \in Nat BY <5>1, <5>2, <5>3, LinesTyped
        <5>5. Count(t) = m - k + IF t.at \in {"sum", "write"} THEN 1 ELSE 0 BY <5>2 DEF Count
        <5> QED BY <5>3, <5>4, <5>5
      <4>2. PICK o, c : o = t.order /\ c = Count(t) OBVIOUS
      <4>3. Cardinality(Units(o, c, v)) \in Nat BY <4>1, <4>2, UnitsCount
      <4> QED BY <4>2, <4>3, <2>3
    <3>2. Seen(t, v, s) = s[v] /\ Seen(t, v, s2) = s2[v] BY <2>6 DEF Seen
    <3>3. s[v] \in Nat /\ s2[v] \in Nat BY <2>1, <2>2 DEF Level
    <3>4. n = 0 BY <2>4, <3>1, <3>2, <3>3
    <3> QED BY <2>3, <3>2, <3>3, <3>4
  <2> QED BY <2>1, <2>5, <2>6
<1> QED BY <1>1, <1>2, <1>3, <1>4 DEF TxFits

\* Who begins takes from the others only that they are alone.
LEMMA NotAloneFits ==
    ASSUME NEW t, NEW g, NEW s, NEW w, TxFits(t, g, s, w)
    PROVE  TxFits([t EXCEPT !.alone = FALSE], g, s, w)
<1> DEFINE u == [t EXCEPT !.alone = FALSE]
<1>1. Shaped(t) BY DEF TxFits, TxTyped
<1>2. /\ Shaped(u) /\ u.at = t.at /\ u.kind = t.kind /\ u.order = t.order
      /\ u.todo = t.todo /\ u.new = t.new
  BY <1>1 DEF Shaped, Fields
<1> HIDE DEF u
<1>3. TxTyped(u) /\ Locks(u, g, s, w) BY <1>2 DEF TxFits, TxTyped, Locks
<1>4. Queue(u, s) BY <1>2 DEF TxFits, Queue, Trading
<1>5. Count(u) = Count(t) /\ Trading(u) = Trading(t) /\ \A v : Seen(u, v, s) = Seen(t, v, s)
  BY <1>2 DEF Count, Trading, Seen
<1>6. Tally(u, s) BY <1>2, <1>5 DEF TxFits, Tally
<1> QED BY <1>3, <1>4, <1>6 DEF TxFits, u

\* One transaction's step, given that it fits itself.
LEMMA StepFits ==
    ASSUME ShelfTyped, AllFit, NEW h \in Sessions, TxFits(tx'[h], h, stock', owner'),
           stock' \in [Variants -> Level],
           \A g \in Sessions \ {h} : tx'[g] = tx[g] \/ tx'[g] = [tx[g] EXCEPT !.alone = FALSE],
           \A v \in Variants : stock[v] = Gone => stock'[v] = Gone,
           \A v \in Variants : stock'[v] = stock[v] \/ owner[v] = h,
           \A r \in Rows : owner'[r] = owner[r] \/ owner[r] \in {NoOne, h}
    PROVE  AllFit'
<1>1. ASSUME NEW g \in Sessions \ {h} PROVE TxFits(tx'[g], g, stock', owner')
  <2>1. TxFits(tx[g], g, stock, owner) BY DEF AllFit
  <2>2. g # NoOne BY RowsApart
  <2>3. \A r \in Rows : owner[r] = g => owner'[r] = g BY <2>2
  <2>4. \A v \in Variants : stock'[v] = stock[v] \/ v \notin DOMAIN tx[g].new
    <3>1. \A v \in Variants : v \in DOMAIN tx[g].new => owner[v] = g
      BY <2>1, RowsApart DEF TxFits, Locks
    <3> QED BY <3>1
  <2>5. stock \in [Variants -> Level] BY DEF ShelfTyped
  <2>6. TxFits(tx[g], g, stock', owner') BY <2>1, <2>3, <2>4, <2>5, OthersFit
  <2>7. CASE tx'[g] = tx[g] BY <2>6, <2>7
  <2>8. CASE tx'[g] = [tx[g] EXCEPT !.alone = FALSE] BY <2>6, <2>8, NotAloneFits
  <2> QED BY <2>7, <2>8
<1> QED BY <1>1 DEF AllFit

\* What a session owes does not depend on its being alone.
LEMMA SameKind ==
    ASSUME AllFit, NEW h \in Sessions, NEW g \in Sessions,
           \A f \in Sessions \ {h} : tx'[f] = tx[f] \/ tx'[f] = [tx[f] EXCEPT !.alone = FALSE],
           tx'[h].kind = "return" <=> tx[h].kind = "return",
           tx'[h].kind = "return" => tx'[h].order = tx[h].order
    PROVE  /\ tx'[g].kind = "return" <=> tx[g].kind = "return"
           /\ tx[g].kind = "return" => tx'[g].order = tx[g].order
<1>1. CASE g = h BY <1>1
<1>2. CASE g # h
  <2>1. Shaped(tx[g]) BY DEF AllFit, TxFits, TxTyped
  <2>2. tx'[g].kind = tx[g].kind /\ tx'[g].order = tx[g].order BY <1>2, <2>1 DEF Shaped, Fields
  <2> QED BY <2>2
<1> QED BY <1>1, <1>2

\* The common case: neither the shelf nor what is owed changes.
LEMMA QuietFits ==
    ASSUME UnitInv, NEW h \in Sessions, TxFits(tx'[h], h, stock, owner'),
           UNCHANGED <<stock, held, made, overwritten, form>>,
           tx' = [g \in Sessions |-> tx'[g]], owner' = [r \in Rows |-> owner'[r]],
           \A g \in Sessions \ {h} : tx'[g] = tx[g] \/ tx'[g] = [tx[g] EXCEPT !.alone = FALSE],
           \A r \in Rows : owner'[r] = owner[r] \/ owner[r] \in {NoOne, h},
           tx'[h].kind = "return" <=> tx[h].kind = "return",
           tx'[h].kind = "return" => tx'[h].order = tx[h].order
    PROVE  UnitInv'
<1>1. ShelfTyped /\ AllFit /\ Conserved BY DEF UnitInv
<1>2. stock \in [Variants -> Level] /\ ShelfTyped' BY <1>1 DEF ShelfTyped
<1>3. AllFit' BY <1>1, <1>2, StepFits
<1>4. Conserved'
  <2>1. ASSUME NEW g \in Sessions PROVE tx'[g].kind = "return" <=> tx[g].kind = "return"
    BY <1>1, SameKind
  <2>2. ASSUME NEW g \in Sessions, tx[g].kind = "return" PROVE tx'[g].order = tx[g].order
    BY <1>1, <2>2, SameKind
  <2>3. Returns' = Returns BY <2>1, <2>2 DEF Returns
  <2>4. Held' = Held BY DEF Held
  <2> QED BY <2>3, <2>4, <1>1 DEF Conserved
<1> QED BY <1>2, <1>3, <1>4 DEF UnitInv
-----------------------------------------------------------------------------
(* Requests *)

LEMMA ItemsAre ==
    ASSUME NEW o \in DOMAIN Lines
    PROVE  /\ Items(o) \in Seq(Variants \cup {Null}) /\ Len(Items(o)) = Len(Lines[o])
           /\ \A j \in 1..Len(Items(o)) : \/ Items(o)[j] = Lines[o][j]
                                          \/ Items(o)[j] = Null /\ stock[Lines[o][j]] = Gone
<1> DEFINE n == Len(Lines[o])
<1>1. n \in Nat /\ DOMAIN Lines[o] = 1..n /\ \A i \in 1..n : Lines[o][i] \in Variants BY LinesTyped
<1>2. Items(o) = [i \in 1..n |-> IF stock[Lines[o][i]] = Gone THEN Null ELSE Lines[o][i]]
  BY <1>1 DEF Items
<1> HIDE DEF n
<1>3. Items(o) \in [1..n -> Variants \cup {Null}] BY <1>1, <1>2
<1>4. Items(o) \in Seq(Variants \cup {Null}) BY <1>1, <1>3
<1>5. DOMAIN Items(o) = 1..n /\ Len(Items(o)) \in Nat /\ DOMAIN Items(o) = 1..Len(Items(o)) BY <1>3, <1>4
<1>6. Len(Items(o)) = n BY <1>1, <1>5
<1> QED BY <1>2, <1>4, <1>6 DEF n

LEMMA BegunIs ==
    ASSUME NEW h \in Sessions, NEW job, Begun(h, job)
    PROVE  /\ tx' = [g \in Sessions |-> tx'[g]]
           /\ \E b \in BOOLEAN : tx'[h] = [job EXCEPT !.alone = b]
           /\ \A g \in Sessions \ {h} : tx'[g] = tx[g] \/ tx'[g] = [tx[g] EXCEPT !.alone = FALSE]
BY DEF Begun

\* What a transaction of order o begins with.
Job(t, q, b) == [NextLine([t EXCEPT !.todo = q]) EXCEPT !.alone = b]
LEMMA JobIs ==
    ASSUME NEW t, Shaped(t), NEW q, NEW b, NEW u, u = Job(t, q, b)
    PROVE  /\ Shaped(u) /\ u.at = Label(q) /\ u.todo = q
           /\ u.kind = t.kind /\ u.order = t.order /\ u.new = t.new
<1> DEFINE job == [t EXCEPT !.todo = q]
<1>1. /\ Shaped(job) /\ job.todo = q
      /\ job.kind = t.kind /\ job.order = t.order /\ job.new = t.new
  BY DEF Shaped, Fields
<1> HIDE DEF job
<1> DEFINE next == NextLine(job)
<1>2. /\ Shaped(next) /\ next.at = Label(q) /\ next.todo = q
      /\ next.kind = t.kind /\ next.order = t.order /\ next.new = t.new
  BY <1>1, NextLineIs DEF Shaped, Fields
<1> HIDE DEF next
<1>3. u = [next EXCEPT !.alone = b] BY DEF next, job, Job
<1> QED BY <1>2, <1>3 DEF Shaped, Fields

\* An order's transaction that begins fits.
LEMMA TradeFits ==
    ASSUME UnitInv, NEW h \in Sessions, NEW t, Shaped(t), DOMAIN t.new = {},
           t.kind \in Ordering, t.order \in DOMAIN Lines, NEW q,
           Begun(h, NextLine([t EXCEPT !.todo = q])), UNCHANGED <<stock, held, made, overwritten, owner, form>>,
           t.kind = "return" <=> tx[h].kind = "return",
           t.kind = "return" => t.order = tx[h].order,
           q \in Seq(Variants \cup {Null}), Len(q) = Len(Lines[t.order]),
           \A j \in 1..Len(q) : q[j] = Lines[t.order][j] \/ (q[j] = Null /\ stock[Lines[t.order][j]] = Gone)
    PROVE  UnitInv'
<1>1. /\ tx' = [g \in Sessions |-> tx'[g]]
      /\ \A g \in Sessions \ {h} : tx'[g] = tx[g] \/ tx'[g] = [tx[g] EXCEPT !.alone = FALSE]
  BY BegunIs
<1>2. PICK b \in BOOLEAN : tx'[h] = [NextLine([t EXCEPT !.todo = q]) EXCEPT !.alone = b] BY BegunIs
<1>3. PICK u : u = tx'[h] OBVIOUS
<1>4. /\ Shaped(u) /\ u.at = Label(q) /\ u.todo = q
      /\ u.kind = t.kind /\ u.order = t.order /\ u.new = t.new
  <2>1. u = Job(t, q, b) BY <1>2, <1>3 DEF Job
  <2> QED BY <2>1, JobIs
<1>5. stock \in [Variants -> Level] /\ owner = [r \in Rows |-> owner[r]] BY DEF UnitInv, ShelfTyped
<1>6. TxFits(u, h, stock, owner') BY <1>4, <1>5, FreshFits
<1>7. \A r \in Rows : owner'[r] = owner[r] OBVIOUS
<1> QED BY <1>1, <1>3, <1>4, <1>5, <1>6, <1>7, QuietFits

LEMMA Idle ==
    ASSUME AllFit, NEW h \in Sessions, tx[h].at = "idle"
    PROVE  tx[h].kind = "none" /\ DOMAIN tx[h].new = {} /\ Shaped(tx[h])
BY DEF AllFit, TxFits, TxTyped

LEMMA Sales ==
    ASSUME UnitInv, NEW h \in Sessions, NEW o \in DOMAIN Lines, Checkout(h, o) \/ Revive(h, o)
    PROVE  UnitInv'
<1> DEFINE t == [NoTx EXCEPT !.kind = "reserve", !.order = o]
<1>1. /\ Shaped(t) /\ DOMAIN t.new = {} /\ t.kind = "reserve" /\ t.order = o
      /\ \A q : [t EXCEPT !.todo = q] = [NoTx EXCEPT !.kind = "reserve", !.order = o, !.todo = q]
  BY DEF NoTx, Shaped, Fields, Nothing
<1> HIDE DEF t
<1>2. tx[h].at = "idle" /\ UNCHANGED <<stock, held, made, overwritten, owner, form>>
  BY DEF Checkout, Revive, Requested, shelf
<1>3. tx[h].kind # "return" BY <1>2, Idle DEF UnitInv
<1>4. t.kind # "return" /\ t.kind \in Ordering BY <1>1 DEF Ordering
<1>5. CASE Checkout(h, o)
  <2>1. Begun(h, NextLine([t EXCEPT !.todo = Lines[o]])) BY <1>1, <1>5 DEF Checkout
  <2>2. Lines[o] \in Seq(Variants \cup {Null}) BY LinesTyped
  <2> QED BY <2>1, <2>2, <1>1, <1>2, <1>3, <1>4, TradeFits
<1>6. CASE Revive(h, o)
  <2>1. Begun(h, NextLine([t EXCEPT !.todo = Items(o)])) BY <1>1, <1>6 DEF Revive
  <2>2. /\ Items(o) \in Seq(Variants \cup {Null}) /\ Len(Items(o)) = Len(Lines[o])
        /\ \A j \in 1..Len(Items(o)) : \/ Items(o)[j] = Lines[o][j]
                                       \/ Items(o)[j] = Null /\ stock[Lines[o][j]] = Gone
    BY ItemsAre
  <2>3. Begun(h, NextLine([t EXCEPT !.todo = Items(o)])) /\ Shaped(t) BY <2>1, <1>1
  <2>4. DOMAIN t.new = {} /\ t.kind = "reserve" /\ t.order = o BY <1>1
  <2>5. PICK q : q = Items(o) OBVIOUS
  <2> QED BY <2>5, <2>2, <2>3, <2>4, <1>2, <1>3, <1>4, TradeFits
<1> QED BY <1>5, <1>6

LEMMA ReturnBegins == ASSUME UnitInv, NEW h \in Sessions, ReadItems(h) PROVE UnitInv'
<1>1. tx[h].at = "items" /\ UNCHANGED <<stock, held, made, overwritten, owner, form>>
  BY DEF ReadItems, shelf
<1>2. Shaped(tx[h]) /\ tx[h].kind = "return" /\ DOMAIN tx[h].new = {} /\ tx[h].order \in DOMAIN Lines
  BY <1>1 DEF UnitInv, AllFit, TxFits, TxTyped, Ordering
<1>3. Begun(h, NextLine([tx[h] EXCEPT !.todo = Items(tx[h].order)])) BY DEF ReadItems
<1>4. tx[h].kind \in Ordering BY <1>2 DEF Ordering
<1> QED BY <1>1, <1>2, <1>3, <1>4, ItemsAre, TradeFits

\* Who lets an order go owes its units to the shelf.
LEMMA LetGo == ASSUME UnitInv, NEW h \in Sessions, NEW o \in DOMAIN Lines, GiveBack(h, o) PROVE UnitInv'
<1>1. /\ o \in held /\ tx[h].at = "idle" /\ held' = held \ {o}
      /\ UNCHANGED <<stock, shown, made, overwritten, owner, form>>
      /\ tx' = [tx EXCEPT ![h] = [NoTx EXCEPT !.at = "items", !.kind = "return", !.order = o]]
  BY DEF GiveBack, MayGiveBack, Requested
<1>2. ShelfTyped /\ AllFit /\ Conserved BY DEF UnitInv
<1> DEFINE u == [NoTx EXCEPT !.at = "items", !.kind = "return", !.order = o]
<1>3. Shaped(u) /\ u.at = "items" /\ u.kind = "return" /\ u.order = o /\ DOMAIN u.new = {}
  BY DEF NoTx, Shaped, Fields, Nothing
<1> HIDE DEF u
<1>4. tx' = [tx EXCEPT ![h] = u] BY <1>1 DEF u
<1>5. tx = [g \in Sessions |-> tx[g]] BY <1>2 DEF ShelfTyped
<1>6. tx'[h] = u /\ tx' = [g \in Sessions |-> tx'[g]] /\ \A g \in Sessions \ {h} : tx'[g] = tx[g] BY <1>4, <1>5
<1>7. ShelfTyped' BY <1>1, <1>2, <1>6 DEF ShelfTyped
<1>8. TxFits(u, h, stock', owner')
  <2>1. TxTyped(u) BY <1>3 DEF TxTyped
  <2>2. ~Trading(u) BY <1>3 DEF Trading
  <2> QED BY <2>1, <2>2, <1>3 DEF TxFits, Locks, Queue, Tally
<1>9. AllFit'
  <2>1. stock' \in [Variants -> Level] BY <1>7 DEF ShelfTyped
  <2> QED BY <2>1, <1>1, <1>2, <1>6, <1>8, StepFits
<1>10. Conserved'
  <2>1. tx[h].kind # "return" BY <1>1, <1>2, Idle
  <2>2. h \notin DOMAIN Returns /\ DOMAIN Returns' = DOMAIN Returns \cup {h} BY <2>1, <1>3, <1>6 DEF Returns
  <2>3. Returns'[h] = o /\ \A g \in DOMAIN Returns : Returns'[g] = Returns[g]
    BY <2>1, <2>2, <1>3, <1>6 DEF Returns
  <2>4. /\ o \notin DOMAIN Held' /\ DOMAIN Held = DOMAIN Held' \cup {o} /\ Held[o] = o
        /\ \A p \in DOMAIN Held' : Held[p] = Held'[p]
    BY <1>1 DEF Held
  <2>5. PICK back, kept, owed, had : back = Returns' /\ kept = Held' /\ owed = Returns /\ had = Held
    OBVIOUS
  <2>6. ASSUME NEW v \in Variants
        PROVE  /\ IsFiniteSet(Claims(kept, v)) /\ IsFiniteSet(Claims(back, v))
               /\ Cardinality(Claims(kept, v)) + Cardinality(Claims(back, v))
                    = Cardinality(Claims(Held, v)) + Cardinality(Claims(Returns, v))
               /\ Cardinality(Claims(kept, v)) \in Nat /\ Cardinality(Claims(back, v)) \in Nat
               /\ Cardinality(Claims(Held, v)) \in Nat /\ Cardinality(Claims(Returns, v)) \in Nat
    <3>1. IsFiniteSet(Claims(Held, v)) /\ IsFiniteSet(Claims(Returns, v)) BY <1>2 DEF Conserved
    <3>2. PICK n : n = Cardinality(Units(o, Len(Lines[o]), v)) OBVIOUS
    <3>3. n \in Nat BY <3>2, UnitsCount, LinesTyped
    <3>4. /\ IsFiniteSet(Claims(kept, v)) /\ Cardinality(Claims(kept, v)) \in Nat
          /\ Cardinality(Claims(Held, v)) = Cardinality(Claims(kept, v)) + n
      <4>1. /\ o \notin DOMAIN kept /\ DOMAIN had = DOMAIN kept \cup {o} /\ had[o] = o
            /\ \A p \in DOMAIN kept : had[p] = kept[p]
        BY <2>4, <2>5
      <4>2. IsFiniteSet(Claims(had, v)) BY <2>5, <3>1
      <4>3. /\ IsFiniteSet(Claims(kept, v)) /\ Cardinality(Claims(kept, v)) \in Nat
            /\ Cardinality(Claims(had, v)) = Cardinality(Claims(kept, v)) + n
        BY <4>1, <4>2, <3>2, ClaimAdded
      <4> QED BY <4>1, <4>3, <3>2, <2>5
    <3>5. /\ IsFiniteSet(Claims(back, v)) /\ Cardinality(Claims(Returns, v)) \in Nat
          /\ Cardinality(Claims(back, v)) = Cardinality(Claims(Returns, v)) + n
      <4>1. /\ h \notin DOMAIN owed /\ DOMAIN back = DOMAIN owed \cup {h} /\ back[h] = o
            /\ \A g \in DOMAIN owed : back[g] = owed[g]
        BY <2>2, <2>3, <2>5
      <4>2. IsFiniteSet(Claims(owed, v)) BY <2>5, <3>1
      <4>3. /\ IsFiniteSet(Claims(back, v)) /\ Cardinality(Claims(owed, v)) \in Nat
            /\ Cardinality(Claims(back, v)) = Cardinality(Claims(owed, v)) + n
        BY <4>1, <4>2, <3>2, ClaimAdded
      <4> QED BY <4>1, <4>3, <3>2, <2>5
    <3> QED BY <3>1, <3>3, <3>4, <3>5
  <2>7. ASSUME NEW v \in Variants
        PROVE  /\ IsFiniteSet(Claims(Held, v))' /\ IsFiniteSet(Claims(Returns, v))'
               /\ v \notin overwritten' /\ stock'[v] # Gone =>
                    stock'[v] + Cardinality(Claims(Held, v))' + Cardinality(Claims(Returns, v))' <= Shelf[v]
    <3>1. v \notin overwritten /\ stock[v] # Gone =>
            stock[v] + Cardinality(Claims(Held, v)) + Cardinality(Claims(Returns, v)) <= Shelf[v]
      BY <1>2 DEF Conserved
    <3>2. stock[v] # Gone => stock[v] \in Nat BY <1>2 DEF ShelfTyped, Level
    <3>3. Shelf[v] \in Nat BY ShelfIsStocked
    <3>4. v \notin overwritten /\ stock[v] # Gone =>
            stock[v] + Cardinality(Claims(kept, v)) + Cardinality(Claims(back, v)) <= Shelf[v]
      BY <3>1, <3>2, <3>3, <2>6
    <3> QED BY <3>4, <2>5, <2>6, <1>1
  <2> QED BY <2>7 DEF Conserved
<1> QED BY <1>7, <1>9, <1>10 DEF UnitInv
-----------------------------------------------------------------------------
(* Statements *)

LEMMA ViewIsSeen ==
    ASSUME NEW h, NEW v \in Variants
    PROVE  View(h, v) = Seen(tx[h], v, stock)
BY RowsApart DEF View, Seen, Committed

\* A statement changes the transaction to u and may lock one row.
LEMMA StatementFits ==
    ASSUME UnitInv, NEW h \in Sessions, NEW u, tx' = [tx EXCEPT ![h] = u],
           u.kind = tx[h].kind, u.order = tx[h].order, TxFits(u, h, stock, owner'),
           UNCHANGED <<stock, held, made, overwritten, form>>,
           \/ owner' = owner
           \/ \E r : Free(h, r) /\ Lock(h, r)
    PROVE  UnitInv'
<1>1. tx = [g \in Sessions |-> tx[g]] /\ owner = [r \in Rows |-> owner[r]] BY DEF UnitInv, ShelfTyped
<1>2. tx'[h] = u /\ tx' = [g \in Sessions |-> tx'[g]] /\ \A g \in Sessions \ {h} : tx'[g] = tx[g] BY <1>1
<1>3. /\ owner' = [r \in Rows |-> owner'[r]]
      /\ \A r \in Rows : owner'[r] = owner[r] \/ owner[r] \in {NoOne, h}
  <2>1. CASE owner' = owner BY <2>1, <1>1
  <2>2. CASE \E r : Free(h, r) /\ Lock(h, r) BY <2>2, <1>1 DEF Free, Lock
  <2> QED BY <2>1, <2>2
<1> QED BY <1>2, <1>3, QuietFits

LEMMA UpdateOfLine == ASSUME UnitInv, NEW h \in Sessions, Line(h) PROVE UnitInv'
<1> DEFINE t == tx[h]
<1>1. PICK x : x = Head(t.todo) OBVIOUS
<1>2. PICK n : n = View(h, x) OBVIOUS
<1>3. /\ t.at = "line" /\ Free(h, x) /\ (t.kind = "reserve" => n >= 1)
      /\ UNCHANGED <<stock, held, made, overwritten, form>>
      /\ IF n = Gone
         THEN t.kind = "return" /\ tx' = [tx EXCEPT ![h] = AfterLine(t)] /\ UNCHANGED owner
         ELSE /\ Lock(h, x)
              /\ tx' = [tx EXCEPT ![h] = AfterLine([t EXCEPT !.new = Overlay(h, x, Written(h, x))])]
  BY <1>1, <1>2 DEF Line, Enough, shelf
<1>4. /\ TxFits(t, h, stock, owner) /\ stock \in [Variants -> Level] /\ form.stock \in [Variants -> Level]
      /\ Shaped(t) /\ owner = [r \in Rows |-> owner[r]]
  BY DEF UnitInv, AllFit, ShelfTyped, TxFits, TxTyped
<1> DEFINE new == Overlay(h, x, Written(h, x))
<1>5. /\ DOMAIN new = DOMAIN t.new \cup {x} /\ new[x] = Written(h, x)
      /\ \A r \in DOMAIN t.new \ {x} : new[r] = t.new[r]
  <2>1. PICK k : k = Written(h, x) OBVIOUS
  <2>2. /\ DOMAIN Overlay(h, x, k) = DOMAIN tx[h].new \cup {x} /\ Overlay(h, x, k)[x] = k
        /\ \A r \in DOMAIN tx[h].new \ {x} : Overlay(h, x, k)[r] = tx[h].new[r]
    BY DEF Overlay
  <2>3. new = Overlay(h, x, k) BY <2>1
  <2> QED BY <2>1, <2>2, <2>3
<1> HIDE DEF new
<1> DEFINE job == IF n = Gone THEN t ELSE [t EXCEPT !.new = new]
<1>6. /\ Shaped(job) /\ job.at = t.at /\ job.kind = t.kind /\ job.order = t.order /\ job.todo = t.todo
      /\ job.new = IF n = Gone THEN t.new ELSE new
  BY <1>4 DEF Shaped, Fields
<1>7. tx' = [tx EXCEPT ![h] = AfterLine(job)] BY <1>3 DEF new
<1> HIDE DEF job, t
<1>8. t.kind \in {"reserve", "return", "save"} BY <1>3, <1>4 DEF TxFits, TxTyped
<1>9. CASE t.kind \in Ordering
  <2> DEFINE u == [job EXCEPT !.at = "sum"]
  <2>1. /\ Shaped(u) /\ u.at = "sum" /\ u.kind = t.kind /\ u.order = t.order /\ u.todo = t.todo
        /\ u.new = job.new
    BY <1>6 DEF Shaped, Fields
  <2>2. AfterLine(job) = u BY <1>6, <1>9 DEF AfterLine, Ordering
  <2> HIDE DEF u
  <2>3. x \in Variants /\ x # Product
    <3>1. Head(t.todo) # Null BY <1>3, <1>4, <1>9 DEF TxFits, Queue, Trading
    <3>2. LET y == Lines[t.order][Len(Lines[t.order]) - Len(t.todo) + 1] IN
          y \in Variants /\ (Head(t.todo) = y \/ (Head(t.todo) = Null /\ stock[y] = Gone))
      BY <1>3, <1>4, <1>9, HeadIs
    <3> QED BY <3>1, <3>2, <1>1, RowsApart DEF t
  <2>4. n = Seen(t, x, stock) BY <2>3, <1>2, ViewIsSeen DEF t
  <2>5. CASE n = Gone
    <3>1. t.kind = "return" /\ owner' = owner /\ u.new = t.new BY <2>5, <1>3, <2>1, <1>6 DEF t
    <3>2. TxFits(u, h, stock, owner')
      BY <3>1, <2>1, <2>4, <2>5, <1>1, <1>3, <1>4, <1>9, LineFits DEF t
    <3>3. tx' = [tx EXCEPT ![h] = u] BY <1>7, <2>2
    <3> QED BY <3>1, <3>2, <3>3, <2>1, <1>3, StatementFits DEF t
  <2>6. CASE n # Gone
    <3>1. Lock(h, x) /\ u.new = new BY <2>6, <1>3, <2>1, <1>6
    <3>2. owner'[x] = h /\ \A r \in Rows \ {x} : owner'[r] = owner[r]
      BY <3>1, <2>3, <1>4, RowsApart DEF Lock
    <3>3. new[x] = IF t.kind = "return" THEN n + 1 ELSE n - 1
      BY <1>2, <1>5, <1>9 DEF Written, Ordering, t
    <3>4. TxFits(u, h, stock, owner')
      <4>1. /\ DOMAIN u.new = DOMAIN t.new \cup {x}
            /\ u.new[x] = IF t.kind = "return" THEN Seen(t, x, stock) + 1 ELSE Seen(t, x, stock) - 1
            /\ \A r \in DOMAIN t.new \ {x} : u.new[r] = t.new[r]
        BY <3>1, <3>3, <1>5, <2>4 DEF t
      <4>2. Seen(t, x, stock) # Gone /\ (t.kind = "reserve" => Seen(t, x, stock) >= 1)
        BY <2>4, <2>6, <1>3 DEF t
      <4>3. PICK w : w = owner' OBVIOUS
      <4>4. w[x] = h /\ \A r \in Rows \ {x} : w[r] = owner[r] BY <3>2, <4>3
      <4>5. TxFits(u, h, stock, w)
        BY <4>1, <4>2, <4>4, <2>1, <1>1, <1>3, <1>4, <1>9, LineFits DEF t
      <4> QED BY <4>3, <4>5
    <3>5. tx' = [tx EXCEPT ![h] = u] BY <1>7, <2>2
    <3> QED BY <3>1, <3>4, <3>5, <2>1, <1>3, StatementFits DEF t
  <2> QED BY <2>5, <2>6
<1>10. CASE t.kind = "save"
  <2>1. n # Gone /\ job.new = new /\ Lock(h, x) BY <1>3, <1>6, <1>10 DEF t
  <2> DEFINE tail == [job EXCEPT !.todo = Tail(job.todo)]
  <2> DEFINE u == IF Tail(job.todo) = <<>> THEN [job EXCEPT !.at = "sum"] ELSE NextLine(tail)
  <2>2. AfterLine(job) = u BY <1>6, <1>10 DEF AfterLine
  <2>3. /\ Shaped(u) /\ u.kind = "save" /\ u.order = t.order /\ u.new = new
        /\ u.at \in {"line", "loose", "sum", "commit"}
    <3>1. CASE Tail(job.todo) = <<>>
      <4>1. u = [job EXCEPT !.at = "sum"] BY <3>1
      <4> HIDE DEF u
      <4> QED BY <4>1, <1>6, <1>10, <2>1 DEF Shaped, Fields
    <3>2. CASE Tail(job.todo) # <<>>
      <4>1. Shaped(tail) /\ tail.kind = "save" /\ tail.order = t.order /\ tail.new = new
        BY <1>6, <1>10, <2>1 DEF Shaped, Fields
      <4>2. u = NextLine(tail) BY <3>2
      <4> HIDE DEF u, tail
      <4>3. PICK a : a = Label(tail.todo) OBVIOUS
      <4>4. u = [tail EXCEPT !.at = a] /\ a \in {"line", "loose", "commit"}
        BY <4>2, <4>3, NextLineIs, LabelKnown
      <4> QED BY <4>1, <4>4 DEF Shaped, Fields
    <3> QED BY <3>1, <3>2
  <2> HIDE DEF u
  <2>4. owner' = [owner EXCEPT ![x] = h] /\ (x \in Rows => owner'[x] = h)
        /\ \A r \in Rows \ {x} : owner'[r] = owner[r]
    BY <2>1, <1>4 DEF Lock
  <2>5. Locks(u, h, stock, owner')
    <3>1. Locks(t, h, stock, owner) BY <1>4 DEF TxFits, t
    <3>2. \A r \in DOMAIN u.new \cap Rows : owner'[r] = h BY <3>1, <2>3, <2>4, <1>5 DEF Locks, t
    <3>3. ASSUME NEW v \in DOMAIN u.new \cap Variants
          PROVE  u.new[v] \in Level /\ (stock[v] = Gone => u.new[v] = Gone)
      <4>1. CASE v = x
        <5>1. u.new[v] = form.stock[v] BY <4>1, <2>3, <1>5, <1>10 DEF Written, t
        <5>2. stock[v] # Gone
          <6>1. n = Seen(t, v, stock) BY <4>1, <1>2, ViewIsSeen DEF t
          <6> QED BY <6>1, <2>1, <3>1 DEF Seen, Locks
        <5> QED BY <5>1, <5>2, <1>4
      <4>2. CASE v # x BY <4>2, <2>3, <1>5, <3>1 DEF Locks, t
      <4> QED BY <4>1, <4>2
    <3> QED BY <3>2, <3>3 DEF Locks
  <2>6. TxFits(u, h, stock, owner')
    <3>1. PICK w : w = owner' OBVIOUS
    <3> QED BY <3>1, <2>3, <2>5, SaveFits
  <2>7. tx' = [tx EXCEPT ![h] = u] BY <1>7, <2>2
  <2> QED BY <2>1, <2>3, <2>6, <2>7, <1>3, <1>10, StatementFits DEF t
<1> QED BY <1>8, <1>9, <1>10 DEF Ordering
LEMMA SumOfRows == ASSUME UnitInv, NEW h \in Sessions, ReadSum(h) PROVE UnitInv'
<1> DEFINE t == tx[h]
<1>1. PICK m : m = Sum([v \in Variants |-> View(h, v)]) OBVIOUS
<1>2. /\ t.at = "sum" /\ UNCHANGED <<stock, held, made, overwritten, owner, form>>
      /\ tx' = [tx EXCEPT ![h] = [t EXCEPT !.at = "write", !.sum = m]]
  BY <1>1 DEF ReadSum, shelf
<1>3. TxFits(t, h, stock, owner) /\ Shaped(t) BY DEF UnitInv, AllFit, TxFits, TxTyped
<1> DEFINE u == [t EXCEPT !.at = "write", !.sum = m]
<1>4. /\ Shaped(u) /\ u.at = "write" /\ u.kind = t.kind /\ u.order = t.order /\ u.todo = t.todo /\ u.new = t.new
  BY <1>3 DEF Shaped, Fields
<1>5. tx' = [tx EXCEPT ![h] = u] BY <1>2
<1> HIDE DEF u, t
<1>6. TxFits(u, h, stock, owner') BY <1>2, <1>3, <1>4, SumFits
<1> QED BY <1>2, <1>4, <1>5, <1>6, StatementFits DEF t

LEMMA WritesOfProduct == ASSUME UnitInv, NEW h \in Sessions, WriteSum(h) \/ LooseLine(h) PROVE UnitInv'
<1> DEFINE t == tx[h]
<1>1. /\ t.at \in {"write", "loose"} /\ Free(h, Product) /\ Lock(h, Product)
      /\ UNCHANGED <<stock, held, made, overwritten, form>>
  BY DEF WriteSum, LooseLine, shelf
<1>2. /\ TxFits(t, h, stock, owner) /\ Shaped(t) /\ stock \in [Variants -> Level]
      /\ owner = [r \in Rows |-> owner[r]]
  BY DEF UnitInv, AllFit, ShelfTyped, TxFits, TxTyped
<1>3. \E q, m, b :
        /\ tx' = [tx EXCEPT ![h] = NextLine([t EXCEPT !.todo = q, !.alone = b, !.new = Overlay(h, Product, m)])]
        /\ t.kind \in Ordering => q = Tail(t.todo)
  <2>1. CASE WriteSum(h)
    <3> DEFINE q == IF t.todo = <<>> THEN t.todo ELSE Tail(t.todo)
    <3>1. tx' = [tx EXCEPT ![h] = NextLine([[t EXCEPT !.todo = q]
                   EXCEPT !.new = Overlay(h, Product, [t EXCEPT !.todo = q].sum)])]
      BY <2>1 DEF WriteSum, SyncsAfter
    <3>2. [t EXCEPT !.todo = q].sum = t.sum BY <1>2 DEF Shaped, Fields
    <3>3. [[t EXCEPT !.todo = q] EXCEPT !.new = Overlay(h, Product, t.sum)]
            = [t EXCEPT !.todo = q, !.alone = t.alone, !.new = Overlay(h, Product, t.sum)]
      BY <1>2 DEF Shaped, Fields
    <3>4. t.kind \in Ordering => t.todo # <<>> /\ q = Tail(t.todo)
      <4>1. t.at = "write" BY <2>1 DEF WriteSum
      <4>2. t.kind \in Ordering => t.todo # <<>> BY <4>1, <1>2 DEF TxFits, Queue, Trading
      <4> QED BY <4>2
    <3> HIDE DEF t, q
    <3>5. tx' = [tx EXCEPT ![h] = NextLine([t EXCEPT !.todo = q, !.alone = t.alone,
                                              !.new = Overlay(h, Product, t.sum)])]
      BY <3>1, <3>2, <3>3
    <3> QED BY <3>4, <3>5
  <2>2. CASE LooseLine(h)
    <3> DEFINE m == IF t.kind = "return" THEN View(h, Product) + 1 ELSE View(h, Product) - 1
    <3>1. tx' = [tx EXCEPT ![h] = NextLine([t EXCEPT !.todo = Tail(t.todo), !.alone = FALSE,
                                              !.new = Overlay(h, Product, m)])]
      BY <2>2 DEF LooseLine
    <3> HIDE DEF m
    <3> QED BY <3>1
  <2> QED BY <2>1, <2>2
<1>4. PICK q, m, b :
        /\ tx' = [tx EXCEPT ![h] = NextLine([t EXCEPT !.todo = q, !.alone = b, !.new = Overlay(h, Product, m)])]
        /\ t.kind \in Ordering => q = Tail(t.todo)
  BY <1>3
<1> DEFINE new == Overlay(h, Product, m)
<1>5. DOMAIN new = DOMAIN t.new \cup {Product} /\ \A r \in DOMAIN t.new \ {Product} : new[r] = t.new[r]
  BY DEF Overlay
<1> HIDE DEF new
<1> DEFINE job == [t EXCEPT !.todo = q, !.alone = b, !.new = new]
<1>6. /\ Shaped(job) /\ job.kind = t.kind /\ job.order = t.order /\ job.todo = q /\ job.new = new
  BY <1>2 DEF Shaped, Fields
<1> DEFINE u == NextLine(job)
<1>7. tx' = [tx EXCEPT ![h] = u] BY <1>4 DEF new
<1> HIDE DEF job
<1>8. u = [job EXCEPT !.at = Label(job.todo)] BY NextLineIs
<1> HIDE DEF u
<1>9. /\ Shaped(u) /\ u.kind = t.kind /\ u.order = t.order /\ u.todo = q /\ u.new = new /\ u.at = Label(q)
  BY <1>6, <1>8 DEF Shaped, Fields
<1>10. owner'[Product] = h /\ \A r \in Rows \ {Product} : owner'[r] = owner[r]
  BY <1>1, <1>2, RowsApart DEF Lock
<1> HIDE DEF t
<1>11. TxFits(u, h, stock, owner')
  <2>1. PICK w : w = owner' OBVIOUS
  <2>2. w[Product] = h /\ \A r \in Rows \ {Product} : w[r] = owner[r] BY <2>1, <1>10
  <2>3. DOMAIN u.new = DOMAIN t.new \cup {Product} /\ \A r \in DOMAIN t.new \ {Product} : u.new[r] = t.new[r]
    BY <1>5, <1>9
  <2>4. u.at = Label(u.todo) /\ (t.kind \in Ordering => u.todo = Tail(t.todo)) BY <1>4, <1>9
  <2>5. PICK s, v : s = stock /\ v = owner OBVIOUS
  <2>6. TxFits(t, h, s, v) /\ s \in [Variants -> Level] /\ \A r \in Rows \ {Product} : w[r] = v[r]
    BY <2>2, <2>5, <1>2 DEF t
  <2>7. t.at \in {"write", "loose"} BY <1>1
  <2>8. Shaped(u) /\ u.kind = t.kind /\ u.order = t.order BY <1>9
  <2>9. TxFits(u, h, s, w) BY <2>2, <2>3, <2>4, <2>6, <2>7, <2>8, ProductFits
  <2> QED BY <2>1, <2>5, <2>9
<1> QED BY <1>1, <1>7, <1>9, <1>11, StatementFits DEF t

LEMMA Saves == ASSUME UnitInv, NEW h \in Sessions, Save(h) PROVE UnitInv'
<1>1. PICK kept :
        LET gone == {v \in Variants : form.stock[v] # Gone} \ kept IN
        /\ tx[h].at = "idle" /\ \A v \in gone : Free(h, v)
        /\ owner' = [r \in Rows |-> IF r \in gone THEN h ELSE owner[r]]
        /\ Begun(h, [NoTx EXCEPT !.at = "line", !.kind = "save", !.todo = SetToSeq(kept),
                                 !.new = [r \in gone |-> Gone]])
        /\ UNCHANGED <<stock, held, made, overwritten, form>>
  BY DEF Save, Requested, shelf
<1> DEFINE gone == {v \in Variants : form.stock[v] # Gone} \ kept
<1> DEFINE job == [NoTx EXCEPT !.at = "line", !.kind = "save", !.todo = SetToSeq(kept), !.new = [r \in gone |-> Gone]]
<1>2. gone \subseteq Variants OBVIOUS
<1>3. /\ tx[h].at = "idle" /\ \A v \in gone : Free(h, v)
      /\ owner' = [r \in Rows |-> IF r \in gone THEN h ELSE owner[r]]
      /\ UNCHANGED <<stock, held, made, overwritten, form>> /\ Begun(h, job)
  BY <1>1
<1> HIDE DEF gone
<1>4. /\ Shaped(job) /\ job.at = "line" /\ job.kind = "save"
      /\ DOMAIN job.new = gone /\ \A r \in gone : job.new[r] = Gone
  BY DEF NoTx, Shaped, Fields
<1> HIDE DEF job
<1>5. /\ tx' = [g \in Sessions |-> tx'[g]]
      /\ \A g \in Sessions \ {h} : tx'[g] = tx[g] \/ tx'[g] = [tx[g] EXCEPT !.alone = FALSE]
  BY <1>3, BegunIs
<1>6. PICK b \in BOOLEAN : tx'[h] = [job EXCEPT !.alone = b] BY <1>3, BegunIs
<1>7. PICK u, w : u = tx'[h] /\ w = owner' OBVIOUS
<1>8. /\ Shaped(u) /\ u.at = "line" /\ u.kind = "save" /\ u.new = job.new
  BY <1>4, <1>6, <1>7 DEF Shaped, Fields
<1>9. Locks(u, h, stock, w)
  <2>1. \A r \in gone \cap Rows : w[r] = h BY <1>3, <1>7
  <2> QED BY <2>1, <1>4, <1>8 DEF Locks, Level
<1>10. TxFits(u, h, stock, w) BY <1>8, <1>9, SaveFits
<1>11. /\ owner' = [r \in Rows |-> owner'[r]]
       /\ \A r \in Rows : owner'[r] = owner[r] \/ owner[r] \in {NoOne, h}
  BY <1>3 DEF Free
<1>12. tx[h].kind # "return" /\ tx'[h].kind # "return"
  BY <1>3, <1>7, <1>8, Idle DEF UnitInv
<1> QED BY <1>3, <1>5, <1>7, <1>10, <1>11, <1>12, QuietFits

LEMMA FormIsOpened == ASSUME UnitInv, OpenForm PROVE UnitInv'
<1>1. UNCHANGED <<stock, held, made, overwritten, owner, tx>> /\ form' = [open |-> TRUE, stock |-> stock]
  BY DEF OpenForm, shelf
<1>2. ShelfTyped' BY <1>1 DEF UnitInv, ShelfTyped
<1>3. AllFit' BY <1>1 DEF UnitInv, AllFit
<1>4. Held' = Held /\ Returns' = Returns BY <1>1 DEF Held, Returns
<1>5. Conserved' BY <1>1, <1>4 DEF UnitInv, Conserved
<1> QED BY <1>2, <1>3, <1>5 DEF UnitInv

-----------------------------------------------------------------------------
(* The end of a transaction *)

\* It leaves its rows and its lines, and owes nothing.
LEMMA EndFits ==
    ASSUME UnitInv, NEW h \in Sessions, Unlock(h), tx' = [tx EXCEPT ![h] = NoTx], ShelfTyped',
           \A v \in Variants : stock[v] = Gone => stock'[v] = Gone,
           \A v \in Variants : stock'[v] = stock[v] \/ owner[v] = h
    PROVE  /\ AllFit'
           /\ tx'[h].kind = "none" /\ \A g \in Sessions \ {h} : tx'[g] = tx[g]
<1>1. tx = [g \in Sessions |-> tx[g]] BY DEF UnitInv, ShelfTyped
<1>2. tx'[h] = NoTx /\ \A g \in Sessions \ {h} : tx'[g] = tx[g] BY <1>1
<1>3. TxFits(tx'[h], h, stock', owner') BY <1>2, IdleFits
<1>4. \A r \in Rows : owner'[r] = owner[r] \/ owner[r] \in {NoOne, h} BY DEF Unlock, Mine
<1>5. stock' \in [Variants -> Level] BY DEF ShelfTyped
<1>6. AllFit' BY <1>2, <1>3, <1>4, <1>5, StepFits DEF UnitInv
<1> QED BY <1>2, <1>6 DEF NoTx

\* What h owed at most is not owed any more.
LEMMA OwesLess ==
    ASSUME UnitInv, NEW h \in Sessions, tx'[h].kind = "none", \A g \in Sessions \ {h} : tx'[g] = tx[g],
           NEW v \in Variants
    PROVE  LET n == Cardinality(Units(tx[h].order, Len(Lines[tx[h].order]), v)) IN
           /\ IsFiniteSet(Claims(Returns', v))
           /\ Cardinality(Claims(Returns', v)) \in Nat /\ Cardinality(Claims(Returns, v)) \in Nat
           /\ Cardinality(Claims(Returns', v)) <= Cardinality(Claims(Returns, v))
           /\ tx[h].kind = "return" =>
                n \in Nat /\ Cardinality(Claims(Returns, v)) = Cardinality(Claims(Returns', v)) + n
<1>1. PICK back, owed, o : back = Returns' /\ owed = Returns /\ o = tx[h].order OBVIOUS
<1>2. PICK n : n = Cardinality(Units(o, Len(Lines[o]), v)) OBVIOUS
<1>3. IsFiniteSet(Claims(owed, v)) /\ Cardinality(Claims(owed, v)) \in Nat
  BY <1>1, FS_CardinalityType DEF UnitInv, Conserved
<1>4. CASE tx[h].kind = "return"
  <2>1. h \notin DOMAIN back /\ DOMAIN owed = DOMAIN back \cup {h} BY <1>1, <1>4 DEF Returns
  <2>2. owed[h] = o /\ \A g \in DOMAIN back : owed[g] = back[g] BY <1>1, <1>4 DEF Returns
  <2>3. o \in DOMAIN Lines BY <1>1, <1>4 DEF UnitInv, AllFit, TxFits, TxTyped, Ordering
  <2>4. /\ IsFiniteSet(Claims(back, v)) /\ Cardinality(Claims(back, v)) \in Nat
        /\ Cardinality(Claims(owed, v)) = Cardinality(Claims(back, v)) + n
    BY <2>1, <2>2, <2>3, <1>2, <1>3, ClaimAdded
  <2>5. n \in Nat BY <2>3, <1>2, UnitsCount, LinesTyped
  <2> QED BY <2>4, <2>5, <1>1, <1>2, <1>3
<1>5. CASE tx[h].kind # "return"
  <2>1. Returns' = Returns BY <1>5 DEF Returns
  <2> QED BY <2>1, <1>1, <1>3, <1>5
<1> QED BY <1>4, <1>5

LEMMA RollsBack == ASSUME UnitInv, NEW h \in Sessions, Rollback(h) PROVE UnitInv'
<1>1. /\ Unlock(h) /\ tx' = [tx EXCEPT ![h] = NoTx] /\ UNCHANGED <<stock, held, made, overwritten, form>>
  BY DEF Rollback, shelf
<1>2. ShelfTyped' BY <1>1 DEF UnitInv, ShelfTyped, Unlock
<1>3. AllFit' /\ tx'[h].kind = "none" /\ \A g \in Sessions \ {h} : tx'[g] = tx[g] BY <1>1, <1>2, EndFits
<1>4. Held' = Held BY <1>1 DEF Held
<1>5. ASSUME NEW v \in Variants
      PROVE  /\ IsFiniteSet(Claims(Held, v))' /\ IsFiniteSet(Claims(Returns, v))'
             /\ v \notin overwritten' /\ stock'[v] # Gone =>
                  stock'[v] + Cardinality(Claims(Held, v))' + Cardinality(Claims(Returns, v))' <= Shelf[v]
  <2>1. /\ IsFiniteSet(Claims(Returns', v))
        /\ Cardinality(Claims(Returns', v)) \in Nat /\ Cardinality(Claims(Returns, v)) \in Nat
        /\ Cardinality(Claims(Returns', v)) <= Cardinality(Claims(Returns, v))
    BY <1>3, OwesLess
  <2>2. IsFiniteSet(Claims(Held, v)) /\ Cardinality(Claims(Held, v)) \in Nat
    BY FS_CardinalityType DEF UnitInv, Conserved
  <2>3. v \notin overwritten /\ stock[v] # Gone =>
          stock[v] + Cardinality(Claims(Held, v)) + Cardinality(Claims(Returns, v)) <= Shelf[v]
    BY DEF UnitInv, Conserved
  <2>4. stock[v] # Gone => stock[v] \in Nat BY DEF UnitInv, ShelfTyped, Level
  <2>5. Shelf[v] \in Nat BY ShelfIsStocked
  <2>6. v \notin overwritten /\ stock[v] # Gone =>
          stock[v] + Cardinality(Claims(Held, v)) + Cardinality(Claims(Returns', v)) <= Shelf[v]
    BY <2>1, <2>2, <2>3, <2>4, <2>5
  <2> QED BY <2>1, <2>2, <2>6, <1>1, <1>4
<1> QED BY <1>2, <1>3, <1>5 DEF UnitInv, Conserved
\* An order that is approved has all its units; one given back, none.
LEMMA AllDone ==
    ASSUME UnitInv, NEW h \in Sessions, tx[h].at = "commit", tx[h].kind \in Ordering,
           NEW v \in Variants, stock[v] # Gone
    PROVE  LET n == Cardinality(Units(tx[h].order, Len(Lines[tx[h].order]), v)) IN
           /\ n \in Nat
           /\ View(h, v) = IF tx[h].kind = "return" THEN stock[v] + n ELSE stock[v] - n
<1> DEFINE t == tx[h]
<1>1. TxFits(t, h, stock, owner) BY DEF UnitInv, AllFit
<1>2. View(h, v) = Seen(t, v, stock) BY ViewIsSeen
<1> HIDE DEF t
<1>3. t.at = "commit" /\ t.kind \in Ordering BY DEF t
<1>4. Trading(t) /\ Queue(t, stock) /\ Tally(t, stock) BY <1>1, <1>3 DEF TxFits, Trading
<1>5. t.order \in DOMAIN Lines /\ t.todo = <<>> BY <1>1, <1>3, <1>4 DEF TxFits, TxTyped, Queue
<1>6. PICK m : m = Len(Lines[t.order]) OBVIOUS
<1>7. m \in Nat BY <1>5, <1>6, LinesTyped
<1>8. Count(t) = m
  <2>1. Len(t.todo) = 0 BY <1>5
  <2>2. Count(t) = m - 0 + 0 BY <2>1, <1>3, <1>6 DEF Count
  <2> QED BY <2>2, <1>7
<1>9. PICK n : n = Cardinality(Units(t.order, m, v)) OBVIOUS
<1>10. n \in Nat BY <1>7, <1>9, UnitsCount
<1>11. Seen(t, v, stock) = IF t.kind = "return" THEN stock[v] + n ELSE stock[v] - n
  BY <1>4, <1>8, <1>9 DEF Tally
<1> QED BY <1>2, <1>6, <1>9, <1>10, <1>11 DEF t

LEMMA Commits == ASSUME UnitInv, NEW h \in Sessions, Commit(h) PROVE UnitInv'
<1> DEFINE t == tx[h]
<1>1. /\ t.at = "commit" /\ stock' = [v \in Variants |-> View(h, v)]
      /\ Unlock(h) /\ tx' = [tx EXCEPT ![h] = NoTx]
      /\ IF t.kind = "reserve"
         THEN made' = made \cup {t.order} /\ held' = held \cup {t.order}
         ELSE UNCHANGED <<made, held>>
      /\ IF t.kind = "save"
         THEN /\ overwritten' = overwritten \cup {v \in Variants : View(h, v) # stock[v]}
              /\ form' = NoForm
         ELSE UNCHANGED <<overwritten, form>>
  BY DEF Commit
<1>2. ShelfTyped /\ AllFit /\ Conserved /\ TxFits(t, h, stock, owner) BY DEF UnitInv, AllFit
<1>3. ASSUME NEW v \in Variants
      PROVE  /\ stock'[v] = Seen(t, v, stock) /\ stock'[v] \in Level
             /\ stock[v] = Gone => stock'[v] = Gone
             /\ stock'[v] = stock[v] \/ owner[v] = h
  <2>1. stock'[v] = Seen(t, v, stock) BY <1>1, ViewIsSeen
  <2>2. stock[v] \in Level BY <1>2 DEF ShelfTyped
  <2>3. v \in Rows BY RowsApart
  <2>4. Locks(t, h, stock, owner) BY <1>2 DEF TxFits
  <2> HIDE DEF t
  <2> QED BY <2>1, <2>2, <2>3, <2>4 DEF Seen, Locks
<1>4. ShelfTyped'
  <2>1. stock' \in [Variants -> Level] BY <1>1, <1>3
  <2>2. form' = [open |-> form'.open, stock |-> form'.stock] /\ form'.stock \in [Variants -> Level]
    <3>1. CASE t.kind = "save"
      <4>1. form' = NoForm BY <1>1, <3>1
      <4>2. Shelf \in [Variants -> Level] BY ShelfIsStocked DEF Level
      <4> QED BY <4>1, <4>2 DEF NoForm
    <3>2. CASE t.kind # "save"
      <4>1. form' = form BY <1>1, <3>2
      <4> QED BY <4>1, <1>2 DEF ShelfTyped
    <3> QED BY <3>1, <3>2
  <2>3. held' \subseteq DOMAIN Lines /\ made' \subseteq DOMAIN Lines
    <3>1. CASE t.kind = "reserve"
      <4>1. t.order \in DOMAIN Lines BY <3>1, <1>2 DEF TxFits, TxTyped, Ordering
      <4> QED BY <4>1, <3>1, <1>1, <1>2 DEF ShelfTyped
    <3>2. CASE t.kind # "reserve" BY <3>2, <1>1, <1>2 DEF ShelfTyped
    <3> QED BY <3>1, <3>2
  <2>4. owner' = [r \in Rows |-> owner'[r]] BY <1>1 DEF Unlock
  <2>5. tx' = [g \in Sessions |-> tx'[g]] BY <1>1, <1>2 DEF ShelfTyped
  <2> QED BY <2>1, <2>2, <2>3, <2>4, <2>5 DEF ShelfTyped
<1>5. AllFit' /\ tx'[h].kind = "none" /\ \A g \in Sessions \ {h} : tx'[g] = tx[g]
  BY <1>1, <1>3, <1>4, EndFits
<1> HIDE DEF t
<1>6. ASSUME NEW v \in Variants
      PROVE  /\ IsFiniteSet(Claims(Held, v))' /\ IsFiniteSet(Claims(Returns, v))'
             /\ v \notin overwritten' /\ stock'[v] # Gone =>
                  stock'[v] + Cardinality(Claims(Held, v))' + Cardinality(Claims(Returns, v))' <= Shelf[v]
  <2>1. PICK o, n : o = t.order /\ n = Cardinality(Units(o, Len(Lines[o]), v)) OBVIOUS
  <2>2. PICK had, kept, owed, back : had = Held /\ kept = Held' /\ owed = Returns /\ back = Returns' OBVIOUS
  <2>3. /\ IsFiniteSet(Claims(back, v))
        /\ Cardinality(Claims(back, v)) \in Nat /\ Cardinality(Claims(owed, v)) \in Nat
        /\ Cardinality(Claims(back, v)) <= Cardinality(Claims(owed, v))
        /\ t.kind = "return" => Cardinality(Claims(owed, v)) = Cardinality(Claims(back, v)) + n
    BY <1>5, <2>1, <2>2, OwesLess DEF t
  <2>4. /\ IsFiniteSet(Claims(had, v)) /\ Cardinality(Claims(had, v)) \in Nat
        /\ v \notin overwritten /\ stock[v] # Gone =>
             stock[v] + Cardinality(Claims(had, v)) + Cardinality(Claims(owed, v)) <= Shelf[v]
    BY <1>2, <2>2, FS_CardinalityType DEF Conserved
  <2>5. Shelf[v] \in Nat /\ (stock[v] # Gone => stock[v] \in Nat)
    BY <1>2, ShelfIsStocked DEF ShelfTyped, Level
  <2>6. v \notin overwritten' => v \notin overwritten
    <3>1. CASE t.kind = "save" BY <3>1, <1>1 DEF t
    <3>2. CASE t.kind # "save" BY <3>2, <1>1 DEF t
    <3> QED BY <3>1, <3>2
  <2>7. /\ IsFiniteSet(Claims(kept, v)) /\ Cardinality(Claims(kept, v)) \in Nat
        /\ IF t.kind = "reserve"
           THEN n \in Nat /\ Cardinality(Claims(kept, v)) <= Cardinality(Claims(had, v)) + n
           ELSE Cardinality(Claims(kept, v)) = Cardinality(Claims(had, v))
    <3>1. CASE t.kind = "reserve" /\ o \notin held
      <4>1. held' = held \cup {o} BY <3>1, <1>1, <2>1 DEF t
      <4>2. /\ o \notin DOMAIN had /\ DOMAIN kept = DOMAIN had \cup {o} /\ kept[o] = o
            /\ \A p \in DOMAIN had : kept[p] = had[p]
        BY <3>1, <4>1, <2>2 DEF Held
      <4>3. o \in DOMAIN Lines BY <3>1, <1>2, <2>1 DEF TxFits, TxTyped, Ordering
      <4>4. /\ IsFiniteSet(Claims(kept, v))
            /\ Cardinality(Claims(kept, v)) = Cardinality(Claims(had, v)) + n
        BY <4>2, <4>3, <2>1, <2>4, ClaimAdded
      <4>5. n \in Nat BY <4>3, <2>1, UnitsCount, LinesTyped
      <4> QED BY <3>1, <4>4, <4>5, <2>4
    <3>2. CASE t.kind # "reserve" \/ o \in held
      <4>1. held' = held BY <3>2, <1>1, <2>1 DEF t
      <4>2. kept = had BY <4>1, <2>2 DEF Held
      <4>3. t.kind = "reserve" => n \in Nat
        <5>1. t.kind = "reserve" => o \in DOMAIN Lines BY <1>2, <2>1 DEF TxFits, TxTyped, Ordering
        <5> QED BY <5>1, <2>1, UnitsCount, LinesTyped
      <4> QED BY <4>2, <4>3, <2>4
    <3> QED BY <3>1, <3>2
  <2>8. ASSUME v \notin overwritten', stock'[v] # Gone
        PROVE  stock'[v] + Cardinality(Claims(kept, v)) + Cardinality(Claims(back, v)) <= Shelf[v]
    <3>1. stock[v] # Gone /\ v \notin overwritten /\ stock[v] \in Nat BY <2>5, <2>6, <2>8, <1>3
    <3>2. stock'[v] = View(h, v) BY <1>1
    <3>3. CASE t.kind \in Ordering
      <4>1. n \in Nat /\ stock'[v] = IF t.kind = "return" THEN stock[v] + n ELSE stock[v] - n
        BY <3>1, <3>2, <3>3, <1>1, <2>1, AllDone DEF t
      <4>2. PICK s : s = stock'[v] OBVIOUS
      <4>3. CASE t.kind = "return"
        <5>1. s = stock[v] + n BY <4>1, <4>2, <4>3
        <5> QED BY <5>1, <4>1, <4>2, <4>3, <3>1, <2>3, <2>4, <2>5, <2>7
      <4>4. CASE t.kind = "reserve"
        <5>1. s = stock[v] - n BY <4>1, <4>2, <4>4
        <5> QED BY <5>1, <4>1, <4>2, <4>4, <3>1, <2>3, <2>4, <2>5, <2>7
      <4> QED BY <4>3, <4>4, <3>3 DEF Ordering
    <3>4. CASE t.kind \notin Ordering
      <4>1. stock'[v] = stock[v]
        <5>1. CASE t.kind = "save" BY <5>1, <2>8, <3>2, <1>1 DEF t
        <5>2. CASE t.kind = "none" BY <5>2, <1>1, <1>2 DEF TxFits, TxTyped, t
        <5> QED BY <5>1, <5>2, <3>4, <1>2 DEF TxFits, TxTyped, Ordering
      <4>2. t.kind # "reserve" BY <3>4 DEF Ordering
      <4> QED BY <4>1, <4>2, <3>1, <2>3, <2>4, <2>5, <2>7
    <3> QED BY <3>3, <3>4
  <2> QED BY <2>2, <2>3, <2>7, <2>8
<1> QED BY <1>4, <1>5, <1>6 DEF UnitInv, Conserved

-----------------------------------------------------------------------------
LEMMA UnitsStart == CatalogueInit => UnitInv
<1> SUFFICES ASSUME CatalogueInit PROVE UnitInv OBVIOUS
<1> USE DEF CatalogueInit
<1>1. Shelf \in [Variants -> Level] BY ShelfIsStocked DEF Level
<1>2. form = [open |-> form.open, stock |-> form.stock] /\ form.stock = Shelf BY DEF NoForm
<1>3. ShelfTyped BY <1>1, <1>2 DEF ShelfTyped
<1>4. AllFit BY IdleFits DEF AllFit
<1>5. DOMAIN Held = {} /\ DOMAIN Returns = {} BY DEF Held, Returns, NoTx
<1>6. ASSUME NEW v \in Variants
      PROVE  /\ IsFiniteSet(Claims(Held, v)) /\ IsFiniteSet(Claims(Returns, v))
             /\ stock[v] + Cardinality(Claims(Held, v)) + Cardinality(Claims(Returns, v)) <= Shelf[v]
  <2>1. Claims(Held, v) = {} /\ Claims(Returns, v) = {} BY <1>5 DEF Claims
  <2>2. Shelf[v] \in Nat BY ShelfIsStocked
  <2> QED BY <2>1, <2>2, FS_EmptySet
<1> QED BY <1>3, <1>4, <1>6 DEF UnitInv, Conserved

LEMMA UnitsKept == UnitInv /\ [CatalogueNext]_catalogueVars => UnitInv'
<1> SUFFICES ASSUME UnitInv, [CatalogueNext]_catalogueVars PROVE UnitInv' OBVIOUS
<1>1. ASSUME NEW h \in Sessions, NEW o \in DOMAIN Lines, Checkout(h, o) \/ Revive(h, o) \/ GiveBack(h, o)
      PROVE  UnitInv'
  BY <1>1, Sales, LetGo
<1>2. CASE OpenForm BY <1>2, FormIsOpened
<1>3. ASSUME NEW h \in Sessions, Save(h) PROVE UnitInv' BY <1>3, Saves
<1>4. ASSUME NEW h \in Sessions, Statement(h) PROVE UnitInv'
  <2>1. CASE Throws(h) \/ Deadlocked(h) \/ Dies(h) BY <2>1, RollsBack DEF Throws, Deadlocked, Dies
  <2>2. CASE ReadItems(h) BY <2>2, ReturnBegins
  <2>3. CASE Line(h) BY <2>3, UpdateOfLine
  <2>4. CASE ReadSum(h) BY <2>4, SumOfRows
  <2>5. CASE WriteSum(h) \/ LooseLine(h) BY <2>5, WritesOfProduct
  <2>6. CASE Commit(h) BY <2>6, Commits
  <2> QED BY <1>4, <2>1, <2>2, <2>3, <2>4, <2>5, <2>6 DEF Statement
<1>5. CASE UNCHANGED catalogueVars
  <2>1. UNCHANGED <<stock, held, made, overwritten, owner, tx, form>> BY <1>5 DEF catalogueVars, shelf
  <2>2. ShelfTyped' BY <2>1 DEF UnitInv, ShelfTyped
  <2>3. AllFit' BY <2>1 DEF UnitInv, AllFit
  <2>4. Held' = Held /\ Returns' = Returns BY <2>1 DEF Held, Returns
  <2>5. Conserved' BY <2>1, <2>4 DEF UnitInv, Conserved
  <2> QED BY <2>2, <2>3, <2>5 DEF UnitInv
<1> QED BY <1>1, <1>2, <1>3, <1>4, <1>5 DEF CatalogueNext

LEMMA UnitsAlways == CatalogueSpec => []UnitInv
BY UnitsStart, UnitsKept, PTL DEF CatalogueSpec

\* Units on the shelf and units that orders hold are never more than there
\* were, for every number of orders and of requests that overlap.
THEOREM EditsInventNoUnit == CatalogueSpec => []UnitsNotInvented
<1>1. UnitInv => UnitsNotInvented
  <2> SUFFICES ASSUME UnitInv, NEW v \in Variants \ overwritten, stock[v] # Gone
               PROVE  stock[v] >= 0 /\ stock[v] + HeldOf(v) <= Shelf[v]
    BY DEF UnitsNotInvented
  <2>1. stock[v] \in Nat /\ Shelf[v] \in Nat BY ShelfIsStocked DEF UnitInv, ShelfTyped, Level
  <2>2. HeldOf(v) = Cardinality(Claims(Held, v))
    <3>1. {x \in UNION {{<<o, i>> : i \in DOMAIN Lines[o]} : o \in held} : Lines[x[1]][x[2]] = v}
            = Claims(Held, v)
      BY DEF Claims, Held
    <3> QED BY <3>1 DEF HeldOf
  <2>3. /\ Cardinality(Claims(Held, v)) \in Nat /\ Cardinality(Claims(Returns, v)) \in Nat
        /\ stock[v] + Cardinality(Claims(Held, v)) + Cardinality(Claims(Returns, v)) <= Shelf[v]
    BY FS_CardinalityType DEF UnitInv, Conserved
  <2> QED BY <2>1, <2>2, <2>3
<1> QED BY <1>1, UnitsAlways, PTL
-----------------------------------------------------------------------------
(* The sum that listings show.  A transaction that is still alone has seen  *)
(* no other commit: the sum it read is that of the rows as they are when it *)
(* commits.                                                                 *)

\* Of two open transactions neither is alone.
Lone == \A h, g \in Sessions : Open(h) /\ tx[h].alone /\ Open(g) => g = h

Views(h) == [v \in Variants |-> View(h, v)]

SumRead(h) ==
    tx[h].alone =>
      /\ tx[h].at = "write" => tx[h].sum = Sum(Views(h))
      /\ tx[h].at = "commit" => View(h, Product) = Sum(Views(h))

HealInv == Lone /\ \A h \in Sessions : SumRead(h)

\* Whether a transaction is open.
OpenAt(t) == t.at \in {"line", "sum", "write", "loose", "commit"}

\* A step of h that begins nothing and commits nothing.
LEMMA HealStep ==
    ASSUME HealInv, NEW h \in Sessions, UNCHANGED <<stock, shown>>,
           \A g \in Sessions \ {h} : tx'[g] = tx[g],
           OpenAt(tx'[h]) /\ tx'[h].alone => Open(h) /\ tx[h].alone,
           OpenAt(tx'[h]) => Open(h),
           SumRead(h)'
    PROVE  HealInv'
<1>1. \A g \in Sessions : Open(g)' => Open(g) BY DEF Open, OpenAt
<1>2. \A g \in Sessions : Open(g)' /\ tx'[g].alone => Open(g) /\ tx[g].alone BY DEF Open, OpenAt
<1>3. Lone' BY <1>1, <1>2 DEF HealInv, Lone
<1>4. ASSUME NEW g \in Sessions \ {h} PROVE SumRead(g)'
  <2>1. tx'[g] = tx[g] OBVIOUS
  <2>2. \A r : View(g, r)' = View(g, r) BY <2>1 DEF View, Committed
  <2>3. Views(g)' = Views(g) BY <2>2 DEF Views
  <2> QED BY <2>1, <2>2, <2>3 DEF HealInv, SumRead
<1> QED BY <1>3, <1>4 DEF HealInv

\* A step of h that begins a transaction.
LEMMA HealBegin ==
    ASSUME HealInv, AllFit, NEW h \in Sessions, ~Open(h), NEW job, Begun(h, job), UNCHANGED <<stock, shown>>,
           Shaped(job), job.at \in {"line", "loose"}
    PROVE  HealInv'
<1> DEFINE others == {g \in Sessions \ {h} : Open(g)}
<1>1. /\ tx'[h] = [job EXCEPT !.alone = (others = {})]
      /\ \A g \in others : tx'[g] = [tx[g] EXCEPT !.alone = FALSE]
      /\ \A g \in Sessions \ {h} : g \notin others => tx'[g] = tx[g]
  BY DEF Begun
<1>2. tx'[h].at = job.at /\ tx'[h].alone = (others = {}) BY <1>1 DEF Shaped, Fields
<1>3. \A g \in others : tx'[g].alone = FALSE /\ tx'[g].at = tx[g].at
  <2> SUFFICES ASSUME NEW g \in others PROVE tx'[g].alone = FALSE /\ tx'[g].at = tx[g].at OBVIOUS
  <2>1. Shaped(tx[g]) BY DEF AllFit, TxFits, TxTyped
  <2>2. tx'[g] = [tx[g] EXCEPT !.alone = FALSE] BY <1>1
  <2> QED BY <2>1, <2>2 DEF Shaped, Fields
<1>4. \A g \in Sessions \ {h} : Open(g)' <=> g \in others BY <1>1, <1>3 DEF Open
<1>5. Lone'
  <2> SUFFICES ASSUME NEW f \in Sessions, NEW g \in Sessions, Open(f)', tx'[f].alone, Open(g)'
               PROVE  g = f
    BY DEF Lone
  <2>1. f \notin others BY <1>3
  <2>2. f = h BY <2>1, <1>4
  <2>3. others = {} BY <2>2, <1>2
  <2> QED BY <2>2, <2>3, <1>4
<1>6. ASSUME NEW g \in Sessions PROVE SumRead(g)'
  <2>1. CASE g = h BY <2>1, <1>2 DEF SumRead
  <2>2. CASE g \in others BY <2>2, <1>3 DEF SumRead
  <2>3. CASE g # h /\ g \notin others
    <3>1. tx'[g] = tx[g] BY <2>3, <1>1
    <3>2. ~Open(g) BY <2>3
    <3> QED BY <3>1, <3>2 DEF SumRead, Open
  <2> QED BY <2>1, <2>2, <2>3
<1> QED BY <1>5, <1>6 DEF HealInv

\* A step of h that leaves it with no transaction.
LEMMA HealEnd ==
    ASSUME HealInv, NEW h \in Sessions, tx' = [tx EXCEPT ![h] = NoTx], tx = [g \in Sessions |-> tx[g]],
           \/ UNCHANGED <<stock, shown>>
           \/ Open(h)
    PROVE  HealInv'
<1>1. tx'[h] = NoTx /\ \A g \in Sessions \ {h} : tx'[g] = tx[g] OBVIOUS
<1>2. tx'[h].at = "idle" BY <1>1 DEF NoTx
<1>3. ~Open(h)' BY <1>2 DEF Open
<1>4. \A g \in Sessions \ {h} : Open(g)' = Open(g) BY <1>1 DEF Open
<1>5. Lone' BY <1>1, <1>3, <1>4 DEF HealInv, Lone
<1>6. ASSUME NEW g \in Sessions PROVE SumRead(g)'
  <2>1. CASE g = h BY <2>1, <1>2 DEF SumRead
  <2>2. CASE g # h /\ Open(g) /\ tx[g].alone
    <3>1. UNCHANGED <<stock, shown>> BY <2>2 DEF HealInv, Lone
    <3>2. tx'[g] = tx[g] BY <2>2, <1>1
    <3>3. \A r : View(g, r)' = View(g, r) BY <3>1, <3>2 DEF View, Committed
    <3>4. Views(g)' = Views(g) BY <3>3 DEF Views
    <3> QED BY <3>2, <3>3, <3>4 DEF HealInv, SumRead
  <2>3. CASE g # h /\ ~(Open(g) /\ tx[g].alone)
    <3>1. tx'[g] = tx[g] BY <2>3, <1>1
    <3> QED BY <3>1, <2>3 DEF SumRead, Open
  <2> QED BY <2>1, <2>2, <2>3
<1> QED BY <1>5, <1>6 DEF HealInv

\* A transaction with lines to do is not at its end.
LEMMA BeginsOpen ==
    ASSUME HealInv, AllFit, NEW h \in Sessions, ~Open(h), UNCHANGED <<stock, shown>>,
           NEW t, Shaped(t), NEW q, q # <<>>, Begun(h, NextLine([t EXCEPT !.todo = q]))
    PROVE  HealInv'
<1> DEFINE job == [t EXCEPT !.todo = q]
<1>1. Shaped(job) /\ job.todo = q BY DEF Shaped, Fields
<1> DEFINE u == NextLine(job)
<1>2. Begun(h, u) OBVIOUS
<1> HIDE DEF job
<1>3. PICK a : a = Label(q) OBVIOUS
<1>4. a \in {"line", "loose"} BY <1>3, LabelKnown
<1>5. u = [job EXCEPT !.at = a] BY <1>1, <1>3, NextLineIs
<1> HIDE DEF u
<1>6. Shaped(u) /\ u.at = a BY <1>1, <1>5 DEF Shaped, Fields
<1> QED BY <1>2, <1>4, <1>6, HealBegin

LEMMA RequestsHeal ==
    ASSUME UnitInv, HealInv, NEW h \in Sessions,
           \/ \E o \in DOMAIN Lines : Checkout(h, o) \/ Revive(h, o) \/ GiveBack(h, o)
           \/ ReadItems(h) \/ Save(h)
    PROVE  HealInv'
<1>1. AllFit /\ tx = [g \in Sessions |-> tx[g]] BY DEF UnitInv, ShelfTyped
<1>2. \A o \in DOMAIN Lines : Lines[o] # <<>> /\ Items(o) # <<>>
  <2>1. \A o \in DOMAIN Lines : Len(Items(o)) = Len(Lines[o]) /\ Len(Lines[o]) # 0 /\ Lines[o] # <<>>
    BY ItemsAre, LinesTyped
  <2> QED BY <2>1
<1>3. ASSUME NEW o \in DOMAIN Lines, Checkout(h, o) \/ Revive(h, o) PROVE HealInv'
  <2> DEFINE t == [NoTx EXCEPT !.kind = "reserve", !.order = o]
  <2>1. Shaped(t) /\ \A q : [t EXCEPT !.todo = q] = [NoTx EXCEPT !.kind = "reserve", !.order = o, !.todo = q]
    BY DEF NoTx, Shaped, Fields, Nothing
  <2> HIDE DEF t
  <2>2. ~Open(h) /\ UNCHANGED <<stock, shown>> BY <1>3 DEF Checkout, Revive, Requested, Open, shelf
  <2>3. \E q : q # <<>> /\ Begun(h, NextLine([t EXCEPT !.todo = q]))
    <3>1. CASE Checkout(h, o)
      <4>1. Begun(h, NextLine([t EXCEPT !.todo = Lines[o]])) BY <3>1, <2>1 DEF Checkout
      <4> QED BY <4>1, <1>2
    <3>2. CASE Revive(h, o)
      <4>1. Begun(h, NextLine([t EXCEPT !.todo = Items(o)])) BY <3>2, <2>1 DEF Revive
      <4> QED BY <4>1, <1>2
    <3> QED BY <1>3, <3>1, <3>2
  <2> QED BY <1>1, <2>1, <2>2, <2>3, BeginsOpen
<1>4. ASSUME NEW o \in DOMAIN Lines, GiveBack(h, o) PROVE HealInv'
  <2> DEFINE u == [NoTx EXCEPT !.at = "items", !.kind = "return", !.order = o]
  <2>1. u.at = "items" BY DEF NoTx
  <2>2. tx' = [tx EXCEPT ![h] = u] /\ UNCHANGED <<stock, shown>> BY <1>4 DEF GiveBack
  <2> HIDE DEF u
  <2>3. tx'[h].at = "items" /\ \A g \in Sessions \ {h} : tx'[g] = tx[g] BY <1>1, <2>1, <2>2
  <2>4. ~OpenAt(tx'[h]) /\ SumRead(h)' BY <2>3 DEF OpenAt, SumRead
  <2> QED BY <2>2, <2>3, <2>4, HealStep
<1>5. CASE ReadItems(h)
  <2>1. /\ tx[h].at = "items" /\ UNCHANGED <<stock, shown>>
        /\ Begun(h, NextLine([tx[h] EXCEPT !.todo = Items(tx[h].order)]))
    BY <1>5 DEF ReadItems, shelf
  <2>2. ~Open(h) BY <2>1 DEF Open
  <2>3. Shaped(tx[h]) /\ tx[h].order \in DOMAIN Lines BY <1>1, <2>1 DEF AllFit, TxFits, TxTyped, Ordering
  <2>4. PICK t, q : t = tx[h] /\ q = Items(t.order) OBVIOUS
  <2>5. Begun(h, NextLine([t EXCEPT !.todo = q])) /\ Shaped(t) /\ q # <<>> BY <1>2, <2>1, <2>3, <2>4
  <2> QED BY <1>1, <2>1, <2>2, <2>5, BeginsOpen
<1>6. CASE Save(h)
  <2>1. PICK q, n : /\ tx[h].at = "idle" /\ UNCHANGED <<stock, shown>>
                    /\ Begun(h, [NoTx EXCEPT !.at = "line", !.kind = "save", !.todo = q, !.new = n])
    BY <1>6 DEF Save, Requested, shelf
  <2> DEFINE job == [NoTx EXCEPT !.at = "line", !.kind = "save", !.todo = q, !.new = n]
  <2>2. Shaped(job) /\ job.at = "line" BY DEF NoTx, Shaped, Fields
  <2>3. Begun(h, job) BY <2>1
  <2> HIDE DEF job
  <2>4. ~Open(h) BY <2>1 DEF Open
  <2> QED BY <1>1, <2>1, <2>2, <2>3, <2>4, HealBegin
<1> QED BY <1>3, <1>4, <1>5, <1>6
\* The lines, the sum and the product's row of a transaction that is alone.
LEMMA LineHeals == ASSUME UnitInv, HealInv, NEW h \in Sessions, Line(h) PROVE HealInv'
<1> DEFINE t == tx[h]
<1>1. AllFit /\ tx = [g \in Sessions |-> tx[g]] BY DEF UnitInv, ShelfTyped
<1>2. Shaped(t) /\ t.at = "line" /\ UNCHANGED <<stock, shown>> BY <1>1 DEF Line, AllFit, TxFits, TxTyped, shelf
<1>3. PICK n : \/ tx' = [tx EXCEPT ![h] = AfterLine(t)]
               \/ tx' = [tx EXCEPT ![h] = AfterLine([t EXCEPT !.new = n])]
  BY DEF Line
<1>4. PICK job : /\ tx' = [tx EXCEPT ![h] = AfterLine(job)] /\ Shaped(job) /\ job.alone = t.alone
  <2>1. CASE tx' = [tx EXCEPT ![h] = AfterLine(t)] BY <2>1, <1>2
  <2>2. CASE tx' = [tx EXCEPT ![h] = AfterLine([t EXCEPT !.new = n])]
    <3> DEFINE j == [t EXCEPT !.new = n]
    <3>1. Shaped(j) /\ j.alone = t.alone BY <1>2 DEF Shaped, Fields
    <3>2. tx' = [tx EXCEPT ![h] = AfterLine(j)] BY <2>2
    <3> HIDE DEF j
    <3> QED BY <3>1, <3>2
  <2> QED BY <1>3, <2>1, <2>2
<1>5. PICK u : u = AfterLine(job) OBVIOUS
<1>6. u.at \in {"sum", "line", "loose"} /\ u.alone = t.alone
  <2>1. CASE job.kind # "save" \/ Tail(job.todo) = <<>>
    <3>1. u = [job EXCEPT !.at = "sum"] BY <2>1, <1>5 DEF AfterLine
    <3> QED BY <3>1, <1>4 DEF Shaped, Fields
  <2>2. CASE ~(job.kind # "save" \/ Tail(job.todo) = <<>>)
    <3> DEFINE tail == [job EXCEPT !.todo = Tail(job.todo)]
    <3>1. Shaped(tail) /\ tail.alone = t.alone /\ tail.todo # <<>> BY <1>4, <2>2 DEF Shaped, Fields
    <3>2. u = NextLine(tail) BY <2>2, <1>5 DEF AfterLine
    <3> HIDE DEF tail
    <3>3. PICK a : a = Label(tail.todo) OBVIOUS
    <3>4. a \in {"line", "loose"} BY <3>1, <3>3, LabelKnown
    <3>5. u = [tail EXCEPT !.at = a] BY <3>2, <3>3, NextLineIs
    <3> QED BY <3>1, <3>4, <3>5 DEF Shaped, Fields
  <2> QED BY <2>1, <2>2
<1>7. tx'[h] = u /\ \A g \in Sessions \ {h} : tx'[g] = tx[g] BY <1>1, <1>4, <1>5
<1>8. SumRead(h)' BY <1>6, <1>7 DEF SumRead
<1>9. Open(h) BY <1>2 DEF Open
<1> QED BY <1>2, <1>6, <1>7, <1>8, <1>9, HealStep DEF OpenAt

LEMMA SumOfRowsHeals == ASSUME UnitInv, HealInv, NEW h \in Sessions, ReadSum(h) PROVE HealInv'
<1> DEFINE t == tx[h]
<1>1. AllFit /\ tx = [g \in Sessions |-> tx[g]] BY DEF UnitInv, ShelfTyped
<1>2. Shaped(t) /\ t.at = "sum" /\ UNCHANGED <<stock, shown>>
  BY <1>1 DEF ReadSum, AllFit, TxFits, TxTyped, shelf
<1>3. PICK m : m = Sum(Views(h)) OBVIOUS
<1> DEFINE u == [t EXCEPT !.at = "write", !.sum = m]
<1>4. tx' = [tx EXCEPT ![h] = u] BY <1>3 DEF ReadSum, Views
<1>5. u.at = "write" /\ u.sum = m /\ u.alone = t.alone /\ u.new = t.new BY <1>2 DEF Shaped, Fields
<1> HIDE DEF u
<1>6. tx'[h] = u /\ \A g \in Sessions \ {h} : tx'[g] = tx[g] BY <1>1, <1>4
<1>7. \A r : View(h, r)' = View(h, r) BY <1>2, <1>5, <1>6 DEF View, Committed
<1>8. Views(h)' = Views(h) BY <1>7 DEF Views
<1>9. SumRead(h)' BY <1>3, <1>5, <1>6, <1>8 DEF SumRead
<1>10. Open(h) BY <1>2 DEF Open
<1> QED BY <1>2, <1>5, <1>6, <1>9, <1>10, HealStep DEF OpenAt

LEMMA ProductHeals == ASSUME UnitInv, HealInv, NEW h \in Sessions, WriteSum(h) \/ LooseLine(h) PROVE HealInv'
<1> DEFINE t == tx[h]
<1>1. AllFit /\ tx = [g \in Sessions |-> tx[g]] BY DEF UnitInv, ShelfTyped
<1>2. Shaped(t) /\ t.at \in {"write", "loose"} /\ UNCHANGED <<stock, shown>>
  BY <1>1 DEF WriteSum, LooseLine, AllFit, TxFits, TxTyped, shelf
<1>3. \E job :
        /\ tx' = [tx EXCEPT ![h] = NextLine(job)] /\ Shaped(job)
        /\ job.alone => t.alone /\ t.at = "write" /\ job.new = Overlay(h, Product, t.sum)
  <2>1. CASE WriteSum(h)
    <3> DEFINE q == IF t.todo = <<>> THEN t.todo ELSE Tail(t.todo)
    <3>1. tx' = [tx EXCEPT ![h] = NextLine([[t EXCEPT !.todo = q]
                   EXCEPT !.new = Overlay(h, Product, [t EXCEPT !.todo = q].sum)])]
      BY <2>1 DEF WriteSum, SyncsAfter
    <3>2. [t EXCEPT !.todo = q].sum = t.sum BY <1>2 DEF Shaped, Fields
    <3> DEFINE job == [[t EXCEPT !.todo = q] EXCEPT !.new = Overlay(h, Product, t.sum)]
    <3>3. Shaped(job) /\ job.alone = t.alone /\ job.new = Overlay(h, Product, t.sum)
      BY <1>2 DEF Shaped, Fields
    <3>4. tx' = [tx EXCEPT ![h] = NextLine(job)] BY <3>1, <3>2
    <3>5. t.at = "write" BY <2>1 DEF WriteSum
    <3> HIDE DEF job
    <3> QED BY <3>3, <3>4, <3>5
  <2>2. CASE LooseLine(h)
    <3> DEFINE m == IF t.kind = "return" THEN View(h, Product) + 1 ELSE View(h, Product) - 1
    <3> DEFINE job == [t EXCEPT !.todo = Tail(t.todo), !.alone = FALSE, !.new = Overlay(h, Product, m)]
    <3>1. tx' = [tx EXCEPT ![h] = NextLine(job)] BY <2>2 DEF LooseLine
    <3>2. Shaped(job) /\ job.alone = FALSE BY <1>2 DEF Shaped, Fields
    <3> HIDE DEF job
    <3> QED BY <3>1, <3>2
  <2> QED BY <2>1, <2>2
<1>4. PICK job :
        /\ tx' = [tx EXCEPT ![h] = NextLine(job)] /\ Shaped(job)
        /\ job.alone => t.alone /\ t.at = "write" /\ job.new = Overlay(h, Product, t.sum)
  BY <1>3
<1>5. PICK u, a : u = NextLine(job) /\ a = Label(job.todo) OBVIOUS
<1>6. u = [job EXCEPT !.at = a] /\ a \in {"line", "loose", "commit"} BY <1>5, NextLineIs, LabelKnown
<1>7. u.at = a /\ u.alone = job.alone /\ u.new = job.new BY <1>4, <1>6 DEF Shaped, Fields
<1>8. tx'[h] = u /\ \A g \in Sessions \ {h} : tx'[g] = tx[g] BY <1>1, <1>4, <1>5
<1>9. SumRead(h)'
  <2>1. SUFFICES ASSUME u.alone PROVE View(h, Product)' = Sum(Views(h))'
    BY <1>6, <1>7, <1>8 DEF SumRead
  <2>2. t.alone /\ t.at = "write" /\ u.new = Overlay(h, Product, t.sum) BY <2>1, <1>4, <1>7
  <2>3. t.sum = Sum(Views(h)) BY <2>2 DEF HealInv, SumRead
  <2>4. /\ DOMAIN u.new = DOMAIN t.new \cup {Product} /\ u.new[Product] = t.sum
        /\ \A r \in DOMAIN t.new \ {Product} : u.new[r] = t.new[r]
    BY <2>2 DEF Overlay
  <2> HIDE DEF t
  <2>5. View(h, Product)' = t.sum BY <2>4, <1>8 DEF View
  <2>6. ASSUME NEW v \in Variants PROVE View(h, v)' = View(h, v)
    <3>1. v # Product BY RowsApart
    <3>2. v \in DOMAIN u.new <=> v \in DOMAIN t.new BY <2>4, <3>1
    <3>3. v \in DOMAIN t.new => u.new[v] = t.new[v] BY <2>4, <3>1
    <3>4. Committed(v)' = Committed(v) BY <1>2 DEF Committed
    <3> QED BY <3>2, <3>3, <3>4, <1>8 DEF View, t
  <2>7. Views(h)' = Views(h) BY <2>6 DEF Views
  <2> QED BY <2>3, <2>5, <2>7
<1>10. Open(h) BY <1>2 DEF Open
<1> QED BY <1>2, <1>4, <1>7, <1>8, <1>9, <1>10, HealStep DEF OpenAt

-----------------------------------------------------------------------------
LEMMA HealsStart == CatalogueInit => HealInv
<1> SUFFICES ASSUME CatalogueInit PROVE HealInv OBVIOUS
<1>1. \A h \in Sessions : tx[h].at = "idle" BY DEF CatalogueInit, NoTx
<1>2. \A h \in Sessions : ~Open(h) BY <1>1 DEF Open
<1> QED BY <1>1, <1>2 DEF HealInv, Lone, SumRead

LEMMA HealsKept == UnitInv /\ HealInv /\ [CatalogueNext]_catalogueVars => HealInv'
<1> SUFFICES ASSUME UnitInv, HealInv, [CatalogueNext]_catalogueVars PROVE HealInv' OBVIOUS
<1>1. tx = [g \in Sessions |-> tx[g]] BY DEF UnitInv, ShelfTyped
<1>2. ASSUME NEW h \in Sessions, NEW o \in DOMAIN Lines, Checkout(h, o) \/ Revive(h, o) \/ GiveBack(h, o)
      PROVE  HealInv'
  BY <1>2, RequestsHeal
<1>3. CASE OpenForm \/ UNCHANGED catalogueVars
  <2>1. UNCHANGED <<stock, shown, tx>> BY <1>3 DEF OpenForm, catalogueVars, shelf
  <2>2. Lone' BY <2>1 DEF HealInv, Lone, Open
  <2>3. ASSUME NEW h \in Sessions PROVE SumRead(h)'
    <3>1. \A r : View(h, r)' = View(h, r) BY <2>1 DEF View, Committed
    <3>2. Views(h)' = Views(h) BY <3>1 DEF Views
    <3> QED BY <2>1, <3>1, <3>2 DEF HealInv, SumRead
  <2> QED BY <2>2, <2>3 DEF HealInv
<1>4. ASSUME NEW h \in Sessions, Save(h) PROVE HealInv' BY <1>4, RequestsHeal
<1>5. ASSUME NEW h \in Sessions, Statement(h) PROVE HealInv'
  <2>1. CASE Throws(h) \/ Deadlocked(h) \/ Dies(h)
    <3>1. tx' = [tx EXCEPT ![h] = NoTx] /\ UNCHANGED <<stock, shown>>
      BY <2>1 DEF Throws, Deadlocked, Dies, Rollback, shelf
    <3> QED BY <3>1, <1>1, HealEnd
  <2>2. CASE ReadItems(h) BY <2>2, RequestsHeal
  <2>3. CASE Line(h) BY <2>3, LineHeals
  <2>4. CASE ReadSum(h) BY <2>4, SumOfRowsHeals
  <2>5. CASE WriteSum(h) \/ LooseLine(h) BY <2>5, ProductHeals
  <2>6. CASE Commit(h)
    <3>1. tx' = [tx EXCEPT ![h] = NoTx] /\ Open(h) BY <2>6 DEF Commit, Open
    <3> QED BY <3>1, <1>1, HealEnd
  <2> QED BY <1>5, <2>1, <2>2, <2>3, <2>4, <2>5, <2>6 DEF Statement
<1> QED BY <1>2, <1>3, <1>4, <1>5 DEF CatalogueNext

\* A transaction with no other open beside it leaves the product showing the
\* sum of its variants, whatever overlapping ones left there before.
THEOREM SumIsHealed == CatalogueSpec => SumHeals
<1>1. ASSUME HealInv, NEW h \in Sessions, Commit(h), tx[h].alone PROVE shown' = Sum(stock')
  <2>1. tx[h].at = "commit" /\ stock' = Views(h) /\ shown' = View(h, Product)
    BY <1>1 DEF Commit, Views
  <2> QED BY <2>1, <1>1 DEF HealInv, SumRead
<1>2. HealInv /\ [CatalogueNext]_catalogueVars
        => [\A h \in Sessions : Commit(h) /\ tx[h].alone => shown' = Sum(stock')]_catalogueVars
  BY <1>1
<1>3. CatalogueSpec => []HealInv BY HealsStart, HealsKept, UnitsAlways, PTL DEF CatalogueSpec
<1> QED BY <1>2, <1>3, PTL DEF CatalogueSpec, SumHeals
=============================================================================
