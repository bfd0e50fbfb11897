--------------------------- MODULE ShippingProofs ---------------------------
(***************************************************************************)
(* What Shipping promises, for any orders, parcels and processes.  The     *)
(* invariant has a part for each promise: Bought counts what the store     *)
(* paid the carrier, Tracked says whose the parcels are that rows and      *)
(* handlers name, Arrived what a delivery that is written rests on.        *)
(***************************************************************************)
EXTENDS Shipping, FiniteSetTheorems, TLAPS

SomeOrder == Orders \cup {AnyOrder}
Statuses == {"PAID", "PROCESSING", "SHIPPED", "DELIVERED", "CANCELLED", "REFUNDED"}
Stops == {"idle", "buy", "emit", "store", "link", "shipped", "delivered", "ship", "deliver",
          "next", "staff"}
Row == [status : Statuses, approved : BOOLEAN, shipment : Code, label : BOOLEAN, code : Code]
Entry == [o : Orders, row : [shipped : BOOLEAN, shipment : Code, code : Code]]
Job == [at : Stops, o : SomeOrder, s : Code, id : Code, code : Code, status : Statuses,
        pdf : BOOLEAN, todo : SUBSET Entry]

Typed ==
    /\ orders \in [Orders -> Row]
    /\ parcels \in [Parcels -> [of : SomeOrder, at : Places]]
    /\ job \in [Processes -> Job]
    /\ excused \in [Orders -> Nat]
    /\ calls \in Nat /\ faults \in Nat
    /\ \A w \in Processes : job[w].at \notin {"idle", "next"} => job[w].o \in Orders
    /\ job[Sweeper].at \notin Buying

\* A handler that bought a parcel is alone with it, and it has not moved.
InHand(w) == job[w].at = "emit"
OneBuyer ==
    \A w \in Workers : InHand(w) =>
        /\ job[w].s \in Parcels /\ parcels[job[w].s].at = "released"
        /\ \A v \in Workers \ {w} : InHand(v) => job[v].s # job[w].s

\* The handlers about to pay for a parcel of o, and whether one beyond those
\* excused is there to be had, by a handler or in the row.
Paying(o) == {w \in Workers : job[w].at = "buy" /\ job[w].o = o}
Labelled(row) == row.shipment # NoParcel /\ row.label
Due(o) == IF Overlaps(o) \/ Labelled(orders[o]) THEN 1 ELSE 0
Bought == \A o \in Orders : Cardinality(Paid(o)) + Cardinality(Paying(o)) <= excused[o] + Due(o)

\* A parcel that was bought for o.
For(o, s) == s \in Parcels /\ parcels[s].of = o /\ parcels[s].at # "none"
OrNone(o, s) == s = NoParcel \/ For(o, s)
RowTracked(o, row) == OrNone(o, row.shipment) /\ OrNone(o, row.code)
JobTracked(j) ==
    /\ j.at \in {"emit", "store"} => For(j.o, j.s)
    /\ j.at \notin {"idle", "next"} => OrNone(j.o, j.id) /\ OrNone(j.o, j.code)
    /\ \A t \in j.todo : RowTracked(t.o, t.row)
Tracked ==
    /\ \A o \in Orders : RowTracked(o, orders[o])
    /\ \A w \in Processes : JobTracked(job[w])

\* A parcel of the order came to the door.
Came(o) == \E s \in Parcels : parcels[s].of = o /\ parcels[s].at \in {"attempted", "delivered"}
JobTrue(j) ==
    /\ j.at \in {"delivered", "deliver"} => Came(j.o)
    /\ j.at = "staff" => j.status \in Asked
Arrived ==
    /\ DeliveredIsReal
    /\ \A w \in Processes : JobTrue(job[w])

IInv == Typed /\ OneBuyer /\ Bought /\ Tracked /\ Arrived

-----------------------------------------------------------------------------
(* Rows and places *)

LEMMA Codes == NoParcel \in Code /\ Parcels \subseteq Code /\ Processes = Workers \cup {Sweeper}
BY DEF Code, Processes

LEMMA PlaceNames == Places = {"none", "released", "generated", "posted", "attempted", "delivered"}
BY DEF Places, Way

LEMMA Reaching ==
    ASSUME Typed, NEW s \in Parcels
    PROVE  /\ Reached(s, "released") <=> parcels[s].at # "none"
           /\ Reached(s, "generated") => parcels[s].at # "none"
           /\ Reached(s, "delivered") <=> parcels[s].at = "delivered"
<1>1. parcels[s].at \in Places
  BY DEF Typed
<1>2. /\ Way["none"] = 0 /\ Way["released"] = 1 /\ Way["generated"] = 2
      /\ Way["posted"] = 3 /\ Way["attempted"] = 4 /\ Way["delivered"] = 5
  BY DEF Way
<1> QED
  BY <1>1, <1>2, PlaceNames DEF Reached

LEMMA PaidParcels == Typed => \A o \in Orders : Paid(o) = {s \in Parcels : For(o, s)}
<1> SUFFICES ASSUME Typed, NEW o \in Orders PROVE Paid(o) = {s \in Parcels : For(o, s)}
  OBVIOUS
<1>1. \A s \in Parcels : Reached(s, "released") <=> parcels[s].at # "none"
  BY Reaching
<1> QED
  BY <1>1 DEF Paid, For

LEMMA PaidParcelsNext == (Typed => \A o \in Orders : Paid(o) = {s \in Parcels : For(o, s)})'
BY PaidParcels, PTL

LEMMA IdleJob ==
    /\ Idle \in Job /\ Idle.at = "idle" /\ Idle.s = NoParcel /\ Idle.id = NoParcel
    /\ Idle.code = NoParcel /\ Idle.todo = {}
<1>1. /\ "idle" \in Stops /\ AnyOrder \in SomeOrder /\ NoParcel \in Code /\ "PAID" \in Statuses
      /\ FALSE \in BOOLEAN /\ {} \in SUBSET Entry
  BY DEF Stops, SomeOrder, Code, Statuses
<1> HIDE DEF AnyOrder
<1> QED
  BY <1>1 DEF Idle, Job

\* Counting: sets of parcels and of workers are finite.
LEMMA Counts ==
    ASSUME NEW o
    PROVE  /\ IsFiniteSet(Paid(o)) /\ Cardinality(Paid(o)) \in Nat
           /\ IsFiniteSet(Paying(o)) /\ Cardinality(Paying(o)) \in Nat
<1>1. Paid(o) \in SUBSET Parcels /\ Paying(o) \in SUBSET Workers
  BY DEF Paid, Paying
<1>2. IsFiniteSet(Parcels) /\ IsFiniteSet(Workers)
  BY ShippingAssumption
<1>3. IsFiniteSet(Paid(o)) /\ IsFiniteSet(Paying(o))
  BY <1>1, <1>2, FS_Subset
<1> QED
  BY <1>3, FS_CardinalityType

-----------------------------------------------------------------------------
(* Steps that buy no parcel *)

\* A process that is not at a label, before and after, moves on; what it writes
\* to rows keeps their labels and names parcels of theirs.
LEMMA Moves ==
    ASSUME IInv, NEW w \in Processes, NEW j \in Job,
           job' = [job EXCEPT ![w] = j], UNCHANGED <<parcels, excused>>,
           job[w].at \notin Buying, j.at \notin Buying,
           j.at \notin {"idle", "next"} => j.o \in Orders,
           JobTracked(j), JobTrue(j),
           orders' \in [Orders -> Row], calls' \in Nat, faults' \in Nat,
           \A o \in Orders :
             /\ RowTracked(o, orders'[o])
             /\ Labelled(orders[o]) => Labelled(orders'[o])
             /\ orders'[o].status = "DELIVERED" => "DELIVERED" \in Asked \/ Came(o)
    PROVE  IInv'
<1> USE DEF IInv
<1>1. \A v \in Processes : job'[v] = IF v = w THEN j ELSE job[v]
  BY DEF Typed
<1>2. Workers \subseteq Processes /\ Sweeper \in Processes
  BY DEF Processes
<1>3. Typed'
  BY <1>1, <1>2 DEF Typed
<1>4. OneBuyer'
  BY <1>1, <1>2 DEF OneBuyer, InHand, Buying
<1>5. \A o : Paying(o)' = Paying(o) /\ Overlaps(o)' = Overlaps(o)
  BY <1>1, <1>2 DEF Paying, Overlaps, Buying
<1>6. \A o : Paid(o)' = Paid(o)
  BY DEF Paid, Reached
<1>7. Bought'
  <2> SUFFICES ASSUME NEW o \in Orders
               PROVE  Cardinality(Paid(o))' + Cardinality(Paying(o))' <= excused'[o] + Due(o)'
    BY DEF Bought
  <2>1. Due(o) <= Due(o)' /\ Due(o) \in Nat /\ Due(o)' \in Nat
    BY <1>5 DEF Due
  <2>2. Cardinality(Paid(o)) \in Nat /\ Cardinality(Paying(o)) \in Nat /\ excused[o] \in Nat
    BY Counts DEF Typed
  <2>3. Cardinality(Paid(o)) + Cardinality(Paying(o)) <= excused[o] + Due(o)
    BY DEF Bought
  <2> QED
    BY <1>5, <1>6, <2>1, <2>2, <2>3
<1>8. Tracked'
  <2>2. \A o, s : For(o, s)' <=> For(o, s)
    BY DEF For
  <2>3. \A v \in Processes : JobTracked(job[v])'
    BY <1>1, <2>2 DEF Tracked, JobTracked, RowTracked, OrNone
  <2>4. \A o \in Orders : RowTracked(o, orders[o])'
    BY <2>2 DEF RowTracked, OrNone
  <2> QED
    BY <2>3, <2>4 DEF Tracked
<1>9. Arrived'
  <2>1. \A o : Came(o)' <=> Came(o)
    BY DEF Came
  <2>2. DeliveredIsReal'
    BY <2>1 DEF DeliveredIsReal, Came
  <2>3. \A v \in Processes : JobTrue(job[v])'
    BY <1>1, <2>1 DEF Arrived, JobTrue
  <2> QED
    BY <2>2, <2>3 DEF Arrived
<1> QED
  BY <1>3, <1>4, <1>7, <1>8, <1>9

\* Rows that no step changes meet what Moves asks of them.
LEMMA SameRows ==
    ASSUME IInv, UNCHANGED orders
    PROVE  /\ orders' \in [Orders -> Row]
           /\ \A o \in Orders :
                /\ RowTracked(o, orders'[o])
                /\ Labelled(orders[o]) => Labelled(orders'[o])
                /\ orders'[o].status = "DELIVERED" => "DELIVERED" \in Asked \/ Came(o)
BY DEF IInv, Typed, Tracked, Arrived, DeliveredIsReal, Came

\* A call: the process was idle.
LEMMA Begins ==
    ASSUME IInv, NEW w \in Workers, NEW j \in Job, Begin(w, j),
           UNCHANGED <<orders, parcels, excused>>,
           j.at \notin Buying, j.at \notin {"idle", "next"} => j.o \in Orders,
           JobTracked(j), JobTrue(j)
    PROVE  IInv'
<1>1. w \in Processes
  BY DEF Processes
<1>2. job[w].at = "idle" /\ job' = [job EXCEPT ![w] = j] /\ calls' = calls + 1 /\ faults' = faults
  BY DEF Begin, Free
<1>3. job[w].at \notin Buying
  BY <1>2 DEF Buying
<1>4. calls' \in Nat /\ faults' \in Nat
  BY <1>2 DEF IInv, Typed
<1> QED
  BY <1>1, <1>2, <1>3, <1>4, Moves, SameRows

LEMMA Webhooks == ASSUME IInv, NEW w \in Workers, NEW s \in Parcels, Webhook(w, s) PROVE IInv'
<1>1. PICK event \in {"other"} \cup {place \in Places : Reached(s, place)},
           withCode \in {FALSE, Reached(s, "generated")} :
        \E o \in Holder(s, withCode) :
          Begin(w, [Idle EXCEPT !.at = Branch(event), !.o = o, !.id = s,
                       !.code = CASE withCode -> s
                                  [] ~withCode /\ Branch(event) = "link" -> NoParcel
                                  [] OTHER -> orders[o].code])
  BY DEF Webhook
<1>0. PICK o \in Holder(s, withCode) :
          Begin(w, [Idle EXCEPT !.at = Branch(event), !.o = o, !.id = s,
                       !.code = CASE withCode -> s
                                  [] ~withCode /\ Branch(event) = "link" -> NoParcel
                                  [] OTHER -> orders[o].code])
  BY <1>1
<1> DEFINE code == CASE withCode -> s
                     [] ~withCode /\ Branch(event) = "link" -> NoParcel
                     [] OTHER -> orders[o].code
           j == [Idle EXCEPT !.at = Branch(event), !.o = o, !.id = s, !.code = code]
<1>2. o \in Orders /\ For(o, s)
  <2>1. o \in Orders /\ (orders[o].shipment = s \/ orders[o].code = s)
    BY DEF Holder
  <2>2. s # NoParcel
    BY ShippingAssumption
  <2> QED
    BY <2>1, <2>2 DEF IInv, Tracked, RowTracked, OrNone
<1>3. OrNone(o, orders[o].code) /\ orders[o].code \in Code
  BY <1>2 DEF IInv, Tracked, RowTracked, Typed, Row
<1>5. code \in Code /\ OrNone(o, code)
  BY <1>2, <1>3, Codes DEF OrNone
<1>6. Branch(event) \in {"delivered", "shipped", "link"}
  BY DEF Branch
<1>7. Branch(event) = "delivered" => Came(o)
  <2>1. SUFFICES ASSUME Branch(event) = "delivered" PROVE Came(o)
    OBVIOUS
  <2>2. event = "delivered"
    BY <2>1 DEF Branch
  <2>3. Reached(s, "delivered")
    BY <2>2
  <2> QED
    BY <2>3, <1>2, Reaching DEF Came, For, IInv
<1> HIDE DEF code
<1>8. j \in Job /\ j.at = Branch(event) /\ j.o = o /\ j.id = s /\ j.code = code /\ j.todo = {}
  BY <1>2, <1>5, <1>6, IdleJob, Codes DEF Job, Stops, SomeOrder
<1>9. JobTracked(j) /\ JobTrue(j)
  BY <1>2, <1>5, <1>6, <1>7, <1>8 DEF JobTracked, JobTrue, OrNone
<1>10. j.at \notin Buying
  BY <1>6, <1>8 DEF Buying
<1>11. Begin(w, j)
  BY <1>0 DEF code
<1>12. UNCHANGED <<orders, parcels, excused>>
  BY DEF Webhook
<1> HIDE DEF j
<1> QED
  BY <1>2, <1>8, <1>9, <1>10, <1>11, <1>12, Begins

LEMMA StaffAsks == ASSUME IInv, NEW w \in Workers, NEW o \in Orders, UpdateStatus(w, o) PROVE IInv'
<1>1. PICK status \in Asked,
           code \in {NoParcel} \cup {s \in Parcels : parcels[s].of = o /\ Reached(s, "generated")} :
         Begin(w, [Idle EXCEPT !.at = "staff", !.o = o, !.status = status, !.code = code])
  BY DEF UpdateStatus
<1> DEFINE j == [Idle EXCEPT !.at = "staff", !.o = o, !.status = status, !.code = code]
<1>2. code \in Code /\ OrNone(o, code)
  BY Reaching, Codes DEF OrNone, For, IInv
<1>3. status \in Statuses
  BY ShippingAssumption DEF Statuses
<1>4. /\ j \in Job /\ j.at = "staff" /\ j.o = o /\ j.id = NoParcel /\ j.code = code
      /\ j.status = status /\ j.todo = {}
  BY <1>2, <1>3, IdleJob, Codes DEF Job, Stops, SomeOrder
<1>5. JobTracked(j) /\ JobTrue(j) /\ j.at \notin Buying
  BY <1>2, <1>4 DEF JobTracked, JobTrue, OrNone, Buying
<1>6. Begin(w, j) /\ UNCHANGED <<orders, parcels, excused>>
  BY <1>1 DEF UpdateStatus
<1> HIDE DEF j
<1> QED
  BY <1>4, <1>5, <1>6, Begins

\* A row is written with what its handler read, which is of its order.
LEMMA Writes ==
    ASSUME IInv, NEW w \in Processes, Link(w) \/ Mark(w) \/ StaffWrite(w)
    PROVE  IInv'
<1> USE DEF IInv
<1> DEFINE j == job[w]
           next == IF j.at \in {"ship", "deliver"} /\ w = Sweeper /\ j.todo # {}
                   THEN [Idle EXCEPT !.at = "next", !.todo = j.todo]
                   ELSE Idle
<1>1. j \in Job /\ j.at \in {"link", "ship", "deliver", "staff"} /\ j.o \in Orders
  BY DEF Typed, Link, Mark, StaffWrite
<1>2. OrNone(j.o, j.id) /\ OrNone(j.o, j.code)
  BY <1>1 DEF Tracked, JobTracked
<1>3. /\ next \in Job /\ next.at \in {"idle", "next"} /\ next.todo \subseteq j.todo
  BY <1>1, IdleJob DEF Job, Stops
<1>4. job' = [job EXCEPT ![w] = next]
  BY ShippingAssumption DEF Link, Mark, StaffWrite, Done, Leave, NextRow
<1>5. JobTracked(next) /\ JobTrue(next)
  BY <1>3 DEF JobTracked, JobTrue, Tracked
<1>6. UNCHANGED <<parcels, excused, calls, faults>>
  BY DEF Link, Mark, StaffWrite, bounds
<1>7. \A q \in Orders : q # j.o => orders'[q] = orders[q]
  BY DEF Link, Mark, StaffWrite, Typed
<1>8. /\ orders' \in [Orders -> Row]
      /\ \/ orders'[j.o].shipment = orders[j.o].shipment
         \/ orders'[j.o].shipment = Fill(orders[j.o].shipment, j.id)
      /\ orders'[j.o].label = orders[j.o].label
      /\ orders'[j.o].code = Fill(orders[j.o].code, j.code)
      /\ orders'[j.o].status = "DELIVERED" =>
           \/ orders[j.o].status = "DELIVERED" \/ j.at = "deliver"
           \/ j.at = "staff" /\ j.status = "DELIVERED"
  <2>1. orders[j.o] \in Row
    BY <1>1 DEF Typed
  <2>2. CASE Link(w)
    BY <1>1, <2>1, <2>2 DEF Link, Typed, Row, Fill, Job
  <2>3. CASE Mark(w)
    BY <1>1, <2>1, <2>3 DEF Mark, Typed, Row, Fill, Job, Statuses
  <2>4. CASE StaffWrite(w)
    BY <1>1, <2>1, <2>4 DEF StaffWrite, Typed, Row, Fill, Job
  <2> QED
    BY <2>2, <2>3, <2>4
<1>9. /\ RowTracked(j.o, orders'[j.o])
      /\ Labelled(orders[j.o]) => Labelled(orders'[j.o])
  BY <1>1, <1>2, <1>8 DEF Tracked, RowTracked, Labelled, Fill, OrNone
<1>10. orders'[j.o].status = "DELIVERED" => "DELIVERED" \in Asked \/ Came(j.o)
  BY <1>1, <1>8 DEF Arrived, DeliveredIsReal, Came, JobTrue
<1>11. \A o \in Orders :
         /\ RowTracked(o, orders'[o])
         /\ Labelled(orders[o]) => Labelled(orders'[o])
         /\ orders'[o].status = "DELIVERED" => "DELIVERED" \in Asked \/ Came(o)
  BY <1>7, <1>9, <1>10 DEF Tracked, Arrived, DeliveredIsReal, Came
<1>12. job[w].at \notin Buying /\ next.at \notin Buying /\ calls' \in Nat /\ faults' \in Nat
  BY <1>1, <1>3, <1>6 DEF Buying, Typed
<1> HIDE DEF next, j
<1> QED
  BY <1>3, <1>4, <1>5, <1>6, <1>8, <1>11, <1>12, Moves

LEMMA Reads == ASSUME IInv, NEW w \in Processes, ReadCurrent(w) PROVE IInv'
<1> USE DEF IInv
<1> DEFINE j == job[w]
           next == IF w = Sweeper /\ j.todo # {} THEN [Idle EXCEPT !.at = "next", !.todo = j.todo]
                   ELSE Idle
           new == IF Over(j.o) THEN next
                  ELSE [j EXCEPT !.at = IF j.at = "shipped" THEN "ship" ELSE "deliver"]
<1>1. j \in Job /\ j.at \in {"shipped", "delivered"} /\ j.o \in Orders
  BY DEF Typed, ReadCurrent
<1>2. next \in Job /\ next.at \in {"idle", "next"} /\ next.todo \subseteq j.todo
  BY <1>1, IdleJob DEF Job, Stops
<1>3. job' = [job EXCEPT ![w] = new]
  BY ShippingAssumption DEF ReadCurrent, Leave, Done, NextRow, Goto
<1>4. CASE Over(j.o)
  <2>1. new \in Job /\ JobTracked(new) /\ JobTrue(new) /\ new.at \in {"idle", "next"}
    BY <1>1, <1>2, <1>4 DEF Tracked, JobTracked, JobTrue
  <2>2. job[w].at \notin Buying /\ new.at \notin Buying /\ calls' \in Nat /\ faults' \in Nat
    BY <1>1, <2>1 DEF Buying, Typed, ReadCurrent, bounds
  <2>3. UNCHANGED <<orders, parcels, excused>>
    BY DEF ReadCurrent
  <2> HIDE DEF new
  <2> QED
    BY <1>3, <2>1, <2>2, <2>3, Moves, SameRows
<1>5. CASE ~Over(j.o)
  <2>1. /\ new \in Job /\ new.at \in {"ship", "deliver"} /\ new.o = j.o /\ new.id = j.id
        /\ new.code = j.code /\ new.todo = j.todo
        /\ new.at = "deliver" => j.at = "delivered"
    BY <1>1, <1>5 DEF Job, Stops
  <2>2. JobTracked(new) /\ JobTrue(new)
    BY <1>1, <2>1 DEF Tracked, Arrived, JobTracked, JobTrue
  <2>3. job[w].at \notin Buying /\ new.at \notin Buying /\ calls' \in Nat /\ faults' \in Nat
    BY <1>1, <2>1 DEF Buying, Typed, ReadCurrent, bounds
  <2>4. UNCHANGED <<orders, parcels, excused>>
    BY DEF ReadCurrent
  <2> HIDE DEF new
  <2> QED
    BY <1>1, <1>3, <2>1, <2>2, <2>3, <2>4, Moves, SameRows
<1> QED
  BY <1>4, <1>5

\* The sweep's page is of rows; what the carrier answers of one is true of it.
LEMMA Selects == ASSUME IInv, SelectOpen PROVE IInv'
<1> USE DEF IInv
<1> DEFINE page == {[o |-> o, row |-> Seen(o)] : o \in {x \in Orders : Open(x)}}
           new == [Idle EXCEPT !.at = "next", !.todo = page]
<1>1. /\ page \subseteq Entry
      /\ \A t \in page : RowTracked(t.o, t.row)
  <2>1. ASSUME NEW o \in Orders
        PROVE  [o |-> o, row |-> Seen(o)] \in Entry /\ RowTracked(o, Seen(o))
    BY DEF Entry, Seen, Typed, Row, Tracked, RowTracked
  <2> QED
    BY <2>1
<1> HIDE DEF page
<1>2. new \in Job /\ new.at = "next" /\ new.todo = page
  BY <1>1, IdleJob DEF Job, Stops
<1>3. JobTracked(new) /\ JobTrue(new) /\ new.at \notin Buying
  BY <1>1, <1>2 DEF JobTracked, JobTrue, Buying
<1>4. job[Sweeper].at \notin Buying /\ job' = [job EXCEPT ![Sweeper] = new]
  BY DEF SelectOpen, Buying, page
<1>5. UNCHANGED <<orders, parcels, excused, calls, faults>>
  BY DEF SelectOpen, bounds
<1>6. Sweeper \in Processes /\ calls' \in Nat /\ faults' \in Nat
  BY <1>5 DEF Processes, Typed
<1> HIDE DEF new
<1> QED
  BY <1>2, <1>3, <1>4, <1>5, <1>6, Moves, SameRows

LEMMA DeliveryIsAnswered ==
    ASSUME IInv, NEW t \in job[Sweeper].todo, "delivered" \in Answers(t.row)
    PROVE  Came(t.o)
<1> USE DEF IInv
<1>1. Sweeper \in Processes /\ RowTracked(t.o, t.row)
  BY DEF Processes, Tracked, JobTracked
<1>2. ASSUME NEW s \in Code, OrNone(t.o, s), s # NoParcel,
             "delivered" \in MelhorEnvio(s) \/ "delivered" \in Correios(s)
      PROVE  Came(t.o)
  <2>1. For(t.o, s) /\ s \in Parcels
    BY <1>2 DEF OrNone, For
  <2>2. parcels[s].at \in {"attempted", "delivered"}
    BY <1>2 DEF MelhorEnvio, Correios
  <2> QED
    BY <2>1, <2>2 DEF For, Came
<1>3. t \in Entry
  BY <1>1 DEF Typed, Job
<1>4. t.row.shipment \in Code /\ t.row.code \in Code
  BY <1>3 DEF Entry
<1>5. CASE t.row.shipment # NoParcel /\ "delivered" \in MelhorEnvio(t.row.shipment)
  BY <1>1, <1>2, <1>4, <1>5 DEF RowTracked
<1>6. CASE t.row.code # NoParcel /\ "delivered" \in Correios(t.row.code)
  BY <1>1, <1>2, <1>4, <1>6 DEF RowTracked
<1> QED
  BY <1>5, <1>6 DEF Answers

LEMMA Asks ==
    ASSUME IInv, NEW t \in job[Sweeper].todo, NEW answer \in {"unknown", "shipped", "delivered"},
           Ask(answer, t), job[Sweeper].at = "next", answer = "delivered" => Came(t.o),
           UNCHANGED <<orders, parcels, excused>>, calls' \in Nat, faults' \in Nat
    PROVE  IInv'
<1> USE DEF IInv
<1> DEFINE todo == job[Sweeper].todo \ {t}
           asked == [Idle EXCEPT !.at = answer, !.o = t.o, !.todo = todo]
           next == IF todo = {} THEN Idle ELSE [Idle EXCEPT !.at = "next", !.todo = todo]
<1>1. Sweeper \in Processes /\ job[Sweeper] \in Job /\ todo \subseteq Entry /\ t \in Entry
  BY DEF Processes, Typed, Job
<1>2. t.o \in Orders /\ \A u \in todo : RowTracked(u.o, u.row)
  BY <1>1 DEF Entry, Tracked, JobTracked
<1>3. job[Sweeper].at \notin Buying
  BY DEF Buying
<1> HIDE DEF todo
<1>4. CASE answer # "unknown" /\ job' = [job EXCEPT ![Sweeper] = asked]
  <2>1. /\ asked \in Job /\ asked.at = answer /\ asked.o = t.o /\ asked.todo = todo
        /\ asked.id = NoParcel /\ asked.code = NoParcel
    BY <1>1, <1>2, <1>4, IdleJob DEF Job, Stops, SomeOrder
  <2>2. JobTracked(asked) /\ JobTrue(asked) /\ asked.at \notin Buying
    BY <1>2, <1>4, <2>1 DEF JobTracked, JobTrue, OrNone, Buying
  <2> HIDE DEF asked
  <2> QED
    BY <1>1, <1>2, <1>3, <1>4, <2>1, <2>2, Moves, SameRows
<1>5. CASE job' = [job EXCEPT ![Sweeper] = next]
  <2>1. next \in Job /\ next.at \in {"idle", "next"} /\ next.todo \subseteq todo
    BY <1>1, IdleJob DEF Job, Stops
  <2>2. JobTracked(next) /\ JobTrue(next) /\ next.at \notin Buying
    BY <1>2, <2>1 DEF JobTracked, JobTrue, Buying
  <2> HIDE DEF next
  <2> QED
    BY <1>1, <1>3, <1>5, <2>1, <2>2, Moves, SameRows
<1> QED
  BY <1>4, <1>5 DEF Ask, NextRow, todo

LEMMA Asking == ASSUME IInv, AskCarrier \/ AskFails PROVE IInv'
<1>1. CASE AskCarrier
  <2>1. PICK t \in job[Sweeper].todo : \E answer \in Answers(t.row) : Ask(answer, t)
    BY <1>1 DEF AskCarrier
  <2>2. PICK answer \in Answers(t.row) : Ask(answer, t)
    BY <2>1
  <2>3. answer \in {"unknown", "shipped", "delivered"}
    BY DEF Answers, MelhorEnvio, Correios
  <2>4. answer = "delivered" => Came(t.o)
    BY DeliveryIsAnswered
  <2>5. job[Sweeper].at = "next" /\ UNCHANGED <<orders, parcels, excused>> /\ calls' \in Nat /\ faults' \in Nat
    BY <1>1 DEF AskCarrier, bounds, IInv, Typed
  <2> QED
    BY <2>2, <2>3, <2>4, <2>5, Asks
<1>2. CASE AskFails
  <2>1. PICK t \in job[Sweeper].todo : Ask("unknown", t)
    BY <1>2 DEF AskFails
  <2>2. job[Sweeper].at = "next" /\ UNCHANGED <<orders, parcels, excused>> /\ calls' \in Nat /\ faults' \in Nat
    BY <1>2 DEF AskFails, Fault, IInv, Typed
  <2> QED
    BY <2>1, <2>2, Asks
<1> QED
  BY <1>1, <1>2

LEMMA Crashes == ASSUME IInv, NEW w \in Processes, Crash(w) PROVE IInv'
<1>1. job' = [job EXCEPT ![w] = Idle] /\ job[w].at \notin Buying
  BY DEF Crash, Done
<1>2. UNCHANGED <<orders, parcels, excused>> /\ calls' \in Nat /\ faults' \in Nat
  BY DEF Crash, Fault, IInv, Typed
<1>3. JobTracked(Idle) /\ JobTrue(Idle) /\ Idle.at \notin Buying
  BY IdleJob DEF JobTracked, JobTrue, Buying
<1> QED
  BY <1>1, <1>2, <1>3, IdleJob, Moves, SameRows

-----------------------------------------------------------------------------
(* The parcels' way *)

\* What a parcel has been bought for and brought to stays.
GoesOn ==
    /\ parcels' \in [Parcels -> [of : SomeOrder, at : Places]]
    /\ \A s \in Parcels : parcels[s].at # "none" => parcels'[s].of = parcels[s].of /\ parcels'[s].at # "none"
    /\ \A s \in Parcels :
         parcels[s].at \in {"attempted", "delivered"} => parcels'[s].at \in {"attempted", "delivered"}

LEMMA WhatStays ==
    ASSUME Typed, GoesOn
    PROVE  /\ \A o, s : For(o, s) => For(o, s)'
           /\ \A o \in Orders : Came(o) => Came(o)'
<1>1. \A o, s : For(o, s) => For(o, s)'
  BY DEF For, GoesOn
<1>2. \A o \in Orders : Came(o) => Came(o)'
  BY DEF Came, GoesOn
<1> QED
  BY <1>1, <1>2

\* No row names a parcel that is not of its order after a label's step, which
\* writes none.
LEMMA StaysTracked ==
    ASSUME IInv, GoesOn, UNCHANGED orders, NEW w \in Processes, NEW j \in Job,
           job' = [job EXCEPT ![w] = j], JobTracked(j)', JobTrue(j)'
    PROVE  Tracked' /\ Arrived'
<1> USE DEF IInv
<1>1. \A v \in Processes : job'[v] = IF v = w THEN j ELSE job[v]
  BY DEF Typed
<1>2. /\ \A o, s : For(o, s) => For(o, s)'
      /\ \A o \in Orders : Came(o) => Came(o)'
  BY WhatStays
<1>3. \A o, row : RowTracked(o, row) => RowTracked(o, row)'
  BY <1>2 DEF RowTracked, OrNone
<1>4. \A v \in Processes : JobTracked(job[v])'
  <2> SUFFICES ASSUME NEW v \in Processes, v # w PROVE JobTracked(job[v])'
    BY <1>1
  <2>1. JobTracked(job[v]) /\ job'[v] = job[v]
    BY <1>1 DEF Tracked
  <2>2. /\ job[v].at \in {"emit", "store"} => For(job[v].o, job[v].s)'
        /\ job[v].at \notin {"idle", "next"} => OrNone(job[v].o, job[v].id)' /\ OrNone(job[v].o, job[v].code)'
        /\ \A t \in job[v].todo : RowTracked(t.o, t.row)'
    BY <1>2, <1>3, <2>1 DEF JobTracked, OrNone
  <2> QED
    BY <2>1, <2>2 DEF JobTracked
<1>5. \A o \in Orders : RowTracked(o, orders[o])'
  BY <1>3 DEF Tracked, RowTracked
<1>6. \A v \in Processes : JobTrue(job[v])'
  <2> SUFFICES ASSUME NEW v \in Processes, v # w PROVE JobTrue(job[v])'
    BY <1>1
  <2> QED
    BY <1>1, <1>2 DEF Typed, Arrived, JobTrue
<1>7. DeliveredIsReal'
  BY <1>2 DEF Arrived, DeliveredIsReal, Came
<1> QED
  BY <1>4, <1>5, <1>6, <1>7 DEF Tracked, Arrived

LEMMA Carries == ASSUME IInv, NEW s \in Parcels, Carry(s) PROVE IInv'
<1> USE DEF IInv
<1>1. PICK place \in {"posted", "attempted", "delivered"} : parcels' = [parcels EXCEPT ![s].at = place]
  BY DEF Carry, Move
<1>2. /\ parcels[s].at \in {"generated", "posted", "attempted"}
      /\ parcels[s].at = "attempted" => place = "delivered"
  BY <1>1 DEF Carry, Move, Typed
<1>3. GoesOn
  BY <1>1, <1>2, PlaceNames DEF GoesOn, Typed
<1>4. UNCHANGED <<orders, job, excused, calls, faults>>
  BY DEF Carry, bounds
<1>5. Typed'
  BY <1>3, <1>4 DEF Typed, GoesOn
<1>6. OneBuyer'
  BY <1>1, <1>2, <1>4 DEF OneBuyer, InHand, Typed
<1>7. \A o, r : For(o, r)' <=> For(o, r)
  BY <1>1, <1>2 DEF For, Typed
<1>8. \A o \in Orders : Paid(o)' = Paid(o) /\ Paying(o)' = Paying(o) /\ Due(o)' = Due(o)
  <2>1. \A o \in Orders : Paid(o)' = Paid(o)
    BY <1>5, <1>7, PaidParcels, PaidParcelsNext
  <2> QED
    BY <1>4, <2>1 DEF Paying, Due, Overlaps
<1>9. Bought'
  BY <1>4, <1>8 DEF Bought
<1>10. Sweeper \in Processes /\ job' = [job EXCEPT ![Sweeper] = job[Sweeper]] /\ job[Sweeper] \in Job
  BY <1>4 DEF Processes, Typed
<1>11. JobTracked(job[Sweeper])' /\ JobTrue(job[Sweeper])'
  <2>1. JobTracked(job[Sweeper]) /\ JobTrue(job[Sweeper])
    BY <1>10 DEF Tracked, Arrived
  <2>2. \A o : OrNone(o, job[Sweeper].id)' <=> OrNone(o, job[Sweeper].id)
    BY <1>4, <1>7 DEF OrNone
  <2>3. \A o : OrNone(o, job[Sweeper].code)' <=> OrNone(o, job[Sweeper].code)
    BY <1>4, <1>7 DEF OrNone
  <2>4. \A t \in job[Sweeper].todo : RowTracked(t.o, t.row)'
    BY <1>7, <2>1 DEF JobTracked, RowTracked, OrNone
  <2>5. JobTrue(job[Sweeper])'
    BY <1>3, <1>4, <1>10, <2>1, WhatStays DEF JobTrue, Typed
  <2> QED
    BY <1>4, <1>7, <2>1, <2>2, <2>3, <2>4, <2>5 DEF JobTracked
<1>12. Tracked' /\ Arrived'
  BY <1>3, <1>4, <1>10, <1>11, StaysTracked
<1> QED
  BY <1>5, <1>6, <1>9, <1>12

LEMMA Refunds == ASSUME IInv, NEW o \in Orders, Refunded(o) PROVE IInv'
<1> USE DEF IInv
<1>1. /\ orders' \in [Orders -> Row]
      /\ \A q \in Orders : /\ orders'[q].shipment = orders[q].shipment
                           /\ orders'[q].label = orders[q].label
                           /\ orders'[q].code = orders[q].code
                           /\ orders'[q].status \in {orders[q].status, "REFUNDED"}
  BY DEF Refunded, Typed, Row, Statuses
<1>2. Sweeper \in Processes /\ job' = [job EXCEPT ![Sweeper] = job[Sweeper]] /\ job[Sweeper] \in Job
  BY DEF Refunded, Processes, Typed
<1>3. JobTracked(job[Sweeper]) /\ JobTrue(job[Sweeper])
  BY <1>2 DEF Tracked, Arrived
<1>4. UNCHANGED <<parcels, excused>> /\ calls' \in Nat /\ faults' \in Nat
  BY DEF Refunded, bounds, Typed
<1>5. job[Sweeper].at \notin Buying /\ (job[Sweeper].at \notin {"idle", "next"} => job[Sweeper].o \in Orders)
  BY <1>2 DEF Typed
<1>6. \A q \in Orders :
         /\ RowTracked(q, orders'[q])
         /\ Labelled(orders[q]) => Labelled(orders'[q])
         /\ orders'[q].status = "DELIVERED" => "DELIVERED" \in Asked \/ Came(q)
  BY <1>1 DEF Tracked, RowTracked, Labelled, Arrived, DeliveredIsReal, Came
<1> QED
  BY <1>1, <1>2, <1>3, <1>4, <1>5, <1>6, Moves

-----------------------------------------------------------------------------
(* Labels *)

\* A call that ends without one, or goes on to pay: beside a call under way it
\* is excused, else there was neither a label nor a call.
LEMMA StartsLabel == ASSUME IInv, NEW w \in Workers, NEW o \in Orders, StartLabel(w, o) PROVE IInv'
<1> USE DEF IInv
<1> DEFINE new == [Idle EXCEPT !.at = "buy", !.o = o]
<1>1. /\ w \in Processes /\ job[w].at = "idle" /\ UNCHANGED <<orders, parcels>>
      /\ calls' \in Nat /\ faults' \in Nat
  BY DEF StartLabel, Begin, Free, Processes, Typed
<1>2. CASE ~NeedsLabel(orders[o])
  <2>1. job' = [job EXCEPT ![w] = Idle] /\ excused' = excused
    BY <1>2 DEF StartLabel, Begin, Typed
  <2>2. /\ job[w].at \notin Buying /\ Idle.at \notin Buying
        /\ JobTracked(Idle) /\ JobTrue(Idle)
    BY <1>1, IdleJob DEF Buying, JobTracked, JobTrue
  <2> QED
    BY <1>1, <2>1, <2>2, IdleJob, Moves, SameRows
<1>3. CASE NeedsLabel(orders[o])
  <2>1. job' = [job EXCEPT ![w] = new]
    BY <1>3 DEF StartLabel, Begin
  <2>2. /\ new \in Job /\ new.at = "buy" /\ new.o = o /\ new.id = NoParcel
        /\ new.code = NoParcel /\ new.todo = {}
    BY IdleJob DEF Job, Stops, SomeOrder
  <2> HIDE DEF new
  <2>3. \A v \in Processes : job'[v] = IF v = w THEN new ELSE job[v]
    BY <1>1, <2>1 DEF Typed
  <2>4. excused' = [excused EXCEPT ![o] = IF Overlaps(o) THEN @ + 1 ELSE @]
    BY <1>3 DEF StartLabel
  <2>5. Workers \subseteq Processes /\ Sweeper \notin Workers
    BY ShippingAssumption DEF Processes
  <2>6. Typed'
    <3>1. job' \in [Processes -> Job]
      BY <2>1, <2>2 DEF Typed
    <3>4. (IF Overlaps(o) THEN excused[o] + 1 ELSE excused[o]) \in Nat
      BY DEF Typed
    <3>5. excused' \in [Orders -> Nat]
      BY <2>4, <3>4 DEF Typed
    <3>2. job'[Sweeper] = job[Sweeper]
      BY <2>3, <2>5 DEF Processes
    <3>3. \A v \in Processes : job'[v].at \notin {"idle", "next"} => job'[v].o \in Orders
      BY <2>2, <2>3 DEF Typed
    <3> QED
      BY <1>1, <3>1, <3>2, <3>3, <3>5 DEF Typed
  <2>7. OneBuyer'
    BY <1>1, <2>2, <2>3, <2>5 DEF OneBuyer, InHand
  <2>8. /\ Paying(o)' = Paying(o) \cup {w} /\ w \notin Paying(o)
        /\ \A q \in Orders \ {o} : Paying(q)' = Paying(q)
    BY <1>1, <2>2, <2>3, <2>5 DEF Paying
  <2>9. /\ Overlaps(o)'
        /\ \A q \in Orders \ {o} : Overlaps(q)' <=> Overlaps(q)
    BY <1>1, <2>2, <2>3, <2>5 DEF Overlaps, Buying
  <2>10. \A q : Paid(q)' = Paid(q)
    BY <1>1 DEF Paid, Reached
  <2>11. ~Labelled(orders[o])
    BY <1>3 DEF NeedsLabel, Labelled
  <2>12. Bought'
    <3> SUFFICES ASSUME NEW q \in Orders
                 PROVE  Cardinality(Paid(q))' + Cardinality(Paying(q))' <= excused'[q] + Due(q)'
      BY DEF Bought
    <3>1. /\ Cardinality(Paid(q)) + Cardinality(Paying(q)) <= excused[q] + Due(q)
          /\ Cardinality(Paid(q)) \in Nat /\ Cardinality(Paying(q)) \in Nat /\ excused[q] \in Nat
      BY Counts DEF Bought, Typed
    <3>2. CASE q # o
      <4>1. Due(q)' = Due(q) /\ excused'[q] = excused[q] /\ Paying(q)' = Paying(q)
        BY <1>1, <2>4, <2>8, <2>9, <3>2 DEF Due, Typed
      <4> QED
        BY <2>10, <3>1, <4>1
    <3>3. CASE q = o
      <4>1. Cardinality(Paying(o) \cup {w}) = Cardinality(Paying(o)) + 1
        BY <2>8, Counts, FS_AddElement
      <4>2. Due(o)' = 1 /\ Due(o) = IF Overlaps(o) THEN 1 ELSE 0
        BY <2>9, <2>11 DEF Due
      <4>3. excused'[o] = excused[o] + (IF Overlaps(o) THEN 1 ELSE 0)
        BY <2>4 DEF Typed
      <4> QED
        <5>1. Cardinality(Paying(o))' = Cardinality(Paying(o)) + 1 /\ Cardinality(Paid(o))' = Cardinality(Paid(o))
          BY <2>8, <2>10, <4>1
        <5> QED
          BY <3>1, <3>3, <4>2, <4>3, <5>1
    <3> QED
      BY <3>2, <3>3
  <2>13. GoesOn
    BY <1>1 DEF GoesOn, Typed
  <2>14. JobTracked(new)' /\ JobTrue(new)'
    BY <2>2 DEF JobTracked, JobTrue, OrNone
  <2>15. Tracked' /\ Arrived'
    BY <1>1, <2>1, <2>2, <2>13, <2>14, StaysTracked
  <2> QED
    BY <2>6, <2>7, <2>12, <2>15
<1> QED
  BY <1>2, <1>3

\* What a step at a label of o leaves of the other orders' count.
LEMMA OthersCount ==
    ASSUME IInv, Typed', NEW w \in Workers, job[w].at \in Buying, NEW j \in Job,
           j.at \in Buying => j.o = job[w].o, job' = [job EXCEPT ![w] = j],
           NEW q \in Orders, q # job[w].o, \A s : For(q, s)' <=> For(q, s),
           orders'[q] = orders[q], excused'[q] = excused[q]
    PROVE  Cardinality(Paid(q))' + Cardinality(Paying(q))' <= excused'[q] + Due(q)'
<1> USE DEF IInv
<1>1. \A v \in Processes : job'[v] = IF v = w THEN j ELSE job[v]
  BY DEF Typed
<1>2. Workers \subseteq Processes
  BY DEF Processes
<1>3. Paying(q)' = Paying(q) /\ (Overlaps(q)' <=> Overlaps(q))
  BY <1>1, <1>2 DEF Paying, Overlaps, Buying
<1>4. Paid(q)' = Paid(q)
  BY PaidParcels, PaidParcelsNext
<1>5. Due(q)' = Due(q)
  BY <1>3 DEF Due
<1> QED
  BY <1>3, <1>4, <1>5 DEF Bought

\* The carrier is paid: the parcel is new.
LEMMA Buys == ASSUME IInv, NEW w \in Workers, Buy(w) PROVE IInv'
<1> USE DEF IInv
<1>0. PICK old, o : old = job[w] /\ o = old.o
  OBVIOUS
<1>1. w \in Processes /\ Workers \subseteq Processes /\ Sweeper \notin Workers
  BY ShippingAssumption DEF Processes
<1>2. job[w].at = "buy" /\ job[w] \in Job /\ o \in Orders /\ UNCHANGED <<orders, excused, calls, faults>>
  BY <1>0, <1>1 DEF Buy, Typed, bounds
<1>3. PICK s \in Parcels :
         /\ parcels[s].at = "none"
         /\ parcels' = [parcels EXCEPT ![s] = [of |-> o, at |-> "released"]]
         /\ job' = [job EXCEPT ![w].at = "emit", ![w].s = s]
  BY <1>0 DEF Buy, Fresh
<1>15. PICK new : new = [[job[w] EXCEPT !.at = "emit"] EXCEPT !.s = s]
  OBVIOUS
<1>4. /\ new \in Job /\ new.at = "emit" /\ new.o = o /\ new.s = s /\ new.id = old.id
      /\ new.code = old.code /\ new.todo = old.todo
  BY <1>0, <1>2, <1>15, Codes DEF Job, Stops
<1>5. job' = [job EXCEPT ![w] = new]
  BY <1>1, <1>3, <1>15 DEF Typed
<1>6. \A v \in Processes : job'[v] = IF v = w THEN new ELSE job[v]
  BY <1>1, <1>5 DEF Typed
<1>7. \A r \in Parcels : parcels'[r] = IF r = s THEN [of |-> o, at |-> "released"] ELSE parcels[r]
  BY <1>3 DEF Typed
<1>8. GoesOn
  BY <1>2, <1>3, <1>7, PlaceNames DEF GoesOn, Typed, SomeOrder
<1>9. Typed'
  BY <1>1, <1>2, <1>4, <1>5, <1>6, <1>8 DEF Typed, GoesOn, Buying
<1>10. OneBuyer'
  <2>1. ASSUME NEW v \in Workers \ {w}, InHand(v)'
        PROVE  job'[v] = job[v] /\ InHand(v) /\ job[v].s # s
    <3>1. job'[v] = job[v] /\ v \in Workers
      BY <1>1, <1>6
    <3>2. InHand(v)
      BY <2>1, <3>1 DEF InHand
    <3>3. parcels[job[v].s].at = "released"
      BY <3>1, <3>2 DEF OneBuyer
    <3> QED
      BY <1>3, <3>1, <3>2, <3>3
  <2>2. job'[w].s = s /\ parcels'[s].at = "released"
    <3>1. job'[w] = new
      BY <1>1, <1>6
    <3>2. parcels'[s] = [of |-> o, at |-> "released"]
      BY <1>7
    <3> QED
      BY <1>4, <3>1, <3>2
  <2>3. ASSUME NEW v \in Workers \ {w}, InHand(v)'
        PROVE  /\ job'[v].s \in Parcels /\ parcels'[job'[v].s].at = "released"
               /\ \A u \in Workers \ {v} : InHand(u)' => job'[u].s # job'[v].s
    <3>1. job[v].s \in Parcels /\ parcels[job[v].s].at = "released"
      BY <2>1, <2>3 DEF OneBuyer
    <3>2. \A u \in Workers \ {v, w} : InHand(u)' => job'[u].s # job'[v].s
      BY <2>1, <2>3 DEF OneBuyer
    <3> QED
      BY <1>7, <2>1, <2>2, <2>3, <3>1, <3>2
  <2> QED
    BY <2>1, <2>2, <2>3 DEF OneBuyer
<1>11. For(o, s)' /\ ~For(o, s) /\ \A q, r : q # o \/ r # s => (For(q, r)' <=> For(q, r))
  BY <1>3, <1>7 DEF For
<1>12. Bought'
  <2> SUFFICES ASSUME NEW q \in Orders
               PROVE  Cardinality(Paid(q))' + Cardinality(Paying(q))' <= excused'[q] + Due(q)'
    BY DEF Bought
  <2>1. CASE q # o
    BY <1>0, <1>2, <1>4, <1>5, <1>9, <1>11, <2>1, OthersCount DEF Buying
  <2>2. CASE q = o
    <3>1. Paid(o)' = Paid(o) \cup {s} /\ s \notin Paid(o)
      BY <1>2, <1>9, <1>11, PaidParcels, PaidParcelsNext
    <3>2. Paying(o)' = Paying(o) \ {w} /\ w \in Paying(o)
      BY <1>0, <1>1, <1>2, <1>4, <1>6 DEF Paying
    <3>3. /\ Cardinality(Paid(o))' = Cardinality(Paid(o)) + 1
          /\ Cardinality(Paying(o))' = Cardinality(Paying(o)) - 1
      <4>1. Cardinality(Paid(o) \cup {s}) = Cardinality(Paid(o)) + 1
        BY <3>1, Counts, FS_AddElement
      <4>2. Cardinality(Paying(o) \ {w}) = Cardinality(Paying(o)) - 1
        BY <3>2, Counts, FS_RemoveElement
      <4> QED
        BY <3>1, <3>2, <4>1, <4>2
    <3>4. Overlaps(o)' /\ Overlaps(o)
      BY <1>0, <1>1, <1>2, <1>4, <1>6 DEF Overlaps, Buying
    <3>5. Due(o)' = Due(o)
      BY <3>4 DEF Due
    <3>6. /\ Cardinality(Paid(o)) + Cardinality(Paying(o)) <= excused[o] + Due(o)
          /\ Cardinality(Paid(o)) \in Nat /\ Cardinality(Paying(o)) \in Nat
      BY <1>2, Counts DEF Bought
    <3> QED
      BY <1>2, <2>2, <3>3, <3>5, <3>6
  <2> QED
    BY <2>1, <2>2
<1>13. JobTracked(new)' /\ JobTrue(new)'
  <2>1. JobTracked(old)
    BY <1>0, <1>1 DEF Tracked
  <2>2. /\ OrNone(o, old.id)' /\ OrNone(o, old.code)'
        /\ \A t \in old.todo : RowTracked(t.o, t.row)'
    BY <1>0, <1>2, <1>8, <2>1, WhatStays DEF JobTracked, RowTracked, OrNone
  <2>3. JobTracked(new)'
    BY <1>4, <1>11, <2>2 DEF JobTracked, OrNone
  <2>4. JobTrue(new)'
    BY <1>4 DEF JobTrue
  <2> QED
    BY <2>3, <2>4
<1>14. Tracked' /\ Arrived'
  BY <1>1, <1>2, <1>4, <1>5, <1>8, <1>13, StaysTracked
<1> QED
  BY <1>9, <1>10, <1>12, <1>14

\* A step of a handler at a label that leaves the parcels where they were or
\* brings its own on, and no longer pays.
LEMMA LabelEnds ==
    ASSUME IInv, NEW w \in Workers, NEW o \in Orders, job[w].at \in Buying, job[w].o = o,
           NEW new \in Job, job' = [job EXCEPT ![w] = new], new.at \in {"idle", "store"},
           new.at = "store" => new.o = o /\ For(o, new.s),
           OrNone(o, new.id), OrNone(o, new.code), \A t \in new.todo : RowTracked(t.o, t.row),
           GoesOn, \A q, r : q # o => (For(q, r)' <=> For(q, r)),
           \A r \in Parcels : ~(\E v \in Workers : InHand(v) /\ job[v].s = r /\ v # w)
               \/ parcels'[r] = parcels[r],
           UNCHANGED orders, excused' \in [Orders -> Nat], calls' \in Nat, faults' \in Nat,
           \A q \in Orders \ {o} : excused'[q] = excused[q],
           Cardinality(Paid(o))' + Cardinality(Paying(o))' <= excused'[o] + Due(o)'
    PROVE  IInv'
<1> USE DEF IInv
<1>1. w \in Processes /\ Workers \subseteq Processes /\ Sweeper \in Processes /\ w # Sweeper
  BY ShippingAssumption DEF Processes
<1>2. \A v \in Processes : job'[v] = IF v = w THEN new ELSE job[v]
  BY <1>1 DEF Typed
<1>3. Typed'
  <2>1. orders' \in [Orders -> Row] /\ job' \in [Processes -> Job]
    BY DEF Typed
  <2>2. \A v \in Processes : job'[v].at \notin {"idle", "next"} => job'[v].o \in Orders
    BY <1>2 DEF Typed
  <2> QED
    BY <1>1, <1>2, <2>1, <2>2 DEF Typed, GoesOn
<1>4. OneBuyer'
  <2>1. \A v \in Workers : InHand(v)' => v # w /\ job'[v] = job[v] /\ InHand(v)
    BY <1>1, <1>2 DEF InHand
  <2> QED
    BY <2>1 DEF OneBuyer, GoesOn
<1>5. Bought'
  <2> SUFFICES ASSUME NEW q \in Orders, q # o
               PROVE  Cardinality(Paid(q))' + Cardinality(Paying(q))' <= excused'[q] + Due(q)'
    BY DEF Bought
  <2> QED
    BY <1>3, OthersCount DEF Buying
<1>6. JobTracked(new)' /\ JobTrue(new)'
  BY WhatStays DEF JobTracked, JobTrue, RowTracked, OrNone
<1>7. Tracked' /\ Arrived'
  BY <1>1, <1>6, StaysTracked
<1> QED
  BY <1>3, <1>4, <1>5, <1>7

\* The label is made: the parcel is the handler's alone.
LEMMA Emits == ASSUME IInv, NEW w \in Workers, Emit(w) PROVE IInv'
<1> USE DEF IInv
<1>1. PICK pdf \in BOOLEAN, code \in {job[w].s, NoParcel} :
         /\ faults' = IF pdf THEN faults ELSE faults + 1
         /\ job' = [job EXCEPT ![w].at = "store", ![w].pdf = pdf, ![w].code = code]
  BY DEF Emit
<1>2. PICK old, o, s : old = job[w] /\ o = old.o /\ s = old.s
  OBVIOUS
<1>3. PICK new : new = [[[old EXCEPT !.at = "store"] EXCEPT !.pdf = pdf] EXCEPT !.code = code]
  OBVIOUS
<1>4. w \in Processes /\ old \in Job /\ old.at = "emit" /\ o \in Orders /\ InHand(w)
  BY <1>2 DEF Emit, Typed, Processes, InHand
<1>5. s \in Parcels /\ parcels[s].at = "released" /\ For(o, s) /\ OrNone(o, old.id)
  BY <1>2, <1>4 DEF OneBuyer, Tracked, JobTracked, For
<1>6. parcels' = [parcels EXCEPT ![s].at = "generated"]
  BY <1>2 DEF Emit, Move
<1>7. /\ new \in Job /\ new.at = "store" /\ new.o = o /\ new.s = s /\ new.id = old.id
      /\ new.code \in {s, NoParcel} /\ new.todo = old.todo
  BY <1>2, <1>3, <1>4, Codes DEF Job, Stops
<1>8. job' = [job EXCEPT ![w] = new]
  BY <1>1, <1>2, <1>3, <1>4 DEF Typed
<1>9. GoesOn
  BY <1>5, <1>6, PlaceNames DEF GoesOn, Typed
<1>10. \A q, r : For(q, r)' <=> For(q, r)
  BY <1>5, <1>6 DEF For, Typed
<1>11. \A r \in Parcels : ~(\E v \in Workers : InHand(v) /\ job[v].s = r /\ v # w)
               \/ parcels'[r] = parcels[r]
  BY <1>2, <1>4, <1>6 DEF OneBuyer, Typed
<1>12. Cardinality(Paid(o))' + Cardinality(Paying(o))' <= excused'[o] + Due(o)'
  <2>1. \A v \in Workers : job'[v] = IF v = w THEN new ELSE job[v]
    BY <1>8 DEF Typed, Processes
  <2>2. Paying(o)' = Paying(o) /\ Overlaps(o) /\ Overlaps(o)'
    BY <1>2, <1>4, <1>7, <2>1 DEF Paying, Overlaps, Buying
  <2>3. \A r \in Parcels : Reached(r, "released")' <=> Reached(r, "released")
    BY <1>5, <1>6 DEF Reached, Way, Typed
  <2>4. Paid(o)' = Paid(o)
    BY <1>5, <1>6, <2>3 DEF Paid, Typed
  <2>5. Due(o)' = Due(o) /\ excused' = excused
    BY <2>2 DEF Due, Emit
  <2> QED
    BY <1>4, <2>2, <2>4, <2>5 DEF Bought
<1>13. /\ UNCHANGED <<orders, excused>> /\ excused' \in [Orders -> Nat]
       /\ calls' \in Nat /\ faults' \in Nat
  BY <1>1 DEF Emit, Typed
<1>14. OrNone(o, new.id) /\ OrNone(o, new.code) /\ \A t \in new.todo : RowTracked(t.o, t.row)
  BY <1>2, <1>4, <1>5, <1>7 DEF OrNone, Tracked, JobTracked
<1>15. job[w].at \in Buying /\ job[w].o = o
  BY <1>2, <1>4 DEF Buying
<1> QED
  BY <1>4, <1>5, <1>7, <1>8, <1>9, <1>10, <1>11, <1>12, <1>13, <1>14, <1>15, LabelEnds

\* A label that fails may have been paid for: it is excused.
LEMMA Fails == ASSUME IInv, NEW w \in Workers, LabelFails(w) PROVE IInv'
<1> USE DEF IInv
<1>1. PICK o : o = job[w].o
  OBVIOUS
<1>2. /\ w \in Processes /\ job[w] \in Job /\ job[w].at \in Buying /\ o \in Orders
      /\ job' = [job EXCEPT ![w] = Idle] /\ UNCHANGED orders
      /\ excused' = [excused EXCEPT ![o] = @ + 1]
      /\ calls' \in Nat /\ faults' \in Nat
  BY <1>1 DEF LabelFails, Typed, Processes, Buying, Done, Fault
<1>3. excused' \in [Orders -> Nat] /\ excused'[o] = excused[o] + 1 /\ excused[o] \in Nat
  BY <1>2 DEF Typed
<1>4. \A q \in Orders \ {o} : excused'[q] = excused[q]
  BY <1>2 DEF Typed
<1>5. \A v \in Workers : job'[v] = IF v = w THEN Idle ELSE job[v]
  BY <1>2 DEF Typed, Processes
<1>6. /\ Paying(o)' = Paying(o) \ {w}
      /\ job[w].at = "buy" => w \in Paying(o)
  BY <1>1, <1>5, IdleJob DEF Paying
<1>7. /\ Cardinality(Paying(o))' <= Cardinality(Paying(o))
      /\ job[w].at = "buy" => Cardinality(Paying(o))' = Cardinality(Paying(o)) - 1
      /\ Cardinality(Paying(o))' \in Nat
  <2>1. Cardinality(Paying(o) \ {w}) = IF w \in Paying(o) THEN Cardinality(Paying(o)) - 1
                                       ELSE Cardinality(Paying(o))
    BY Counts, FS_RemoveElement
  <2>2. IsFiniteSet(Paying(o) \ {w})
    BY Counts, FS_RemoveElement
  <2>3. Cardinality(Paying(o) \ {w}) \in Nat
    BY <2>2, FS_CardinalityType
  <2> QED
    BY <1>6, <2>1, <2>3, Counts
<1>8. /\ Cardinality(Paid(o)) + Cardinality(Paying(o)) <= excused[o] + Due(o)
      /\ Due(o) \in {0, 1} /\ Due(o)' \in {0, 1}
      /\ Cardinality(Paid(o)) \in Nat /\ Cardinality(Paying(o)) \in Nat
  BY <1>2, Counts DEF Bought, Due
<1>9. JobTracked(Idle) /\ OrNone(o, Idle.id) /\ OrNone(o, Idle.code)
  BY IdleJob DEF JobTracked, OrNone
<1>10. Idle.at = "idle" /\ Idle \in Job /\ \A t \in Idle.todo : RowTracked(t.o, t.row)
  BY IdleJob
<1> HIDE DEF IInv
\* What is left to say of each case: the parcels and their number.
<1>11. ASSUME GoesOn, \A q, r : q # o => (For(q, r)' <=> For(q, r)),
              \A r \in Parcels : ~(\E v \in Workers : InHand(v) /\ job[v].s = r /\ v # w)
                  \/ parcels'[r] = parcels[r],
              \/ Paid(o)' = Paid(o)
              \/ job[w].at = "buy" /\ \E r : r \notin Paid(o) /\ Paid(o)' = Paid(o) \cup {r}
       PROVE  IInv'
  <2>1. \/ Cardinality(Paid(o))' = Cardinality(Paid(o))
        \/ job[w].at = "buy" /\ Cardinality(Paid(o))' = Cardinality(Paid(o)) + 1
    <3>1. CASE Paid(o)' = Paid(o)
      BY <3>1
    <3>2. CASE job[w].at = "buy" /\ \E r : r \notin Paid(o) /\ Paid(o)' = Paid(o) \cup {r}
      <4>1. PICK r : r \notin Paid(o) /\ Paid(o)' = Paid(o) \cup {r}
        BY <3>2
      <4>2. Cardinality(Paid(o) \cup {r}) = Cardinality(Paid(o)) + 1
        BY <4>1, Counts, FS_AddElement
      <4> QED
        BY <3>2, <4>1, <4>2
    <3> QED
      BY <1>11, <3>1, <3>2
  <2>2. Cardinality(Paid(o))' + Cardinality(Paying(o))' <= excused'[o] + Due(o)'
    BY <1>3, <1>7, <1>8, <2>1
  <2> QED
    BY <1>1, <1>2, <1>3, <1>4, <1>9, <1>10, <1>11, <2>2, LabelEnds
<1>12. CASE UNCHANGED parcels
  <2>1. Paid(o)' = Paid(o) /\ \A q, r : For(q, r)' <=> For(q, r)
    BY <1>12 DEF Paid, Reached, For
  <2>2. GoesOn
    BY <1>12 DEF GoesOn, IInv, Typed
  <2> QED
    BY <1>11, <1>12, <2>1, <2>2
<1>13. ASSUME job[w].at = "buy", NEW s \in Parcels, parcels[s].at = "none",
              parcels' = [parcels EXCEPT ![s] = [of |-> o, at |-> "released"]]
       PROVE  IInv'
  <2>1. \A r \in Parcels : parcels'[r] = IF r = s THEN [of |-> o, at |-> "released"] ELSE parcels[r]
    BY <1>13 DEF IInv, Typed
  <2>2. GoesOn
    BY <1>2, <1>13, <2>1, PlaceNames DEF GoesOn, IInv, Typed, SomeOrder
  <2>3. For(o, s)' /\ ~For(o, s) /\ \A q, r : q # o \/ r # s => (For(q, r)' <=> For(q, r))
    BY <1>13, <2>1 DEF For
  <2>4. \A r \in Parcels : ~(\E v \in Workers : InHand(v) /\ job[v].s = r /\ v # w)
               \/ parcels'[r] = parcels[r]
    BY <1>13, <2>1 DEF IInv, OneBuyer
  <2>5. s \notin Paid(o) /\ Paid(o)' = Paid(o) \cup {s}
    <3>1. ~Reached(s, "released") /\ Reached(s, "released")'
      BY <1>13, <2>1 DEF Reached, Way
    <3>2. \A r \in Parcels \ {s} : Reached(r, "released")' <=> Reached(r, "released")
      BY <2>1 DEF Reached
    <3> QED
      BY <2>1, <3>1, <3>2 DEF Paid
  <2> QED
    BY <1>11, <1>13, <2>2, <2>3, <2>4, <2>5
<1>14. ASSUME job[w].at = "emit", Move(job[w].s, "generated")
       PROVE  IInv'
  <2>1. PICK s : s = job[w].s
    OBVIOUS
  <2>2. s \in Parcels /\ parcels[s].at = "released" /\ parcels' = [parcels EXCEPT ![s].at = "generated"]
    BY <1>14, <2>1 DEF IInv, OneBuyer, InHand, Move
  <2>3. GoesOn
    BY <2>2, PlaceNames DEF GoesOn, IInv, Typed
  <2>4. \A q, r : For(q, r)' <=> For(q, r)
    BY <2>2 DEF For, IInv, Typed
  <2>5. \A r \in Parcels : ~(\E v \in Workers : InHand(v) /\ job[v].s = r /\ v # w)
               \/ parcels'[r] = parcels[r]
    BY <1>14, <2>1, <2>2 DEF IInv, OneBuyer, InHand, Typed
  <2>6. Paid(o)' = Paid(o)
    <3>1. \A r \in Parcels : Reached(r, "released")' <=> Reached(r, "released")
      BY <2>2 DEF Reached, Way, IInv, Typed
    <3> QED
      BY <2>2, <3>1 DEF Paid, IInv, Typed
  <2> QED
    BY <1>11, <2>3, <2>4, <2>5, <2>6
<1> QED
  BY <1>1, <1>12, <1>13, <1>14 DEF LabelFails, Fresh

\* The label is stored: with its PDF the order has what it paid for, without
\* it the call is excused.
LEMMA Stores == ASSUME IInv, NEW w \in Workers, StoreLabel(w) PROVE IInv'
<1> USE DEF IInv
<1>1. PICK j, o : j = job[w] /\ o = j.o
  OBVIOUS
<1>2. /\ w \in Processes /\ j \in Job /\ j.at = "store" /\ o \in Orders
      /\ job' = [job EXCEPT ![w] = Idle] /\ UNCHANGED <<parcels, calls, faults>>
  BY <1>1 DEF StoreLabel, Typed, Processes, Done, bounds
<1>3. For(o, j.s) /\ OrNone(o, j.code) /\ j.s # NoParcel
  BY <1>1, <1>2, ShippingAssumption DEF Tracked, JobTracked, For
<1>4. /\ orders' = [orders EXCEPT ![o].shipment = j.s, ![o].label = j.pdf,
                                  ![o].code = IF j.code = NoParcel THEN @ ELSE j.code]
      /\ excused' = [excused EXCEPT ![o] = IF j.pdf THEN @ ELSE @ + 1]
  BY <1>1 DEF StoreLabel
<1>5. orders[o] \in Row /\ j.s \in Code /\ j.code \in Code /\ j.pdf \in BOOLEAN /\ excused[o] \in Nat
  BY <1>2 DEF Typed, Job
<1>6. /\ orders' \in [Orders -> Row]
      /\ orders'[o].shipment = j.s /\ orders'[o].label = j.pdf
      /\ orders'[o].code \in {orders[o].code, j.code}
      /\ orders'[o].status = orders[o].status
      /\ \A q \in Orders \ {o} : orders'[q] = orders[q]
  BY <1>2, <1>4, <1>5 DEF Typed, Row
<1>7. /\ excused' \in [Orders -> Nat] /\ \A q \in Orders \ {o} : excused'[q] = excused[q]
      /\ excused'[o] = IF j.pdf THEN excused[o] ELSE excused[o] + 1
  BY <1>2, <1>4, <1>5 DEF Typed
<1>8. \A v \in Processes : job'[v] = IF v = w THEN Idle ELSE job[v]
  BY <1>2 DEF Typed
<1>9. Workers \subseteq Processes /\ Sweeper \in Processes
  BY DEF Processes
<1>10. Typed'
  <2>1. job' \in [Processes -> Job] /\ job'[Sweeper].at \notin Buying
    BY <1>2, <1>8, <1>9, IdleJob DEF Typed, Buying
  <2>2. \A v \in Processes : job'[v].at \notin {"idle", "next"} => job'[v].o \in Orders
    BY <1>8, IdleJob DEF Typed
  <2> QED
    BY <1>2, <1>6, <1>7, <2>1, <2>2 DEF Typed
<1>11. OneBuyer'
  <2>1. \A v \in Workers : InHand(v)' => v # w /\ job'[v] = job[v] /\ InHand(v)
    BY <1>8, <1>9, IdleJob DEF InHand
  <2> QED
    BY <1>2, <2>1 DEF OneBuyer
<1>12. \A q, r : For(q, r)' <=> For(q, r)
  BY <1>2 DEF For
<1>13. Bought'
  <2> SUFFICES ASSUME NEW q \in Orders
               PROVE  Cardinality(Paid(q))' + Cardinality(Paying(q))' <= excused'[q] + Due(q)'
    BY DEF Bought
  <2>1. CASE q # o
    BY <1>1, <1>2, <1>6, <1>7, <1>10, <1>12, <2>1, IdleJob, OthersCount DEF Buying
  <2>2. CASE q = o
    <3>1. Paying(o)' = Paying(o)
      BY <1>1, <1>2, <1>8, <1>9, IdleJob DEF Paying
    <3>2. Paid(o)' = Paid(o)
      BY <1>2 DEF Paid, Reached
    <3>3. Overlaps(o)
      BY <1>1, <1>2 DEF Overlaps, Buying
    <3>4. Due(o) = 1 /\ Due(o)' \in {0, 1} /\ (j.pdf => Due(o)' = 1)
      BY <1>3, <1>6, <3>3 DEF Due, Labelled
    <3>5. /\ Cardinality(Paid(o)) + Cardinality(Paying(o)) <= excused[o] + Due(o)
          /\ Cardinality(Paid(o)) \in Nat /\ Cardinality(Paying(o)) \in Nat
      BY <1>2, Counts DEF Bought
    <3> QED
      BY <1>5, <1>7, <2>2, <3>1, <3>2, <3>4, <3>5
  <2> QED
    BY <2>1, <2>2
<1>14. Tracked'
  <2>1. \A q \in Orders : RowTracked(q, orders[q])'
    BY <1>3, <1>6, <1>12 DEF Tracked, RowTracked, OrNone
  <2>2. \A v \in Processes : JobTracked(job[v])'
    BY <1>8, <1>12, IdleJob DEF Tracked, JobTracked, RowTracked, OrNone
  <2> QED
    BY <2>1, <2>2 DEF Tracked
<1>15. Arrived'
  <2>1. \A q : Came(q)' <=> Came(q)
    BY <1>2 DEF Came
  <2>2. DeliveredIsReal'
    <3>1. \A q \in Orders : orders'[q].status = orders[q].status
      BY <1>6
    <3>2. ASSUME "DELIVERED" \notin Asked, NEW q \in Orders, orders'[q].status = "DELIVERED"
          PROVE  Came(q)'
      <4>1. Came(q)
        BY <3>1, <3>2 DEF Arrived, DeliveredIsReal, Came
      <4> QED
        BY <4>1, <2>1
    <3> QED
      BY <3>2 DEF DeliveredIsReal, Came
  <2>3. \A v \in Processes : JobTrue(job[v])'
    BY <1>8, <2>1, IdleJob DEF Arrived, JobTrue
  <2> QED
    BY <2>2, <2>3 DEF Arrived
<1> QED
  BY <1>10, <1>11, <1>13, <1>14, <1>15

-----------------------------------------------------------------------------
LEMMA Starts == Init => IInv
<1> SUFFICES ASSUME Init PROVE IInv
  OBVIOUS
<1> USE DEF Init
<1>1. Typed
  <2>1. [of |-> AnyOrder, at |-> "none"] \in [of : SomeOrder, at : Places]
    BY PlaceNames DEF SomeOrder
  <2>2. [status |-> "PAID", approved |-> TRUE, shipment |-> NoParcel, label |-> FALSE,
         code |-> NoParcel] \in Row
    BY Codes DEF Row, Statuses
  <2> QED
    BY <2>1, <2>2, IdleJob, Codes DEF Typed, Buying
<1>2. \A w \in Processes : job[w] = Idle
  OBVIOUS
<1>3. Workers \subseteq Processes
  BY DEF Processes
<1>4. OneBuyer
  BY <1>2, <1>3, IdleJob DEF OneBuyer, InHand
<1>5. Bought
  <2> SUFFICES ASSUME NEW o \in Orders
               PROVE  Cardinality(Paid(o)) + Cardinality(Paying(o)) <= excused[o] + Due(o)
    BY DEF Bought
  <2>1. Paid(o) = {}
    BY <1>1, PaidParcels DEF For
  <2>2. Paying(o) = {}
    BY <1>2, <1>3, IdleJob DEF Paying
  <2>3. Due(o) \in {0, 1} /\ excused[o] = 0
    BY DEF Due
  <2> QED
    BY <2>1, <2>2, <2>3, FS_EmptySet
<1>6. Tracked
  BY <1>2, IdleJob DEF Tracked, RowTracked, OrNone, JobTracked
<1>7. Arrived
  BY <1>2, IdleJob DEF Arrived, DeliveredIsReal, JobTrue
<1> QED
  BY <1>1, <1>4, <1>5, <1>6, <1>7 DEF IInv

LEMMA Stays == IInv /\ UNCHANGED vars => IInv'
<1> SUFFICES ASSUME IInv, UNCHANGED vars PROVE IInv'
  OBVIOUS
<1> USE DEF IInv, vars, bounds
<1>1. Typed'
  BY DEF Typed
<1>2. OneBuyer'
  BY DEF OneBuyer, InHand
<1>3. Bought'
  BY DEF Bought, Paid, Reached, Paying, Due, Overlaps
<1>4. Tracked'
  BY DEF Tracked, RowTracked, OrNone, For, JobTracked
<1>5. Arrived'
  BY DEF Arrived, DeliveredIsReal, JobTrue, Came
<1> QED
  BY <1>1, <1>2, <1>3, <1>4, <1>5

LEMMA Invariance == Spec => []IInv
<1>1. ASSUME IInv, NEW w \in Workers, Work(w) PROVE IInv'
  BY <1>1, Buys, Emits, Stores, Reads, Writes DEF Work, Processes
\* The sweep is at no label.
<1>2. ASSUME IInv, Work(Sweeper) PROVE IInv'
  <2>1. Sweeper \in Processes /\ job[Sweeper].at \notin Buying
    BY <1>2 DEF Processes, IInv, Typed
  <2>2. ReadCurrent(Sweeper) \/ Mark(Sweeper) \/ Link(Sweeper) \/ StaffWrite(Sweeper)
    BY <1>2, <2>1 DEF Work, Buy, Emit, StoreLabel, Buying
  <2> QED
    BY <1>2, <2>1, <2>2, Reads, Writes
<1>3. ASSUME IInv, NEW w \in Workers, Request(w) PROVE IInv'
  BY <1>3, StartsLabel, StaffAsks, Webhooks DEF Request
<1>4. IInv /\ [Next]_vars => IInv'
  BY <1>1, <1>2, <1>3, Fails, Crashes, Selects, Asking, Carries, Refunds, Stays DEF Next, Sweep
<1> QED
  BY Starts, <1>4, PTL DEF Spec

-----------------------------------------------------------------------------
\* The store pays for a second label of an order only after a call that failed,
\* brought no PDF or was still under way, however the button and the automatic
\* label overlap and whatever answers of Melhor Envio are lost.
THEOREM LabelsForCause == Spec => []PaidAgainForCause
<1>1. IInv => PaidAgainForCause
  <2> SUFFICES ASSUME IInv, NEW o \in Orders PROVE Cardinality(Paid(o)) <= 1 + excused[o]
    BY DEF PaidAgainForCause
  <2>1. Due(o) \in {0, 1}
    BY DEF Due
  <2> QED
    BY <2>1, Counts DEF IInv, Bought, Typed
<1> QED
  BY Invariance, <1>1, PTL

\* An order the staff does not mark itself is delivered only if a parcel of it
\* came to the door, whatever notices come late, twice or about another parcel.
THEOREM DeliveriesAreReal == Spec => []DeliveredIsReal
<1>1. IInv => DeliveredIsReal
  BY DEF IInv, Arrived
<1> QED
  BY Invariance, <1>1, PTL
=============================================================================
