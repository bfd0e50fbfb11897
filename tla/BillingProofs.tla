--------------------------- MODULE BillingProofs ---------------------------
(***************************************************************************)
(* Proofs about Billing, for any number of desks, webhooks, invoices and   *)
(* days.  IInv is the inductive invariant of OnePayable.  Its core is Open *)
(* below: an invoice of Pix whose code may still come to be paid.  The     *)
(* transaction that locks the store makes an invoice only when none is     *)
(* open, and nothing opens one again; the other parts say what the handlers *)
(* hold in their hands, so that nobody settles or reopens an invoice whose *)
(* charge is still to be paid.                                             *)
(***************************************************************************)
EXTENDS Billing, FiniteSetTheorems, WellFoundedInduction, TLAPS

-----------------------------------------------------------------------------
(* Types *)

InvoiceStatus == {"absent", "deleted", "PENDING", "APPROVED", "REJECTED", "CANCELLED"}
Pays == [kind : {"none", "pix", "card"}, of : Nat, n : Nat]
InvoiceRow == [status : InvoiceStatus, method : {"PIX", "CARD"}, pay : Pays,
               pre : 0..MaxInvoices, expires : Nat, qr : BOOLEAN]
Words == {"", "none", "pending", "approved", "cancelled", "authorized", "paused"}
StoreRow == [status : {"TRIAL", "ACTIVE", "PAST_DUE", "SUSPENDED"}, due : Nat,
             plan : {"paid", "free"}, method : {"PIX", "CARD"}, pre : 0..MaxInvoices, sub : Words]
PreRow == [status : Words, charges : Nat]
Charges == {"none", "pending", "approved", "cancelled"}
Labels == {"idle", "method", "emit", "lock", "post", "saveqr", "drop", "create", "subscribe", "link",
           "cancelled", "free", "viewfree", "viewpast", "payment", "recurring", "preapproval",
           "demote", "adopt", "load", "grant", "commit", "tests", "freetest", "pastdue", "late",
           "freelate", "end"}
Jobs == [pc : Labels, op : {"", "subscribe", "checkout", "card"}, i : 0..MaxInvoices, pay : Pays,
         seen : Words, had : InvoiceStatus \cup {""}, date : Nat, paid : BOOLEAN]

Typed ==
    /\ now \in Nat
    /\ store \in StoreRow
    /\ inv \in [Invoice -> InvoiceRow]
    /\ charge \in [Invoice -> Charges]
    /\ pre \in [Invoice -> PreRow]
    /\ job \in [Processes -> Jobs]

-----------------------------------------------------------------------------
(* The invariant *)

\* Invoices are made in order, and within the bound: whoever is on the way
\* to one has room for it.
Making == {"method", "emit", "lock", "create"}
Makers == {w \in Processes : job[w].pc \in Making}
Counted ==
    /\ \A i \in Invoice : inv[i].status # "absent" <=> i <= Made
    /\ Made \in Nat
    /\ Made + Cardinality(Makers) <= MaxInvoices

\* A later invoice of Pix does not expire before an earlier one.
Pix(i) == inv[i].method = "PIX"
Dated ==
    \A i \in Invoice : Pix(i) =>
        /\ inv[i].status # "absent"
        /\ inv[i].expires <= now + Validity
        /\ \A k \in Invoice : Pix(k) /\ i < k => inv[i].expires <= inv[k].expires

\* What belongs to a card: preapprovals and what is linked to them.
Card(i) == i \in Invoice /\ inv[i].status # "absent" /\ inv[i].method = "CARD"
Kinds ==
    /\ store.pre # 0 => Card(store.pre)
    /\ \A i \in Invoice :
         /\ pre[i].status # "none" => Card(i)
         /\ pre[i].charges > 0 => Card(i)
         /\ inv[i].pre # 0 => Card(i) /\ Card(inv[i].pre)
         /\ charge[i] # "none" => Pix(i)
         /\ charge[i] = "pending" => inv[i].status = "PENDING"

\* What a process holds in its hands.
PixOf(i) == i \in Invoice /\ Pix(i)
Settled(i) == PixOf(i) /\ charge[i] = "approved"
AsSeen(i, seen) ==
    PixOf(i) /\ charge[i] # "none" /\ (seen \in {"approved", "cancelled"} => charge[i] = seen)

Fits(w) ==
    LET j == job[w] IN
    /\ j.pc = "create" => j.i = 0 \/ Card(j.i)
    /\ j.pc = "post" => PixOf(j.i) /\ charge[j.i] = "none" /\ inv[j.i].status = "PENDING"
    /\ j.pc = "saveqr" => AsSeen(j.i, "pending")
    /\ j.pc = "drop" => PixOf(j.i) /\ charge[j.i] = "none"
    /\ j.pc \in {"subscribe", "link", "recurring", "preapproval", "adopt"} => Card(j.i)
    /\ j.pc = "payment" => (Card(j.i) /\ j.seen = "approved") \/ AsSeen(j.i, j.seen)
    /\ j.pc \in {"load", "grant", "commit"} => Card(j.i) \/ Settled(j.i)

\* No two processes wait for the charge of one invoice.
Posting == {"post", "drop"}
Apart ==
    \A v, w \in Processes :
        v # w /\ job[v].pc \in Posting /\ job[w].pc \in Posting => job[v].i # job[w].i

\* The code of the invoice can be paid, or may yet be.
Open(i) ==
    /\ Pix(i) /\ inv[i].status = "PENDING"
    /\ charge[i] \in {"none", "pending"} /\ now < inv[i].expires
OpenOnce == \A i, k \in Invoice : Open(i) /\ Open(k) => i = k

IInv ==
    /\ Typed /\ Counted /\ Dated /\ Kinds /\ Apart /\ OpenOnce
    /\ \A w \in Processes : Fits(w)

-----------------------------------------------------------------------------
(* Lemmas on numbers and sets *)

LEMMA ConstantsTyped ==
    /\ Cron \notin Workers /\ IsFiniteSet(Processes) /\ MaxInvoices \in Nat
    /\ Period \in Nat /\ Validity \in Nat /\ Ahead \in Nat /\ Grace \in Nat /\ FreePlan \in BOOLEAN
<1>1. IsFiniteSet(Workers)
  BY BillingAssumption, FS_Union DEF BillingAssumption, Workers
<1> QED
  BY <1>1, BillingAssumption, FS_AddElement, FS_Union, FS_Singleton
  DEF BillingAssumption, Workers, Processes

\* A set of invoices that is not empty has a last one, and it is the Max.
LEMMA LastOfInvoices ==
    ASSUME NEW S, S \subseteq Invoice, S # {}
    PROVE  Max(S) \in S /\ \A i \in S : i <= Max(S)
<1> DEFINE Less == {p \in Nat \X Nat : p[1] < p[2]}
<1> DEFINE T == {MaxInvoices - i : i \in S}
<1>n. MaxInvoices \in Nat
  BY ConstantsTyped
<1>1. IsWellFoundedOn(Less, Nat)
  BY NatLessThanWellFounded DEF OpToRel
<1>2. T \subseteq Nat /\ T # {}
  <2>1. \A i \in S : MaxInvoices - i \in Nat
    BY <1>n DEF Invoice
  <2>2. PICK s : s \in S
    OBVIOUS
  <2>3. MaxInvoices - s \in T
    BY <2>2
  <2> QED
    BY <2>1, <2>3
<1> HIDE DEF Less, T
<1>3. PICK t \in T : \A u \in T : ~(<<u, t>> \in Less)
  BY <1>1, <1>2, WFMin
<1>4. PICK m \in S : t = MaxInvoices - m
  BY DEF T
<1>5. \A i \in S : i <= m
  <2> TAKE i \in S
  <2>1. MaxInvoices - i \in T /\ MaxInvoices - i \in Nat /\ t \in Nat
    BY <1>2 DEF T
  <2>2. ~(MaxInvoices - i < t)
    BY <1>3, <2>1 DEF Less
  <2>3. i \in Int /\ m \in Int
    BY DEF Invoice
  <2> QED
    BY <2>2, <2>3, <1>4, <1>n
<1>6. \A i \in S : m >= i
  BY <1>5 DEF Invoice
<1> QED
  BY <1>6 DEF Max, Invoice

-----------------------------------------------------------------------------
(* What a step leaves alone *)

\* Rows keep existing and keep their kind, a charge that was settled stays so.
Steady ==
    \A i \in Invoice :
        /\ inv[i].status # "absent" => inv'[i].status # "absent" /\ inv'[i].method = inv[i].method
        /\ charge[i] \in {"approved", "cancelled"} => charge'[i] = charge[i]
        /\ charge[i] # "none" => charge'[i] # "none"

LEMMA KindsStay ==
    ASSUME Dated, Steady, NEW i
    PROVE  /\ Card(i) => Card(i)'
           /\ PixOf(i) => PixOf(i)'
           /\ Settled(i) => Settled(i)'
           /\ \A seen : AsSeen(i, seen) => AsSeen(i, seen)'
  BY DEF Dated, Steady, Card, PixOf, Pix, Settled, AsSeen, Invoice

\* Whoever is not at work holds what he held, if nobody touched the invoice
\* that he waits for.
Untouched(v) ==
    job[v].pc \in Posting => LET i == job[v].i IN
        inv'[i].status = inv[i].status /\ charge'[i] = charge[i]

LEMMA FitsStays ==
    ASSUME Dated, Steady, NEW v, Fits(v), job'[v] = job[v], Untouched(v)
    PROVE  Fits(v)'
<1>1. PICK j : j = job[v]
  OBVIOUS
<1>2. /\ Card(j.i) => Card(j.i)'
      /\ PixOf(j.i) => PixOf(j.i)'
      /\ Settled(j.i) => Settled(j.i)'
      /\ AsSeen(j.i, j.seen) => AsSeen(j.i, j.seen)'
      /\ AsSeen(j.i, "pending") => AsSeen(j.i, "pending")'
  BY KindsStay
<1>3. job'[v] = j /\ job[v] = j
  BY <1>1
<1>4. (job[v])' = j
  BY <1>3
<1> QED
  BY <1>2, <1>3, <1>4 DEF Fits, Untouched, Posting, Card, PixOf, Pix, Settled, AsSeen

\* The store's and the preapprovals' new values name cards only.
StoreFits == store' \in StoreRow /\ (store'.pre # 0 => Card(store'.pre))
PreFits ==
    /\ pre' \in [Invoice -> PreRow]
    /\ \A i \in Invoice : pre'[i].status # "none" \/ pre'[i].charges > 0 => Card(i)

LEMMA FitsAsBefore ==
    ASSUME Typed, Kinds
    PROVE  /\ store' = store => StoreFits
           /\ pre' = pre => PreFits
  BY DEF Typed, Kinds, StoreFits, PreFits

\* One process on the move: how many are on the way to an invoice.
LEMMA MakersMove ==
    ASSUME Typed, NEW w \in Processes, NEW j \in Jobs, job' = [job EXCEPT ![w] = j]
    PROVE  /\ Cardinality(Makers) \in Nat /\ Cardinality(Makers') \in Nat
           /\ Cardinality(Makers') <= Cardinality(Makers) + 1
           /\ job[w].pc \in Making \/ j.pc \notin Making =>
                  Cardinality(Makers') <= Cardinality(Makers)
           /\ job[w].pc \in Making /\ j.pc \notin Making =>
                  Cardinality(Makers') = Cardinality(Makers) - 1
<1>1. /\ job'[w] = j /\ \A v \in Processes \ {w} : job'[v] = job[v]
  BY DEF Typed
<1>2. IsFiniteSet(Makers) /\ IsFiniteSet(Makers')
  BY ConstantsTyped, FS_Subset DEF Makers
<1>3. Cardinality(Makers) \in Nat /\ Cardinality(Makers') \in Nat
  BY <1>2, FS_CardinalityType
<1>4. Makers' \subseteq Makers \cup {w}
  BY <1>1 DEF Makers
<1>5. Cardinality(Makers') <= Cardinality(Makers) + 1
  <2>1. IsFiniteSet(Makers \cup {w}) /\ Cardinality(Makers \cup {w}) <= Cardinality(Makers) + 1
    <3>1. /\ IsFiniteSet(Makers \cup {w})
          /\ Cardinality(Makers \cup {w})
               = IF w \in Makers THEN Cardinality(Makers) ELSE Cardinality(Makers) + 1
      BY <1>2, FS_AddElement, Zenon
    <3> QED
      BY <3>1, <1>3
  <2>2. Cardinality(Makers') <= Cardinality(Makers \cup {w})
    BY <2>1, <1>4, FS_Subset
  <2>3. Cardinality(Makers \cup {w}) \in Nat
    BY <2>1, FS_CardinalityType
  <2> QED
    BY <2>1, <2>2, <2>3, <1>3
<1>6. ASSUME job[w].pc \in Making \/ j.pc \notin Making
      PROVE  Cardinality(Makers') <= Cardinality(Makers)
  <2>1. Makers' \subseteq Makers
    BY <1>1, <1>6 DEF Makers
  <2> QED
    BY <2>1, <1>2, FS_Subset
<1>7. ASSUME job[w].pc \in Making, j.pc \notin Making
      PROVE  Cardinality(Makers') = Cardinality(Makers) - 1
  <2>1. Makers' = Makers \ {w} /\ w \in Makers
    BY <1>1, <1>7 DEF Makers
  <2> QED
    BY <2>1, <1>2, FS_RemoveElement
<1> QED
  BY <1>3, <1>5, <1>6, <1>7

\* The parts of the invariant that concern processes.
LEMMA HandsKept ==
    ASSUME IInv, NEW w \in Processes, NEW j \in Jobs, job' = [job EXCEPT ![w] = j],
           Steady, Fits(w)', \A v \in Processes \ {w} : Untouched(v),
           j.pc \in Posting => \A v \in Processes \ {w} :
                                   job[v].pc \in Posting => job[v].i # j.i
    PROVE  Apart' /\ \A v \in Processes : Fits(v)'
<1>1. job'[w] = j /\ \A v \in Processes \ {w} : job'[v] = job[v]
  BY DEF IInv, Typed
<1>2. ASSUME NEW v \in Processes PROVE Fits(v)'
  <2>1. CASE v = w
    BY <2>1
  <2>2. CASE v # w
    BY <2>2, <1>1, FitsStays DEF IInv
  <2> QED
    BY <2>1, <2>2
<1>3. Apart'
  BY <1>1 DEF Apart, IInv
<1> QED
  BY <1>2, <1>3

-----------------------------------------------------------------------------
(* The four kinds of step *)

\* A step that writes neither invoices nor charges.
LEMMA Quietly ==
    ASSUME IInv, NEW w \in Processes, NEW j \in Jobs, job' = [job EXCEPT ![w] = j],
           UNCHANGED <<now, inv, charge>>, StoreFits, PreFits, Fits(w)',
           j.pc \in Posting => job[w].pc \in Posting /\ job[w].i = j.i,
           j.pc \in Making => job[w].pc \in Making \/ Room
    PROVE  IInv'
<1>1. Typed'
  BY DEF IInv, Typed, StoreFits, PreFits
<1>2. Counted'
  <2>1. Made' = Made
    BY DEF Made
  <2>2. Room <=> Made + Cardinality(Makers) < MaxInvoices
    BY DEF Room, Makers, Making
  <2>3. Made + Cardinality(Makers') <= MaxInvoices
    <3>1. /\ Cardinality(Makers) \in Nat /\ Cardinality(Makers') \in Nat
          /\ Cardinality(Makers') <= Cardinality(Makers) + 1
          /\ job[w].pc \in Making \/ j.pc \notin Making =>
                 Cardinality(Makers') <= Cardinality(Makers)
      BY MakersMove DEF IInv
    <3>2. Made \in Nat /\ Made + Cardinality(Makers) <= MaxInvoices
      BY DEF IInv, Counted
    <3> QED
      BY <2>2, <3>1, <3>2, ConstantsTyped
  <2> QED
    BY <2>1, <2>3 DEF IInv, Counted
<1>3. Steady /\ \A v \in Processes \ {w} : Untouched(v)
  BY DEF Steady, Untouched
<1>4. Apart' /\ \A v \in Processes : Fits(v)'
  BY <1>3, HandsKept DEF IInv, Apart
<1>5. Kinds'
  BY DEF IInv, Kinds, Card, Pix, StoreFits, PreFits
<1>6. Dated' /\ OpenOnce'
  BY DEF IInv, Dated, OpenOnce, Open, Pix
<1> QED
  BY <1>1, <1>2, <1>4, <1>5, <1>6 DEF IInv

\* A step that writes one invoice that has been made.
LEMMA RowWritten ==
    ASSUME IInv, NEW w \in Processes, NEW j \in Jobs, job' = [job EXCEPT ![w] = j],
           NEW i \in Invoice, NEW row \in InvoiceRow, inv[i].status # "absent",
           inv' = [inv EXCEPT ![i] = row], UNCHANGED <<now, charge>>, StoreFits, PreFits,
           row.status # "absent", row.method = inv[i].method, row.expires = inv[i].expires,
           row.pre # 0 => Card(i) /\ Card(row.pre),
           charge[i] = "pending" => row.status = "PENDING",
           Pix(i) /\ row.status = "PENDING" /\ charge[i] \in {"none", "pending"} =>
               inv[i].status = "PENDING",
           \A v \in Processes \ {w} : job[v].pc \in Posting => job[v].i # i,
           Fits(w)', j.pc \notin Posting, j.pc \notin Making
    PROVE  IInv'
<1>1. inv'[i] = row /\ \A k \in Invoice \ {i} : inv'[k] = inv[k]
  BY DEF IInv, Typed
<1>2. Typed'
  BY DEF IInv, Typed, StoreFits, PreFits
<1>3. Counted'
  <2>1. \A k \in Invoice : inv'[k].status # "absent" <=> inv[k].status # "absent"
    BY <1>1
  <2>2. Made' = Made
    BY <2>1 DEF Made
  <2>3. Made + Cardinality(Makers') <= MaxInvoices
    <3>1. /\ Cardinality(Makers) \in Nat /\ Cardinality(Makers') \in Nat
          /\ Cardinality(Makers') <= Cardinality(Makers)
      BY MakersMove DEF IInv
    <3>2. Made \in Nat /\ Made + Cardinality(Makers) <= MaxInvoices
      BY DEF IInv, Counted
    <3> QED
      BY <3>1, <3>2, ConstantsTyped
  <2> QED
    BY <2>1, <2>2, <2>3 DEF IInv, Counted
<1>4. Steady /\ \A v \in Processes \ {w} : Untouched(v)
  <2>1. Steady
    BY <1>1 DEF Steady
  <2>2. ASSUME NEW v \in Processes \ {w}, job[v].pc \in Posting
        PROVE  inv'[job[v].i] = inv[job[v].i]
    <3>1. job[v].i # i /\ job[v].i \in Invoice
      BY <2>2 DEF IInv, Fits, Posting, PixOf
    <3> QED
      BY <3>1, <1>1
  <2> QED
    BY <2>1, <2>2 DEF Untouched
<1>5. Apart' /\ \A v \in Processes : Fits(v)'
  BY <1>4, HandsKept
<1>6. Kinds'
  <2>1. \A k : Card(k) => Card(k)'
    BY <1>4, KindsStay DEF IInv
  <2>2. \A k \in Invoice : Pix(k) <=> Pix(k)'
    BY <1>1 DEF Pix
  <2> QED
    BY <1>1, <2>1, <2>2 DEF IInv, Kinds, StoreFits, PreFits
<1>7. Dated'
  <2>1. \A k \in Invoice : /\ inv'[k].method = inv[k].method
                           /\ inv'[k].expires = inv[k].expires
                           /\ inv[k].status # "absent" => inv'[k].status # "absent"
    BY <1>1
  <2> QED
    BY <2>1 DEF IInv, Dated, Pix
<1>8. OpenOnce'
  <2>1. \A k \in Invoice : Open(k)' => Open(k)
    BY <1>1 DEF Open, Pix
  <2> QED
    BY <2>1 DEF IInv, OpenOnce
<1> QED
  BY <1>2, <1>3, <1>5, <1>6, <1>7, <1>8 DEF IInv

\* A step that writes the charge of one invoice of Pix.
LEMMA ChargeWritten ==
    ASSUME IInv, NEW w \in Processes, NEW j \in Jobs, job' = [job EXCEPT ![w] = j],
           NEW i, PixOf(i), NEW s \in Charges, charge' = [charge EXCEPT ![i] = s],
           UNCHANGED <<now, store, inv, pre>>,
           charge[i] \in {"none", "pending"}, s = "none" => charge[i] = "none",
           s = "pending" => inv[i].status = "PENDING",
           \A v \in Processes \ {w} : job[v].pc \in Posting => job[v].i # i,
           Fits(w)', j.pc \in Posting => job[w].pc \in Posting /\ job[w].i = j.i,
           j.pc \in Making => job[w].pc \in Making
    PROVE  IInv'
<1>0. i \in Invoice
  BY DEF PixOf
<1>1. charge'[i] = s /\ \A k \in Invoice \ {i} : charge'[k] = charge[k]
  BY <1>0 DEF IInv, Typed
<1>2. Typed'
  BY DEF IInv, Typed
<1>3. Counted'
  <2>1. Made' = Made
    BY DEF Made
  <2>2. Made + Cardinality(Makers') <= MaxInvoices
    <3>1. /\ Cardinality(Makers) \in Nat /\ Cardinality(Makers') \in Nat
          /\ Cardinality(Makers') <= Cardinality(Makers)
      BY MakersMove DEF IInv
    <3>2. Made \in Nat /\ Made + Cardinality(Makers) <= MaxInvoices
      BY DEF IInv, Counted
    <3> QED
      BY <3>1, <3>2, ConstantsTyped
  <2> QED
    BY <2>1, <2>2 DEF IInv, Counted
<1>4. Steady
  BY <1>1 DEF Steady
<1>5. ASSUME NEW v \in Processes \ {w} PROVE Untouched(v)
  <2>1. SUFFICES ASSUME job[v].pc \in Posting PROVE charge'[job[v].i] = charge[job[v].i]
    BY DEF Untouched
  <2>2. job[v].i # i /\ job[v].i \in Invoice
    BY <2>1 DEF IInv, Fits, Posting, PixOf
  <2> QED
    BY <2>2, <1>1
<1>6. Apart' /\ \A v \in Processes : Fits(v)'
  <2>1. j.pc \in Posting => \A v \in Processes \ {w} :
                                job[v].pc \in Posting => job[v].i # j.i
    BY DEF IInv, Apart
  <2> QED
    BY <1>4, <1>5, <2>1, HandsKept
<1>7. Kinds'
  BY <1>0, <1>1 DEF IInv, Kinds, Card, Pix, PixOf
<1>8. Dated'
  BY DEF IInv, Dated, Pix
<1>9. OpenOnce'
  <2>1. \A k \in Invoice : Open(k)' => Open(k)
    BY <1>1 DEF Open, Pix
  <2> QED
    BY <2>1 DEF IInv, OpenOnce
<1> QED
  BY <1>2, <1>3, <1>6, <1>7, <1>8, <1>9 DEF IInv

\* What the transaction looks at is enough: the pending invoice made last is
\* the one that expires last.
LEMMA NoneOpen ==
    ASSUME IInv, ~HasOpenPix
    PROVE  \A k \in Invoice : ~Open(k)
<1> SUFFICES ASSUME NEW k \in Invoice, Open(k) PROVE FALSE
  OBVIOUS
<1>1. k \in PixPending /\ PixPending \subseteq Invoice /\ PixPending # {}
  BY DEF Open, Pix, PixPending
<1>2. LastPending \in PixPending /\ k <= LastPending
  BY <1>1, LastOfInvoices DEF LastPending
<1>3. LastPending \in Invoice /\ Pix(LastPending) /\ Pix(k) /\ LastPending # 0
  BY <1>1, <1>2 DEF PixPending, Pix, Invoice
<1>4. inv[LastPending].expires \in Nat /\ inv[k].expires \in Nat /\ now \in Nat
  BY <1>3 DEF IInv, Typed, InvoiceRow
<1>5. inv[k].expires <= inv[LastPending].expires
  <2>1. CASE k = LastPending
    BY <2>1, <1>4
  <2>2. CASE k < LastPending
    BY <2>2, <1>3 DEF IInv, Dated
  <2> QED
    BY <2>1, <2>2, <1>2, <1>3 DEF Invoice
<1>6. inv[LastPending].expires <= now
  BY <1>3, <1>4 DEF HasOpenPix
<1> QED
  BY <1>4, <1>5, <1>6 DEF Open

\* Whoever is on the way to an invoice finds a free place for it.
LEMMA RoomToMake ==
    ASSUME IInv, NEW w \in Processes, job[w].pc \in Making \/ Room
    PROVE  Made + 1 \in Invoice /\ Made + 1 \in 0..MaxInvoices
<1>1. IsFiniteSet(Makers)
  BY ConstantsTyped, FS_Subset DEF Makers
<1>2. Cardinality(Makers) \in Nat /\ (job[w].pc \in Making => Cardinality(Makers) # 0)
  BY <1>1, FS_CardinalityType, FS_EmptySet DEF Makers
<1>3. Made \in Nat /\ Made + Cardinality(Makers) <= MaxInvoices
  BY DEF IInv, Counted
<1>4. Room => Made + Cardinality(Makers) < MaxInvoices
  BY DEF Room, Makers, Making
<1> QED
  BY <1>2, <1>3, <1>4, ConstantsTyped DEF Invoice

\* A step that makes an invoice.
LEMMA Creating ==
    ASSUME IInv, NEW w \in Processes, NEW j \in Jobs, job' = [job EXCEPT ![w] = j],
           NEW row \in InvoiceRow, inv' = [inv EXCEPT ![Made + 1] = row],
           job[w].pc \in Making \/ Room, UNCHANGED <<now, charge>>, StoreFits, PreFits,
           row.status = "PENDING", row.pre # 0 => row.method = "CARD" /\ Card(row.pre),
           row.method = "PIX" => row.expires = now + Validity /\ ~HasOpenPix,
           j.i = Made + 1, j.pc \notin Making,
           j.pc = "post" => row.method = "PIX", j.pc = "subscribe" => row.method = "CARD",
           j.pc = "load" => row.method = "CARD",
           j.pc \in {"post", "subscribe", "load"}
    PROVE  IInv'
<1>1. Cardinality(Makers) \in Nat /\ Cardinality(Makers') \in Nat
  BY MakersMove DEF IInv
<1>2. Made \in Nat /\ Made + Cardinality(Makers) <= MaxInvoices
  BY DEF IInv, Counted
<1>3. Made + 1 + Cardinality(Makers') <= MaxInvoices
  <2>1. CASE job[w].pc \in Making
    <3>1. Cardinality(Makers') = Cardinality(Makers) - 1
      BY <2>1, MakersMove DEF IInv
    <3> QED
      BY <3>1, <1>1, <1>2, ConstantsTyped
  <2>2. CASE Room
    <3>1. Cardinality(Makers') <= Cardinality(Makers)
      BY MakersMove DEF IInv
    <3>2. Made + Cardinality(Makers) < MaxInvoices
      BY <2>2 DEF Room, Makers, Making
    <3> QED
      BY <3>1, <3>2, <1>1, <1>2, ConstantsTyped
  <2> QED
    BY <2>1, <2>2
<1>4. PICK n : n = Made + 1
  OBVIOUS
<1>5. n \in Invoice /\ n # 0 /\ inv' = [inv EXCEPT ![n] = row] /\ j.i = n
  BY <1>1, <1>2, <1>3, <1>4, ConstantsTyped DEF Invoice
<1>6. inv'[n] = row /\ \A k \in Invoice \ {n} : inv'[k] = inv[k]
  BY <1>5 DEF IInv, Typed
<1>7. inv[n].status = "absent"
  BY <1>2, <1>4, <1>5 DEF IInv, Counted
<1>8. Typed'
  BY <1>5 DEF IInv, Typed, StoreFits, PreFits
<1>9. Counted'
  <2>1. \A k \in Invoice : inv[k].status # "absent" <=> k <= n - 1
    BY <1>2, <1>4 DEF IInv, Counted
  <2>2. \A k \in Invoice : inv'[k].status # "absent" <=> k <= n
    <3> TAKE k \in Invoice
    <3>1. k \in Nat /\ n \in Nat
      BY <1>2, <1>4 DEF Invoice
    <3>2. CASE k = n
      BY <3>1, <3>2, <1>6
    <3>3. CASE k # n
      BY <3>1, <3>3, <1>6, <2>1
    <3> QED
      BY <3>2, <3>3
  <2>3. {k \in Invoice : inv'[k].status # "absent"} = 1..n
    BY <2>2, <1>5, ConstantsTyped DEF Invoice
  <2>4. Cardinality(1..n) = n
    BY FS_Interval, <1>2, <1>4
  <2>5. Made' = n
    BY <2>3, <2>4 DEF Made
  <2> QED
    BY <2>2, <2>5, <1>2, <1>3, <1>4 DEF Counted
<1>10. Steady /\ \A v \in Processes \ {w} : Untouched(v)
  <2>1. charge[n] = "none"
    BY <1>5, <1>7 DEF IInv, Kinds, Dated
  <2>2. Steady
    BY <1>6, <1>7 DEF Steady
  <2>3. ASSUME NEW v \in Processes \ {w}, job[v].pc \in Posting
        PROVE  inv'[job[v].i] = inv[job[v].i]
    <3>1. job[v].i # n /\ job[v].i \in Invoice
      BY <2>3, <1>7 DEF IInv, Fits, Posting, PixOf, Dated
    <3> QED
      BY <3>1, <1>6
  <2> QED
    BY <2>2, <2>3 DEF Untouched
<1>11. Apart' /\ \A v \in Processes : Fits(v)'
  <2>1. j.pc \in Posting => \A v \in Processes \ {w} : job[v].pc \in Posting => job[v].i # j.i
    BY <1>5, <1>7 DEF IInv, Fits, Posting, PixOf, Dated
  <2>2. Fits(w)'
    <3>1. job'[w] = j
      BY DEF IInv, Typed
    <3>2. charge'[n] = "none"
      BY <1>5, <1>7 DEF IInv, Kinds, Dated
    <3>3. row.method = "PIX" => (PixOf(n))'
      BY <1>5, <1>6 DEF PixOf, Pix
    <3>4. row.method = "CARD" => (Card(n))'
      BY <1>5, <1>6 DEF Card
    <3> QED
      BY <3>1, <3>2, <3>3, <3>4, <1>5, <1>6 DEF Fits, Card, PixOf, Pix, Making
  <2> QED
    BY <2>1, <2>2, <1>10, HandsKept
<1>12. Kinds'
  <2>1. \A k : Card(k) => Card(k)'
    BY <1>10, KindsStay DEF IInv
  <2>2. \A k \in Invoice \ {n} : inv'[k] = inv[k] /\ (Pix(k) => Pix(k)')
    BY <1>6 DEF Pix
  <2>3. charge[n] = "none"
    BY <1>5, <1>7 DEF IInv, Kinds, Dated
  <2>4. row.method = "CARD" => Card(n)'
    BY <1>5, <1>6 DEF Card
  <2>5. (store.pre # 0 => Card(store.pre))'
    <3>1. PICK x : x = store'.pre
      OBVIOUS
    <3>2. x # 0 => Card(x)'
      BY <3>1, <2>1 DEF StoreFits
    <3> QED
      BY <3>1, <3>2 DEF Card
  <2>6. \A k \in Invoice : pre'[k].status # "none" \/ pre'[k].charges > 0 => Card(k)'
    BY <2>1 DEF PreFits
  <2>7. ASSUME NEW k \in Invoice
        PROVE  (inv[k].pre # 0 => Card(k) /\ Card(inv[k].pre))'
    <3>1. PICK x : x = inv'[k].pre
      OBVIOUS
    <3>2. CASE k = n
      <4>1. x # 0 => Card(k)' /\ Card(x)'
        BY <3>1, <3>2, <1>6, <2>1, <2>4
      <4> QED
        BY <3>1, <4>1 DEF Card
    <3>3. CASE k # n
      <4>1. x = inv[k].pre
        BY <3>1, <3>3, <2>2
      <4>2. x # 0 => Card(k)' /\ Card(x)'
        BY <4>1, <2>1 DEF IInv, Kinds
      <4> QED
        BY <3>1, <4>2 DEF Card
    <3> QED
      BY <3>2, <3>3
  <2>8. \A k \in Invoice : (/\ charge[k] # "none" => Pix(k)
                            /\ charge[k] = "pending" => inv[k].status = "PENDING")'
    <3> TAKE k \in Invoice
    <3>1. CASE k = n
      BY <3>1, <2>3
    <3>2. CASE k # n
      BY <3>2, <2>2 DEF IInv, Kinds
    <3> QED
      BY <3>1, <3>2
  <2> QED
    BY <2>5, <2>6, <2>7, <2>8 DEF Kinds
<1>13. Dated'
  <2>1. \A k \in Invoice : Pix(k) => k < n
    BY <1>2, <1>4 DEF IInv, Dated, Counted, Invoice
  <2>2. \A k \in Invoice \ {n} : inv'[k] = inv[k]
    BY <1>6
  <2>3. now' = now /\ now \in Nat /\ Validity \in Nat
    BY ConstantsTyped DEF IInv, Typed
  <2>4. \A k \in Invoice : inv'[k].expires \in Nat
    BY <1>8 DEF Typed, InvoiceRow
  <2>5. ASSUME NEW k \in Invoice, Pix(k)'
        PROVE  inv'[k].status # "absent" /\ inv'[k].expires <= now' + Validity
    BY <2>2, <2>3, <2>4, <2>5, <1>6 DEF IInv, Dated, Pix
  <2>6. ASSUME NEW k \in Invoice, NEW l \in Invoice, Pix(k)', Pix(l)', k < l
        PROVE  inv'[k].expires <= inv'[l].expires
    <3>1. k # n
      <4> SUFFICES ASSUME k = n PROVE FALSE
        OBVIOUS
      <4>1. l # n /\ Pix(l)
        BY <2>2, <2>6 DEF Pix, Invoice
      <4> QED
        BY <4>1, <2>1, <2>6 DEF Invoice
    <3>2. Pix(k) /\ inv'[k] = inv[k] /\ inv[k].expires <= now + Validity
      BY <3>1, <2>2, <2>6 DEF IInv, Dated, Pix
    <3>3. CASE l = n
      BY <3>2, <3>3, <1>6, <2>6 DEF Pix
    <3>4. CASE l # n
      BY <3>2, <3>4, <2>2, <2>6 DEF IInv, Dated, Pix
    <3> QED
      BY <3>3, <3>4
  <2> QED
    BY <2>5, <2>6 DEF Dated
<1>14. OpenOnce'
  <2>1. \A k \in Invoice \ {n} : Open(k)' <=> Open(k)
    BY <1>6 DEF Open, Pix
  <2>2. CASE row.method = "PIX"
    BY <2>1, <2>2, NoneOpen DEF OpenOnce
  <2>3. CASE row.method = "CARD"
    <3>1. ~Open(n)'
      BY <2>3, <1>6 DEF Open, Pix
    <3> QED
      BY <2>1, <3>1 DEF OpenOnce, IInv
  <2> QED
    BY <2>2, <2>3 DEF InvoiceRow
<1> QED
  BY <1>8, <1>9, <1>11, <1>12, <1>13, <1>14 DEF IInv

-----------------------------------------------------------------------------
(* How handlers begin, go on and end *)

LEMMA IdleTyped ==
    Idle \in Jobs /\ NoPay \in Pays /\ NoInvoice \in InvoiceRow
  BY ConstantsTyped DEF Idle, Jobs, Labels, Words, NoPay, Pays, NoInvoice, InvoiceRow, InvoiceStatus

LEMMA PaysTyped ==
    ASSUME NEW i \in Invoice
    PROVE  PixPay(i) \in Pays /\ \A n \in Nat : CardPay(i, n) \in Pays
  BY DEF PixPay, CardPay, Pays, Invoice

LEMMA JobHere ==
    ASSUME Typed, NEW w \in Processes, NEW j, job' = [job EXCEPT ![w] = j]
    PROVE  job'[w] = j
  BY DEF Typed

LEMMA DoneJob ==
    ASSUME Typed, NEW w \in Processes, Done(w)
    PROVE  \E j \in Jobs : /\ job' = [job EXCEPT ![w] = j]
                           /\ j.pc \notin Posting /\ j.pc \notin Making
                           /\ Fits(w)'
<1>1. PICK j : j = IF w = Cron THEN [Idle EXCEPT !.pc = "tests", !.date = now] ELSE Idle
  OBVIOUS
<1>2. j \in Jobs /\ j.pc \in {"idle", "tests"}
  BY <1>1, IdleTyped DEF Idle, Jobs, Labels, Typed
<1>3. job' = [job EXCEPT ![w] = j]
  BY <1>1 DEF Done
<1>4. job'[w] = j
  BY <1>3 DEF Typed
<1>5. Fits(w)'
  BY <1>2, <1>4 DEF Fits
<1> QED
  BY <1>2, <1>3, <1>5 DEF Posting, Making

LEMMA DoneKeeps ==
    ASSUME IInv, NEW w \in Processes, Done(w),
           UNCHANGED <<now, inv, charge>>, StoreFits, PreFits
    PROVE  IInv'
<1>1. PICK j \in Jobs : /\ job' = [job EXCEPT ![w] = j]
                        /\ j.pc \notin Posting /\ j.pc \notin Making
                        /\ Fits(w)'
  BY DoneJob DEF IInv
<1> QED
  BY <1>1, Quietly

LEMMA BeginKeeps ==
    ASSUME IInv, NEW w \in Processes, NEW j \in Jobs, Begin(w, j),
           UNCHANGED <<now, store, inv, charge>>, PreFits, Fits(w)',
           j.pc \notin Posting, j.pc \in Making => Room
    PROVE  IInv'
<1>1. StoreFits
  BY FitsAsBefore DEF IInv
<1> QED
  BY <1>1, Quietly DEF Begin

\* Labels at which a handler holds nothing.
Empty == {"idle", "method", "emit", "lock", "cancelled", "free", "viewfree", "viewpast", "demote",
          "tests", "freetest", "pastdue", "late", "freelate", "end"}
LEMMA EmptyHands ==
    \A w : job'[w].pc \in Empty => Fits(w)'
  BY DEF Fits, Empty

LEMMA GoneTo ==
    ASSUME IInv, NEW w \in Processes, NEW pc, pc \in Empty, Goto(w, pc)
    PROVE  Fits(w)'
<1>1. job'[w].pc = pc
  <2>1. job[w] \in Jobs
    BY DEF IInv, Typed
  <2>2. job'[w] = [job[w] EXCEPT !.pc = pc]
    BY DEF IInv, Typed, Goto
  <2> QED
    BY <2>1, <2>2 DEF Jobs
<1> QED
  BY <1>1, EmptyHands

LEMMA GotoJob ==
    ASSUME Typed, NEW w \in Processes, NEW pc \in Labels, Goto(w, pc)
    PROVE  /\ [job[w] EXCEPT !.pc = pc] \in Jobs
           /\ job' = [job EXCEPT ![w] = [job[w] EXCEPT !.pc = pc]]
           /\ job'[w] = [job[w] EXCEPT !.pc = pc]
           /\ job'[w].pc = pc /\ job'[w].i = job[w].i /\ job'[w].seen = job[w].seen
  BY DEF Typed, Goto, Jobs

LEMMA GotoKeeps ==
    ASSUME IInv, NEW w \in Processes, NEW pc \in Labels, Goto(w, pc),
           UNCHANGED <<now, inv, charge>>, StoreFits, PreFits, Fits(w)',
           pc \notin Posting, pc \in Making => job[w].pc \in Making \/ Room
    PROVE  IInv'
<1>1. PICK j : j = [job[w] EXCEPT !.pc = pc]
  OBVIOUS
<1>2. j \in Jobs /\ job' = [job EXCEPT ![w] = j]
  BY <1>1, GotoJob DEF IInv
<1>3. j.pc = pc
  BY <1>1 DEF IInv, Typed, Jobs, Labels
<1> QED
  BY <1>2, <1>3, Quietly

-----------------------------------------------------------------------------
(* A charge of Pix *)

LEMMA PixBegins ==
    ASSUME IInv, NEW w \in Processes, SubscribeWithPix(w) \/ GeneratePix(w)
    PROVE  IInv'
<1>1. PICK j \in Jobs : Begin(w, j) /\ j.pc \in {"method", "emit"}
  <2>1. CASE SubscribeWithPix(w)
    <3>1. PICK j : j = [Idle EXCEPT !.pc = "method", !.op = "subscribe"]
      OBVIOUS
    <3>2. j \in Jobs /\ j.pc = "method"
      BY <3>1, IdleTyped DEF Jobs, Labels
    <3> QED
      BY <2>1, <3>1, <3>2 DEF SubscribeWithPix
  <2>2. CASE GeneratePix(w)
    <3>1. PICK j : j = [Idle EXCEPT !.pc = "emit"]
      OBVIOUS
    <3>2. j \in Jobs /\ j.pc = "emit"
      BY <3>1, IdleTyped DEF Jobs, Labels
    <3> QED
      BY <2>2, <3>1, <3>2 DEF GeneratePix
  <2> QED
    BY <2>1, <2>2
<1>2. UNCHANGED <<now, store, inv, charge, pre>> /\ Room
  BY DEF SubscribeWithPix, GeneratePix, rows, gateway
<1>3. job'[w] = j
  BY <1>1, JobHere DEF Begin, IInv
<1>4. Fits(w)'
  BY <1>1, <1>3, EmptyHands DEF Empty
<1> QED
  BY <1>1, <1>2, <1>4, BeginKeeps, FitsAsBefore DEF Posting, IInv

LEMMA SetMethodKeeps ==
    ASSUME IInv, NEW w \in Processes, SetMethod(w)
    PROVE  IInv'
<1>1. Goto(w, "emit") /\ UNCHANGED <<now, inv, charge, pre>> /\ job[w].pc \in Making
  BY DEF SetMethod, gateway, Making
<1>2. StoreFits
  BY DEF SetMethod, StoreFits, IInv, Typed, StoreRow, Kinds
<1>3. Fits(w)'
  BY <1>1, GoneTo DEF Empty
<1> QED
  BY <1>1, <1>2, <1>3, GotoKeeps, FitsAsBefore DEF Posting, Labels, IInv

LEMMA ReadStoreKeeps ==
    ASSUME IInv, NEW w \in Processes, ReadStore(w)
    PROVE  IInv'
<1>1. UNCHANGED <<now, store, inv, charge, pre>> /\ job[w].pc \in Making
  BY DEF ReadStore, rows, gateway, Making
<1>2. StoreFits /\ PreFits
  BY <1>1, FitsAsBefore DEF IInv
<1>3. CASE Goto(w, "lock")
  <2>1. Fits(w)'
    BY <1>3, GoneTo DEF Empty
  <2> QED
    BY <1>1, <1>2, <1>3, <2>1, GotoKeeps DEF Posting, Labels
<1>4. CASE Done(w)
  BY <1>1, <1>2, <1>4, DoneKeeps
<1> QED
  BY <1>3, <1>4 DEF ReadStore

LEMMA LockAndCreateKeeps ==
    ASSUME IInv, NEW w \in Processes, LockAndCreate(w)
    PROVE  IInv'
<1>1. UNCHANGED <<now, store, charge, pre>> /\ job[w].pc \in Making
  BY DEF LockAndCreate, gateway, Making
<1>2. StoreFits /\ PreFits
  BY <1>1, FitsAsBefore DEF IInv
<1>3. CASE HasOpenPix
  <2>1. Done(w) /\ UNCHANGED inv
    BY <1>3 DEF LockAndCreate
  <2> QED
    BY <1>1, <1>2, <2>1, DoneKeeps
<1>4. CASE ~HasOpenPix
  <2>1. CreateInvoice(w, "PIX", "post")
    BY <1>4 DEF LockAndCreate
  <2>2. PICK row : row = [NoInvoice EXCEPT !.status = "PENDING", !.method = "PIX",
                                           !.expires = now + Validity]
    OBVIOUS
  <2>3. /\ row \in InvoiceRow /\ row.status = "PENDING" /\ row.method = "PIX"
        /\ row.pre = 0 /\ row.expires = now + Validity
    <3>1. now + Validity \in Nat
      BY ConstantsTyped DEF IInv, Typed
    <3>2. NoInvoice.pre = 0
      BY DEF NoInvoice
    <3> QED
      BY <2>2, <3>1, <3>2, IdleTyped DEF InvoiceRow, InvoiceStatus
  <2>4. inv' = [inv EXCEPT ![Made + 1] = row]
    BY <2>1, <2>2 DEF CreateInvoice
  <2>5. PICK j : j = [job[w] EXCEPT !.pc = "post", !.i = Made + 1]
    OBVIOUS
  <2>6. job' = [job EXCEPT ![w] = j]
    BY <2>1, <2>5 DEF CreateInvoice
  <2>7. Made + 1 \in 0..MaxInvoices
    BY <1>1, RoomToMake DEF Making
  <2>8. j \in Jobs /\ j.pc = "post" /\ j.i = Made + 1
    <3>1. job[w] \in Jobs /\ "post" \in Labels
      BY DEF IInv, Typed, Labels
    <3> QED
      BY <2>5, <2>7, <3>1 DEF Jobs
  <2> QED
    BY <1>1, <1>2, <1>4, <2>3, <2>4, <2>6, <2>8, Creating DEF Making
<1> QED
  BY <1>3, <1>4

LEMMA PostPixKeeps ==
    ASSUME IInv, NEW w \in Processes, PostPix(w)
    PROVE  IInv'
<1>1. PICK i : i = job[w].i
  OBVIOUS
<1>2. /\ UNCHANGED <<now, store, inv, pre>> /\ job[w].pc = "post"
      /\ PixOf(i) /\ charge[i] = "none" /\ inv[i].status = "PENDING"
  BY <1>1 DEF PostPix, rows, IInv, Fits
<1>3. \A v \in Processes \ {w} : job[v].pc \in Posting => job[v].i # i
  BY <1>1, <1>2 DEF IInv, Apart, Posting
<1>4. job[w].pc \in Posting /\ job[w].pc \notin Making /\ {"saveqr", "drop"} \subseteq Labels
  BY <1>2 DEF Posting, Making, Labels
<1>5. /\ "none" \in Charges /\ "pending" \in Charges /\ i \in Invoice
  BY <1>2 DEF Charges, PixOf
<1>6. CASE Goto(w, "saveqr") /\ charge' = [charge EXCEPT ![i] = "pending"]
  <2>1. PICK j : j = [job[w] EXCEPT !.pc = "saveqr"]
    OBVIOUS
  <2>2. j \in Jobs /\ job' = [job EXCEPT ![w] = j] /\ job'[w].pc = "saveqr" /\ job'[w].i = i
    BY <1>1, <1>4, <1>6, <2>1, GotoJob DEF IInv
  <2>3. j.pc \notin Posting /\ j.pc \notin Making
    BY <2>2, JobHere DEF IInv, Posting, Making
  <2>4. charge'[i] = "pending"
    BY <1>5, <1>6 DEF IInv, Typed
  <2>5. Fits(w)'
    BY <1>2, <2>2, <2>4 DEF Fits, AsSeen, PixOf, Pix
  <2>6. PICK s \in Charges : s = "pending" /\ charge' = [charge EXCEPT ![i] = s]
    BY <1>5, <1>6
  <2>7. /\ charge[i] \in {"none", "pending"} /\ (s = "none" => charge[i] = "none")
        /\ s = "pending" => inv[i].status = "PENDING"
        /\ j \in Jobs /\ job' = [job EXCEPT ![w] = j]
        /\ j.pc \in Posting => job[w].pc \in Posting /\ job[w].i = j.i
        /\ j.pc \in Making => job[w].pc \in Making
    BY <1>2, <2>2, <2>3, <2>6
  <2>8. PixOf(i) /\ UNCHANGED <<now, store, inv, pre>>
    BY <1>2
  <2> QED
    BY <1>3, <2>5, <2>6, <2>7, <2>8, ChargeWritten
<1>7. CASE Goto(w, "drop") /\ UNCHANGED charge
  <2>1. PICK j : j = [job[w] EXCEPT !.pc = "drop"]
    OBVIOUS
  <2>2. j \in Jobs /\ job' = [job EXCEPT ![w] = j] /\ job'[w].pc = "drop" /\ job'[w].i = i
    BY <1>1, <1>4, <1>7, <2>1, GotoJob DEF IInv
  <2>3. j.pc = "drop" /\ j.i = job[w].i
    BY <1>1, <2>2, JobHere DEF IInv
  <2>4. Fits(w)'
    BY <1>2, <1>7, <2>2 DEF Fits, PixOf, Pix
  <2>5. StoreFits /\ PreFits
    BY <1>2, FitsAsBefore DEF IInv
  <2> QED
    BY <1>2, <1>4, <1>7, <2>2, <2>3, <2>4, <2>5, Quietly DEF Making
<1>8. CASE Done(w) /\ \E s \in {"none", "pending"} : charge' = [charge EXCEPT ![i] = s]
  <2>1. PICK j \in Jobs : /\ job' = [job EXCEPT ![w] = j]
                          /\ j.pc \notin Posting /\ j.pc \notin Making /\ Fits(w)'
    BY <1>8, DoneJob DEF IInv
  <2>2. PICK s \in {"none", "pending"} : charge' = [charge EXCEPT ![i] = s]
    BY <1>8
  <2> QED
    BY <1>2, <1>3, <1>5, <2>1, <2>2, ChargeWritten
<1> QED
  BY <1>1, <1>6, <1>7, <1>8 DEF PostPix

\* A handler that writes a row and ends.
LEMMA WriteAndEnd ==
    ASSUME IInv, NEW w \in Processes, Done(w),
           NEW i \in Invoice, NEW row \in InvoiceRow, inv[i].status # "absent",
           inv' = [inv EXCEPT ![i] = row], UNCHANGED <<now, charge>>, StoreFits, PreFits,
           row.status # "absent", row.method = inv[i].method, row.expires = inv[i].expires,
           row.pre # 0 => Card(i) /\ Card(row.pre),
           charge[i] = "pending" => row.status = "PENDING",
           Pix(i) /\ row.status = "PENDING" /\ charge[i] \in {"none", "pending"} =>
               inv[i].status = "PENDING",
           \A v \in Processes \ {w} : job[v].pc \in Posting => job[v].i # i
    PROVE  IInv'
<1>1. PICK j \in Jobs : /\ job' = [job EXCEPT ![w] = j]
                        /\ j.pc \notin Posting /\ j.pc \notin Making /\ Fits(w)'
  BY DoneJob DEF IInv
<1> QED
  BY <1>1, RowWritten

\* Nobody waits for the charge of an invoice that has one, or is a card's.
LEMMA NobodyPosts ==
    ASSUME IInv, NEW i \in Invoice, Card(i) \/ charge[i] # "none"
    PROVE  \A v \in Processes : job[v].pc \in Posting => job[v].i # i
  BY DEF IInv, Fits, Posting, PixOf, Pix, Card

LEMMA SaveQrKeeps ==
    ASSUME IInv, NEW w \in Processes, SaveQr(w)
    PROVE  IInv'
<1>1. PICK i : i = job[w].i
  OBVIOUS
<1>2. PixOf(i) /\ charge[i] # "none" /\ i \in Invoice
  BY <1>1 DEF SaveQr, IInv, Fits, AsSeen, PixOf
<1>3. inv[i] \in InvoiceRow /\ inv[i].status # "absent" /\ inv[i].method = "PIX"
  BY <1>2 DEF IInv, Typed, Dated, PixOf, Pix
<1>4. PICK row : row = [inv[i] EXCEPT !.pay = PixPay(i), !.qr = TRUE]
  OBVIOUS
<1>5. /\ row \in InvoiceRow /\ row.status = inv[i].status /\ row.method = inv[i].method
      /\ row.expires = inv[i].expires /\ row.pre = inv[i].pre
  BY <1>2, <1>3, <1>4, PaysTyped DEF InvoiceRow
<1>6. /\ UNCHANGED <<now, store, charge, pre>> /\ Done(w)
      /\ inv' = [inv EXCEPT ![i] = row]
  BY <1>1, <1>4 DEF SaveQr, gateway
<1>7. StoreFits /\ PreFits
  BY <1>6, FitsAsBefore DEF IInv
<1>8. /\ row.pre # 0 => Card(i) /\ Card(row.pre)
      /\ charge[i] = "pending" => row.status = "PENDING"
  BY <1>2, <1>5 DEF IInv, Kinds
<1> QED
  BY <1>2, <1>3, <1>5, <1>6, <1>7, <1>8, NobodyPosts, WriteAndEnd

LEMMA DropInvoiceKeeps ==
    ASSUME IInv, NEW w \in Processes, DropInvoice(w)
    PROVE  IInv'
<1>1. PICK i : i = job[w].i
  OBVIOUS
<1>2. PixOf(i) /\ charge[i] = "none" /\ i \in Invoice /\ job[w].pc = "drop"
  BY <1>1 DEF DropInvoice, IInv, Fits, PixOf
<1>3. inv[i] \in InvoiceRow /\ inv[i].status # "absent" /\ inv[i].method = "PIX"
  BY <1>2 DEF IInv, Typed, Dated, PixOf, Pix
<1>4. PICK row : row = [inv[i] EXCEPT !.status = "deleted"]
  OBVIOUS
<1>5. /\ row \in InvoiceRow /\ row.status = "deleted" /\ row.method = inv[i].method
      /\ row.expires = inv[i].expires /\ row.pre = inv[i].pre
  BY <1>3, <1>4 DEF InvoiceRow, InvoiceStatus
<1>6. /\ UNCHANGED <<now, store, charge, pre>> /\ Done(w)
      /\ inv' = [inv EXCEPT ![i] = row]
  BY <1>1, <1>4 DEF DropInvoice, gateway
<1>7. StoreFits /\ PreFits
  BY <1>6, FitsAsBefore DEF IInv
<1>8. row.pre # 0 => Card(i) /\ Card(row.pre)
  BY <1>2, <1>5 DEF IInv, Kinds
<1>9. \A v \in Processes \ {w} : job[v].pc \in Posting => job[v].i # i
  BY <1>1, <1>2 DEF IInv, Apart, Posting
<1> QED
  BY <1>2, <1>3, <1>5, <1>6, <1>7, <1>8, <1>9, WriteAndEnd

LEMMA EmitKeeps ==
    ASSUME IInv, NEW w \in Processes, Emit(w)
    PROVE  IInv'
  BY ReadStoreKeeps, LockAndCreateKeeps, PostPixKeeps, SaveQrKeeps, DropInvoiceKeeps DEF Emit

-----------------------------------------------------------------------------
(* A card subscription *)

LEMMA TryToCancelFits ==
    ASSUME IInv, NEW i \in Invoice, Card(i), TryToCancel(i)
    PROVE  PreFits
<1>1. CASE UNCHANGED pre
  BY <1>1, FitsAsBefore DEF IInv
<1>2. CASE pre' = [pre EXCEPT ![i].status = "cancelled"]
  <2>1. pre' = [pre EXCEPT ![i] = [pre[i] EXCEPT !.status = "cancelled"]]
    BY <1>2
  <2>2. pre[i] \in PreRow /\ "cancelled" \in Words
    BY DEF IInv, Typed, Words
  <2>3. [pre[i] EXCEPT !.status = "cancelled"] \in PreRow
    BY <2>2 DEF PreRow
  <2> QED
    BY <2>1, <2>3 DEF IInv, Typed, Kinds, PreFits
<1> QED
  BY <1>1, <1>2 DEF TryToCancel

LEMMA CardBegins ==
    ASSUME IInv, NEW w \in Processes, Checkout(w) \/ SubscribeCard(w)
    PROVE  IInv'
<1>1. PICK i : i = IF store.sub \notin {"none", "cancelled"} THEN store.pre ELSE 0
  OBVIOUS
<1>2. i \in 0..MaxInvoices /\ (i = 0 \/ Card(i))
  <2>1. store.pre \in 0..MaxInvoices /\ 0 \in 0..MaxInvoices
    BY ConstantsTyped DEF IInv, Typed, StoreRow
  <2> QED
    BY <1>1, <2>1 DEF IInv, Kinds
<1>3. PICK op \in {"checkout", "card"} :
          Begin(w, [Idle EXCEPT !.pc = "create", !.op = op, !.i = i])
  BY <1>1 DEF Checkout, SubscribeCard
<1>4. PICK j : j = [Idle EXCEPT !.pc = "create", !.op = op, !.i = i]
  OBVIOUS
<1>5. j \in Jobs /\ j.pc = "create" /\ j.i = i
  <2>1. "create" \in Labels
    BY DEF Labels
  <2> QED
    BY <1>2, <1>4, <2>1, IdleTyped DEF Jobs
<1>6. UNCHANGED <<now, store, inv, charge, pre>> /\ Room
  BY DEF Checkout, SubscribeCard, rows, gateway
<1>7. job'[w] = j /\ Begin(w, j)
  BY <1>3, <1>4, JobHere DEF Begin, IInv
<1>8. Fits(w)'
  BY <1>2, <1>5, <1>6, <1>7 DEF Fits, Card
<1>9. j.pc \notin Posting /\ PreFits
  BY <1>5, <1>6, FitsAsBefore DEF Posting, IInv
<1> QED
  BY <1>5, <1>6, <1>7, <1>8, <1>9, BeginKeeps

LEMMA CancelAndCreateKeeps ==
    ASSUME IInv, NEW w \in Processes, CancelAndCreate(w)
    PROVE  IInv'
<1>1. UNCHANGED <<now, store, charge>> /\ job[w].pc = "create" /\ CreateInvoice(w, "CARD", "subscribe")
  BY DEF CancelAndCreate
<1>2. job[w].pc \in Making
  BY <1>1 DEF Making
<1>3. StoreFits
  BY <1>1, FitsAsBefore DEF IInv
<1>4. PreFits
  <2>1. CASE job[w].i = 0
    BY <2>1, FitsAsBefore DEF CancelAndCreate, IInv
  <2>2. CASE job[w].i # 0
    <3>1. Card(job[w].i) /\ job[w].i \in Invoice
      BY <1>1, <2>2 DEF IInv, Fits, Card
    <3> QED
      BY <2>2, <3>1, TryToCancelFits DEF CancelAndCreate
  <2> QED
    BY <2>1, <2>2
<1>5. PICK row : row = [NoInvoice EXCEPT !.status = "PENDING", !.method = "CARD", !.expires = 0]
  OBVIOUS
<1>6. row \in InvoiceRow /\ row.status = "PENDING" /\ row.method = "CARD" /\ row.pre = 0
  <2>1. NoInvoice.pre = 0
    BY DEF NoInvoice
  <2> QED
    BY <1>5, <2>1, IdleTyped DEF InvoiceRow, InvoiceStatus
<1>7. inv' = [inv EXCEPT ![Made + 1] = row]
  BY <1>1, <1>5 DEF CreateInvoice
<1>8. PICK j : j = [job[w] EXCEPT !.pc = "subscribe", !.i = Made + 1]
  OBVIOUS
<1>9. j \in Jobs /\ j.pc = "subscribe" /\ j.i = Made + 1
  <2>1. job[w] \in Jobs /\ "subscribe" \in Labels
    BY DEF IInv, Typed, Labels
  <2> QED
    BY <1>2, <1>8, <2>1, RoomToMake DEF Jobs
<1>10. job' = [job EXCEPT ![w] = j]
  BY <1>1, <1>8 DEF CreateInvoice
<1> QED
  BY <1>1, <1>2, <1>3, <1>4, <1>6, <1>7, <1>9, <1>10, Creating DEF Making

LEMMA PostPreapprovalKeeps ==
    ASSUME IInv, NEW w \in Processes, PostPreapproval(w)
    PROVE  IInv'
<1>1. PICK i : i = job[w].i
  OBVIOUS
<1>2. Card(i) /\ i \in Invoice /\ UNCHANGED <<now, store, charge>>
  BY <1>1 DEF PostPreapproval, IInv, Fits, Card
<1>3. StoreFits
  BY <1>2, FitsAsBefore DEF IInv
<1>4. PICK new : new = [status |-> IF job[w].op = "card" THEN "authorized" ELSE "pending",
                        charges |-> 0]
  OBVIOUS
<1>5. pre' = [pre EXCEPT ![i] = new] \/ UNCHANGED pre
  BY <1>1, <1>4 DEF PostPreapproval
<1>6. PreFits
  <2>1. CASE UNCHANGED pre
    BY <2>1, FitsAsBefore DEF IInv
  <2>2. CASE pre' = [pre EXCEPT ![i] = new]
    <3>1. new \in PreRow
      BY <1>4 DEF PreRow, Words
    <3> QED
      BY <1>2, <2>2, <3>1 DEF IInv, Typed, Kinds, PreFits
  <2> QED
    BY <1>5, <2>1, <2>2
<1>7. CASE Goto(w, "link") /\ UNCHANGED inv
  <2>1. job'[w].pc = "link" /\ job'[w].i = i /\ "link" \in Labels
    BY <1>1, <1>7, GotoJob DEF Labels, IInv
  <2>2. Fits(w)'
    BY <1>2, <1>7, <2>1 DEF Fits, Card
  <2>3. "link" \notin Posting /\ "link" \notin Making
    BY DEF Posting, Making
  <2> QED
    BY <1>2, <1>3, <1>6, <1>7, <2>1, <2>2, <2>3, GotoKeeps
<1>8. CASE Done(w) /\ inv' = [inv EXCEPT ![i].status = "CANCELLED"]
  <2>1. PICK row : row = [inv[i] EXCEPT !.status = "CANCELLED"]
    OBVIOUS
  <2>2. inv[i] \in InvoiceRow /\ inv[i].status # "absent" /\ charge[i] = "none"
    BY <1>2 DEF IInv, Typed, Kinds, Card, Pix
  <2>3. /\ row \in InvoiceRow /\ row.status = "CANCELLED" /\ row.method = inv[i].method
        /\ row.expires = inv[i].expires /\ row.pre = inv[i].pre
    BY <2>1, <2>2 DEF InvoiceRow, InvoiceStatus
  <2>4. inv' = [inv EXCEPT ![i] = row] /\ (row.pre # 0 => Card(row.pre))
    BY <1>2, <1>8, <2>1, <2>3 DEF IInv, Kinds
  <2>5. \A v \in Processes : job[v].pc \in Posting => job[v].i # i
    BY <1>2, NobodyPosts
  <2> QED
    BY <1>2, <1>3, <1>6, <1>8, <2>2, <2>3, <2>4, <2>5, WriteAndEnd
<1>9. CASE Done(w) /\ UNCHANGED inv
  BY <1>2, <1>3, <1>6, <1>9, DoneKeeps
<1> QED
  BY <1>1, <1>7, <1>8, <1>9 DEF PostPreapproval

LEMMA LinkKeeps ==
    ASSUME IInv, NEW w \in Processes, Link(w)
    PROVE  IInv'
<1>1. PICK i, card : i = job[w].i /\ card = (job[w].op = "card")
  OBVIOUS
<1>2. Card(i) /\ i \in Invoice /\ UNCHANGED <<now, charge, pre>>
  BY <1>1 DEF Link, IInv, Fits, Card, gateway
<1>3. inv[i] \in InvoiceRow /\ inv[i].status # "absent" /\ charge[i] = "none" /\ ~Pix(i)
  BY <1>2 DEF IInv, Typed, Kinds, Card, Pix
<1>4. PICK row : row = [inv[i] EXCEPT !.pre = i,
                                      !.status = IF card THEN "APPROVED" ELSE inv[i].status]
  OBVIOUS
<1>5. /\ row \in InvoiceRow /\ row.status # "absent" /\ row.method = inv[i].method
      /\ row.expires = inv[i].expires /\ row.pre = i
  <2>1. i \in 0..MaxInvoices
    BY <1>2, ConstantsTyped DEF Invoice
  <2> QED
    BY <1>3, <1>4, <2>1 DEF InvoiceRow, InvoiceStatus
<1>6. inv' = [inv EXCEPT ![i] = row]
  BY <1>1, <1>3, <1>4 DEF Link
<1>7. StoreFits
  <2>1. store' = [store EXCEPT !.pre = i, !.sub = IF card THEN "authorized" ELSE "pending"]
    BY <1>1 DEF Link
  <2>2. store \in StoreRow /\ i \in 0..MaxInvoices
    BY <1>2, ConstantsTyped DEF IInv, Typed, Invoice
  <2> QED
    BY <1>2, <2>1, <2>2 DEF StoreFits, StoreRow, Words
<1>8. PreFits
  BY <1>2, FitsAsBefore DEF IInv
<1>9. \A v \in Processes : job[v].pc \in Posting => job[v].i # i
  BY <1>2, NobodyPosts
<1>10. CASE card
  <2>1. PICK j : j = [job[w] EXCEPT !.pc = "load", !.paid = TRUE]
    OBVIOUS
  <2>2. job' = [job EXCEPT ![w] = j]
    BY <1>1, <1>10, <2>1 DEF Link
  <2>3. j \in Jobs /\ j.pc = "load" /\ j.i = i
    <3>1. job[w] \in Jobs /\ "load" \in Labels
      BY DEF IInv, Typed, Labels
    <3> QED
      BY <1>1, <2>1, <3>1 DEF Jobs
  <2>4. Fits(w)'
    <3>1. job'[w] = j /\ inv'[i] = row
      BY <1>2, <1>6, <2>2, JobHere DEF IInv, Typed
    <3>2. Card(i)'
      BY <1>2, <1>5, <3>1 DEF Card
    <3> QED
      BY <2>3, <3>1, <3>2 DEF Fits, Card
  <2>5. j.pc \notin Posting /\ j.pc \notin Making
    BY <2>3 DEF Posting, Making
  <2> QED
    BY <1>2, <1>3, <1>5, <1>6, <1>7, <1>8, <1>9, <2>2, <2>3, <2>4, <2>5, RowWritten
<1>11. CASE ~card
  <2>1. Done(w)
    BY <1>1, <1>11 DEF Link
  <2> QED
    BY <1>2, <1>3, <1>5, <1>6, <1>7, <1>8, <1>9, <2>1, WriteAndEnd
<1> QED
  BY <1>10, <1>11

LEMMA CancelKeeps ==
    ASSUME IInv, NEW w \in Processes, CancelSubscription(w)
    PROVE  IInv'
<1>1. store.pre # 0 /\ Card(store.pre) /\ store.pre \in Invoice /\ store.pre \in 0..MaxInvoices
  BY DEF CancelSubscription, IInv, Kinds, Card, Typed, StoreRow
<1>2. PICK j : j = [Idle EXCEPT !.pc = "cancelled", !.i = store.pre]
  OBVIOUS
<1>3. j \in Jobs /\ j.pc = "cancelled" /\ Begin(w, j)
  <2>1. "cancelled" \in Labels
    BY DEF Labels
  <2>2. j \in Jobs /\ j.pc = "cancelled"
    BY <1>1, <1>2, <2>1, IdleTyped DEF Jobs
  <2> QED
    BY <1>2, <2>2 DEF CancelSubscription
<1>4. UNCHANGED <<now, store, inv, charge>>
  BY DEF CancelSubscription, rows
<1>5. PreFits
  BY <1>1, TryToCancelFits DEF CancelSubscription, TryToCancel
<1>6. job'[w] = j
  BY <1>3, JobHere DEF Begin, IInv
<1>7. Fits(w)'
  BY <1>3, <1>6, EmptyHands DEF Empty
<1>8. j.pc \notin Posting /\ j.pc \notin Making
  BY <1>3 DEF Posting, Making
<1> QED
  BY <1>3, <1>4, <1>5, <1>7, <1>8, BeginKeeps

LEMMA ChooseFreeKeeps ==
    ASSUME IInv, NEW w \in Processes, ChooseFree(w)
    PROVE  IInv'
<1>1. PICK active : active = (store.pre # 0 /\ store.sub # "cancelled")
  OBVIOUS
<1>2. PICK j : j = [Idle EXCEPT !.pc = "free", !.paid = active]
  OBVIOUS
<1>3. j \in Jobs /\ j.pc = "free" /\ Begin(w, j)
  <2>1. "free" \in Labels
    BY DEF Labels
  <2>2. j \in Jobs /\ j.pc = "free"
    BY <1>1, <1>2, <2>1, IdleTyped DEF Jobs
  <2> QED
    BY <1>1, <1>2, <2>2 DEF ChooseFree
<1>4. UNCHANGED <<now, store, inv, charge>>
  BY DEF ChooseFree, rows
<1>5. PreFits
  <2>1. CASE active
    <3>1. Card(store.pre) /\ store.pre \in Invoice
      BY <1>1, <2>1 DEF IInv, Kinds, Card
    <3> QED
      BY <1>1, <2>1, <3>1, TryToCancelFits DEF ChooseFree
  <2>2. CASE ~active
    BY <1>1, <2>2, FitsAsBefore DEF ChooseFree, IInv
  <2> QED
    BY <2>1, <2>2
<1>6. job'[w] = j
  BY <1>3, JobHere DEF Begin, IInv
<1>7. Fits(w)'
  BY <1>3, <1>6, EmptyHands DEF Empty
<1>8. j.pc \notin Posting /\ j.pc \notin Making
  BY <1>3 DEF Posting, Making
<1> QED
  BY <1>3, <1>4, <1>5, <1>7, <1>8, BeginKeeps

\* The handlers that write the store's status and end.
LEMMA FreeFits ==
    ASSUME IInv, NEW cancelled \in BOOLEAN, store' = Free(store, cancelled)
    PROVE  StoreFits
<1>1. store \in StoreRow /\ (store.pre # 0 => Card(store.pre))
  BY DEF IInv, Typed, Kinds
<1>2. store' \in StoreRow /\ store'.pre = store.pre
  BY <1>1 DEF Free, StoreRow, Words
<1> QED
  BY <1>1, <1>2 DEF StoreFits

LEMMA StatusFits ==
    ASSUME IInv, NEW s \in {"TRIAL", "ACTIVE", "PAST_DUE", "SUSPENDED"}, NEW u \in Words,
           store' = [store EXCEPT !.status = s, !.sub = u]
    PROVE  StoreFits
<1>1. store \in StoreRow /\ (store.pre # 0 => Card(store.pre))
  BY DEF IInv, Typed, Kinds
<1>2. store' \in StoreRow /\ store'.pre = store.pre
  BY <1>1 DEF StoreRow
<1> QED
  BY <1>1, <1>2 DEF StoreFits

LEMMA StoreWrites ==
    ASSUME IInv, NEW w \in Processes,
           SaveCancelled(w) \/ SaveFree(w) \/ ViewFrees(w) \/ ViewMarksPastDue(w)
    PROVE  IInv'
<1>1. Done(w) /\ UNCHANGED <<now, inv, charge, pre>>
  BY DEF SaveCancelled, SaveFree, ViewFrees, ViewMarksPastDue, gateway
<1>2. PreFits
  BY <1>1, FitsAsBefore DEF IInv
<1>3. store \in StoreRow /\ job[w].paid \in BOOLEAN
  BY DEF IInv, Typed, Jobs
<1>4. StoreFits
  <2>1. CASE SaveCancelled(w)
    <3>1. store' = [store EXCEPT !.status = store.status, !.sub = "cancelled"]
      BY <1>3, <2>1 DEF SaveCancelled, StoreRow
    <3> QED
      BY <1>3, <3>1, StatusFits DEF StoreRow, Words
  <2>2. CASE SaveFree(w)
    BY <1>3, <2>2, FreeFits DEF SaveFree
  <2>3. CASE ViewFrees(w)
    BY <2>3, FreeFits DEF ViewFrees
  <2>4. CASE ViewMarksPastDue(w)
    <3>1. store' = [store EXCEPT !.status = "PAST_DUE", !.sub = store.sub]
      BY <1>3, <2>4 DEF ViewMarksPastDue, StoreRow
    <3> QED
      BY <1>3, <3>1, StatusFits DEF StoreRow
  <2> QED
    BY <2>1, <2>2, <2>3, <2>4
<1> QED
  BY <1>1, <1>2, <1>4, DoneKeeps

LEMMA ViewPlanKeeps ==
    ASSUME IInv, NEW w \in Processes, ViewPlan(w)
    PROVE  IInv'
<1>1. PICK pc \in {"viewfree", "viewpast"} : Begin(w, [Idle EXCEPT !.pc = pc])
  BY DEF ViewPlan
<1>2. PICK j : j = [Idle EXCEPT !.pc = pc]
  OBVIOUS
<1>3. j \in Jobs /\ j.pc = pc /\ Begin(w, j)
  <2>1. pc \in Labels
    BY <1>1 DEF Labels
  <2> QED
    BY <1>1, <1>2, <2>1, IdleTyped DEF Jobs
<1>4. UNCHANGED <<now, store, inv, charge, pre>>
  BY DEF ViewPlan, rows, gateway
<1>5. job'[w] = j
  BY <1>3, JobHere DEF Begin, IInv
<1>6. Fits(w)' /\ PreFits
  BY <1>1, <1>3, <1>4, <1>5, EmptyHands, FitsAsBefore DEF Empty, IInv
<1>7. j.pc \notin Posting /\ j.pc \notin Making
  BY <1>3 DEF Posting, Making
<1> QED
  BY <1>3, <1>4, <1>6, <1>7, BeginKeeps

-----------------------------------------------------------------------------
(* Mercado Pago *)

LEMMA StandsStill ==
    ASSUME IInv, UNCHANGED job
    PROVE  /\ Cron \in Processes /\ job[Cron] \in Jobs
           /\ job' = [job EXCEPT ![Cron] = job[Cron]] /\ job'[Cron] = job[Cron]
  BY DEF Processes, IInv, Typed

LEMMA PreChanges ==
    ASSUME IInv, UNCHANGED <<now, store, inv, charge, job>>, PreFits
    PROVE  IInv'
<1>1. PICK j \in Jobs : j = job[Cron] /\ job' = [job EXCEPT ![Cron] = j] /\ Cron \in Processes
  BY StandsStill
<1>2. Fits(Cron)'
  BY <1>1 DEF IInv, Fits, Card, PixOf, Pix, AsSeen, Settled
<1>3. StoreFits
  BY FitsAsBefore DEF IInv
<1> QED
  BY <1>1, <1>2, <1>3, Quietly

LEMMA ChargeChanges ==
    ASSUME IInv, NEW i \in Invoice, charge[i] = "pending", NEW s \in {"approved", "cancelled"},
           charge' = [charge EXCEPT ![i] = s], UNCHANGED <<now, store, inv, pre, job>>
    PROVE  IInv'
<1>1. PICK j \in Jobs : /\ j = job[Cron] /\ job' = [job EXCEPT ![Cron] = j]
                        /\ Cron \in Processes /\ job'[Cron] = job[Cron]
  BY StandsStill
<1>2. PixOf(i) /\ s \in Charges
  BY DEF IInv, Kinds, PixOf, Charges
<1>3. \A v \in Processes : job[v].pc \in Posting => job[v].i # i
  BY NobodyPosts
<1>4. Fits(Cron)'
  <2>1. Steady
    BY DEF IInv, Typed, Steady
  <2>2. Untouched(Cron)
    BY <1>1, <1>3 DEF IInv, Typed, Untouched, Fits, Posting, PixOf
  <2> QED
    BY <1>1, <2>1, <2>2, FitsStays DEF IInv
<1> QED
  BY <1>1, <1>2, <1>3, <1>4, ChargeWritten

LEMMA MercadoPagoKeeps ==
    ASSUME IInv, MercadoPago
    PROVE  IInv'
<1>1. PICK i \in Invoice : PayPix(i) \/ ExpirePix(i) \/ ChangePreapproval(i) \/ ChargeCard(i)
  BY DEF MercadoPago
<1>2. CASE PayPix(i)
  BY <1>2, ChargeChanges DEF PayPix, Payable, rows
<1>3. CASE ExpirePix(i)
  BY <1>3, ChargeChanges DEF ExpirePix, rows
<1>4. CASE ChangePreapproval(i)
  <2>1. PICK s \in {"authorized", "paused", "cancelled"} : pre' = [pre EXCEPT ![i].status = s]
    BY <1>4 DEF ChangePreapproval
  <2>2. Card(i)
    BY <1>4 DEF ChangePreapproval, IInv, Kinds
  <2>3. pre[i] \in PreRow /\ s \in Words
    BY <2>1 DEF IInv, Typed, Words
  <2>4. PreFits
    BY <2>1, <2>2, <2>3 DEF IInv, Typed, Kinds, PreFits, PreRow
  <2> QED
    BY <1>4, <2>4, PreChanges DEF ChangePreapproval, rows
<1>5. CASE ChargeCard(i)
  <2>1. Card(i)
    BY <1>5 DEF ChargeCard, IInv, Kinds
  <2>2. pre[i] \in PreRow /\ pre[i].charges + 1 \in Nat
    BY DEF IInv, Typed, PreRow
  <2>3. PreFits
    BY <1>5, <2>1, <2>2 DEF ChargeCard, IInv, Typed, Kinds, PreFits, PreRow
  <2> QED
    BY <1>5, <2>3, PreChanges DEF ChargeCard, rows
<1> QED
  BY <1>1, <1>2, <1>3, <1>4, <1>5

-----------------------------------------------------------------------------
(* Webhooks *)

LEMMA NotifyPixKeeps ==
    ASSUME IInv, NEW w \in Processes, NEW i \in Invoice, NotifyPix(w, i)
    PROVE  IInv'
<1>1. PICK j : j = [Idle EXCEPT !.pc = "payment", !.i = i, !.pay = PixPay(i), !.seen = charge[i]]
  OBVIOUS
<1>2. /\ j \in Jobs /\ j.pc = "payment" /\ j.i = i /\ j.seen = charge[i]
      /\ Begin(w, j)
  <2>1. "payment" \in Labels /\ charge[i] \in Words /\ i \in 0..MaxInvoices
    <3>1. charge[i] \in Charges
      BY DEF IInv, Typed
    <3>2. Charges \subseteq Words /\ "payment" \in Labels
      BY DEF Charges, Words, Labels
    <3> QED
      BY <3>1, <3>2, ConstantsTyped DEF Invoice
  <2>2. j \in Jobs /\ j.pc = "payment" /\ j.i = i /\ j.seen = charge[i]
    BY <1>1, <2>1, IdleTyped, PaysTyped DEF Jobs
  <2> QED
    BY <1>1, <2>2 DEF NotifyPix
<1>3. UNCHANGED <<now, store, inv, charge, pre>>
  BY DEF NotifyPix, rows, gateway
<1>4. job'[w] = j
  BY <1>2, JobHere DEF Begin, IInv
<1>5. AsSeen(i, charge[i])
  BY DEF NotifyPix, IInv, Kinds, AsSeen, PixOf
<1>6. Fits(w)'
  BY <1>2, <1>3, <1>4, <1>5 DEF Fits, AsSeen, PixOf, Pix
<1>7. j.pc \notin Posting /\ j.pc \notin Making /\ PreFits
  BY <1>2, <1>3, FitsAsBefore DEF Posting, Making, IInv
<1> QED
  BY <1>2, <1>3, <1>6, <1>7, BeginKeeps

LEMMA NotifyChargeKeeps ==
    ASSUME IInv, NEW w \in Processes, NEW i \in Invoice, NEW n \in 1..MaxCharges,
           NotifyCharge(w, i, n)
    PROVE  IInv'
<1>1. PICK pc \in {"payment", "recurring"} :
          Begin(w, [Idle EXCEPT !.pc = pc, !.i = i, !.pay = CardPay(i, n), !.seen = "approved"])
  BY DEF NotifyCharge
<1>2. PICK j : j = [Idle EXCEPT !.pc = pc, !.i = i, !.pay = CardPay(i, n), !.seen = "approved"]
  OBVIOUS
<1>3. /\ j \in Jobs /\ j.pc = pc /\ j.i = i /\ j.seen = "approved" /\ Begin(w, j)
  <2>1. pc \in Labels /\ "approved" \in Words /\ i \in 0..MaxInvoices /\ n \in Nat
    BY <1>1, ConstantsTyped DEF Labels, Words, Invoice
  <2>2. CardPay(i, n) \in Pays
    BY <2>1, PaysTyped
  <2> QED
    BY <1>1, <1>2, <2>1, <2>2, IdleTyped DEF Jobs
<1>4. UNCHANGED <<now, store, inv, charge, pre>>
  BY DEF NotifyCharge, rows, gateway
<1>5. job'[w] = j
  BY <1>3, JobHere DEF Begin, IInv
<1>6. Card(i)
  <2>1. pre[i].charges > 0
    BY DEF NotifyCharge, IInv, Typed, PreRow
  <2> QED
    BY <2>1 DEF IInv, Kinds
<1>7. Fits(w)'
  BY <1>1, <1>3, <1>4, <1>5, <1>6 DEF Fits, Card
<1>8. j.pc \notin Posting /\ j.pc \notin Making /\ PreFits
  BY <1>1, <1>3, <1>4, FitsAsBefore DEF Posting, Making, IInv
<1> QED
  BY <1>3, <1>4, <1>7, <1>8, BeginKeeps

LEMMA NoticeKeeps ==
    ASSUME IInv, NEW w \in Processes, NEW i \in Invoice,
           NotifyPreapproval(w, i) \/ SyncInvoice(w, i)
    PROVE  IInv'
<1>1. PICK k : k = IF NotifyPreapproval(w, i) THEN i ELSE inv[i].pre
  OBVIOUS
<1>2. Card(k) /\ k \in Invoice /\ k \in 0..MaxInvoices
  <2>1. Card(k)
    BY <1>1 DEF NotifyPreapproval, SyncInvoice, IInv, Kinds
  <2> QED
    BY <2>1, ConstantsTyped DEF Card, Invoice
<1>3. PICK j : j = [Idle EXCEPT !.pc = "preapproval", !.i = k, !.seen = pre[k].status]
  OBVIOUS
<1>4. j \in Jobs /\ j.pc = "preapproval" /\ j.i = k
  <2>1. "preapproval" \in Labels /\ pre[k].status \in Words
    BY <1>2 DEF Labels, IInv, Typed, PreRow
  <2> QED
    BY <1>2, <1>3, <2>1, IdleTyped DEF Jobs
<1>5. Begin(w, j) /\ UNCHANGED <<now, store, inv, charge, pre>>
  BY <1>1, <1>3 DEF NotifyPreapproval, SyncInvoice, rows, gateway
<1>6. job'[w] = j
  BY <1>4, <1>5, JobHere DEF Begin, IInv
<1>7. Fits(w)'
  BY <1>2, <1>4, <1>5, <1>6 DEF Fits, Card
<1>8. j.pc \notin Posting /\ j.pc \notin Making /\ PreFits
  BY <1>4, <1>5, FitsAsBefore DEF Posting, Making, IInv
<1> QED
  BY <1>4, <1>5, <1>7, <1>8, BeginKeeps

\* A handler that goes on, remembering j.
LEMMA GoesOn ==
    ASSUME IInv, NEW w \in Processes, NEW j \in Jobs, job' = [job EXCEPT ![w] = j],
           UNCHANGED <<now, store, inv, charge, pre>>, Fits(w)',
           j.pc \notin Posting, j.pc \notin Making
    PROVE  IInv'
<1>1. StoreFits /\ PreFits
  BY FitsAsBefore DEF IInv
<1> QED
  BY <1>1, Quietly

LEMMA ApplyPaymentKeeps ==
    ASSUME IInv, NEW w \in Processes, ApplyPayment(w)
    PROVE  IInv'
<1>1. PICK old, i : old = job[w] /\ i = old.i
  OBVIOUS
<1>2. /\ old \in Jobs /\ old.pc = "payment"
      /\ (Card(i) /\ old.seen = "approved") \/ AsSeen(i, old.seen)
  BY <1>1 DEF ApplyPayment, IInv, Typed, Fits
<1>3. i \in Invoice /\ inv[i] \in InvoiceRow /\ inv[i].status # "absent"
  BY <1>2 DEF IInv, Typed, Dated, Card, AsSeen, PixOf, Pix
<1>4. UNCHANGED <<now, store, charge, pre>>
  BY DEF ApplyPayment, gateway
<1>5. StoreFits /\ PreFits
  BY <1>4, FitsAsBefore DEF IInv
<1>6. CASE Done(w) /\ UNCHANGED inv
  BY <1>4, <1>5, <1>6, DoneKeeps
<1>7. CASE /\ old.seen # "approved" /\ Done(w)
           /\ inv' = [inv EXCEPT ![i].status = IF old.seen = "cancelled" THEN "REJECTED" ELSE "PENDING",
                                 ![i].pay = old.pay]
  <2>1. PICK row : row = [inv[i] EXCEPT !.pay = old.pay,
                            !.status = IF old.seen = "cancelled" THEN "REJECTED" ELSE "PENDING"]
    OBVIOUS
  <2>2. /\ row \in InvoiceRow /\ row.method = inv[i].method /\ row.expires = inv[i].expires
        /\ row.status = (IF old.seen = "cancelled" THEN "REJECTED" ELSE "PENDING")
        /\ row.pre = inv[i].pre
    BY <1>2, <1>3, <2>1 DEF InvoiceRow, InvoiceStatus, Jobs
  <2>3. inv' = [inv EXCEPT ![i] = row]
    BY <1>3, <1>7, <2>1 DEF IInv, Typed, InvoiceRow
  <2>4. charge[i] # "none" /\ (old.seen = "cancelled" => charge[i] = "cancelled")
    BY <1>2, <1>7 DEF AsSeen
  <2>5. row.pre # 0 => Card(i) /\ Card(row.pre)
    BY <1>3, <2>2 DEF IInv, Kinds
  <2>6. \A v \in Processes : job[v].pc \in Posting => job[v].i # i
    BY <1>3, <2>4, NobodyPosts
  <2>7. /\ charge[i] = "pending" => row.status = "PENDING"
        /\ charge[i] \in {"none", "pending"} => inv[i].status = "PENDING"
        /\ row.status # "absent"
    BY <1>3, <2>2, <2>4 DEF IInv, Kinds
  <2> QED
    BY <1>3, <1>4, <1>5, <1>7, <2>2, <2>3, <2>5, <2>6, <2>7, WriteAndEnd
<1>8. CASE /\ old.seen = "approved" /\ UNCHANGED inv
           /\ job' = [job EXCEPT ![w].pc = "load", ![w].paid = TRUE]
  <2>1. PICK j : j = [old EXCEPT !.pc = "load", !.paid = TRUE]
    OBVIOUS
  <2>2. j \in Jobs /\ j.pc = "load" /\ j.i = i
    <3>1. "load" \in Labels
      BY DEF Labels
    <3> QED
      BY <1>1, <1>2, <2>1, <3>1 DEF Jobs
  <2>3. job' = [job EXCEPT ![w] = j]
    BY <1>1, <1>8, <2>1 DEF IInv, Typed
  <2>4. job'[w] = j
    BY <2>3, JobHere DEF IInv
  <2>5. Card(i) \/ Settled(i)
    BY <1>2, <1>8 DEF AsSeen, Settled
  <2>6. Fits(w)'
    BY <1>4, <1>8, <2>2, <2>4, <2>5 DEF Fits, Card, Settled, PixOf, Pix
  <2>7. j.pc \notin Posting /\ j.pc \notin Making
    BY <2>2 DEF Posting, Making
  <2> QED
    BY <1>4, <1>8, <2>2, <2>3, <2>6, <2>7, GoesOn
<1> QED
  BY <1>1, <1>6, <1>7, <1>8 DEF ApplyPayment

LEMMA ApplyRecurringKeeps ==
    ASSUME IInv, NEW w \in Processes, ApplyRecurring(w)
    PROVE  IInv'
<1>1. PICK old, c : old = job[w] /\ c = old.i
  OBVIOUS
<1>2. old \in Jobs /\ old.pc = "recurring" /\ Card(c) /\ c \in Invoice /\ c # 0
  <2>1. job[w].pc = "recurring"
    BY DEF ApplyRecurring
  <2>2. job[w] \in Jobs /\ Card(job[w].i)
    BY <2>1 DEF IInv, Typed, Fits
  <2>3. job[w].i \in Invoice
    BY <2>2 DEF Card
  <2> QED
    BY <1>1, <2>1, <2>2, <2>3 DEF Invoice
<1>3. UNCHANGED <<now, store, charge, pre>>
  BY DEF ApplyRecurring, gateway
<1>4. StoreFits /\ PreFits
  BY <1>3, FitsAsBefore DEF IInv
<1>5. CASE Done(w) /\ UNCHANGED inv
  BY <1>3, <1>4, <1>5, DoneKeeps
<1> DEFINE ofPre == {i \in Invoice : Exists(i) /\ inv[i].pre = c}
           candidates == {i \in {c} : Exists(i)} \cup (IF ofPre = {} THEN {} ELSE {Max(ofPre)})
<1>6. \A i \in candidates : Card(i) /\ i \in Invoice
  <2>1. ASSUME ofPre # {} PROVE Card(Max(ofPre)) /\ Max(ofPre) \in Invoice
    <3>1. Max(ofPre) \in ofPre
      BY <2>1, LastOfInvoices
    <3>2. Max(ofPre) \in Invoice /\ inv[Max(ofPre)].pre = c
      BY <3>1
    <3> QED
      BY <3>2, <1>2 DEF IInv, Kinds
  <2> QED
    BY <2>1, <1>2
<1> HIDE DEF ofPre, candidates
<1>7. CASE \E i \in candidates :
              /\ Room
              /\ inv' = [inv EXCEPT ![Made + 1] =
                           [NoInvoice EXCEPT !.status = "PENDING", !.pre = inv[i].pre]]
              /\ job' = [job EXCEPT ![w].pc = "load", ![w].paid = TRUE, ![w].i = Made + 1]
  <2>1. PICK i \in candidates :
              /\ Room
              /\ inv' = [inv EXCEPT ![Made + 1] =
                           [NoInvoice EXCEPT !.status = "PENDING", !.pre = inv[i].pre]]
              /\ job' = [job EXCEPT ![w].pc = "load", ![w].paid = TRUE, ![w].i = Made + 1]
    BY <1>7
  <2>2. PICK row : row = [NoInvoice EXCEPT !.status = "PENDING", !.pre = inv[i].pre]
    OBVIOUS
  <2>3. i \in Invoice /\ inv[i] \in InvoiceRow /\ (inv[i].pre # 0 => Card(inv[i].pre))
    BY <1>6, <2>1 DEF IInv, Typed, Kinds
  <2>4. /\ row \in InvoiceRow /\ row.status = "PENDING" /\ row.method = "CARD"
        /\ row.pre = inv[i].pre
    <3>1. NoInvoice.method = "CARD"
      BY DEF NoInvoice
    <3> QED
      BY <2>2, <2>3, <3>1, IdleTyped DEF InvoiceRow, InvoiceStatus
  <2>5. PICK j : j = [old EXCEPT !.pc = "load", !.paid = TRUE, !.i = Made + 1]
    OBVIOUS
  <2>6. j \in Jobs /\ j.pc = "load" /\ j.i = Made + 1
    <3>1. "load" \in Labels /\ Made + 1 \in 0..MaxInvoices
      BY <2>1, RoomToMake DEF Labels
    <3> QED
      BY <1>2, <2>5, <3>1 DEF Jobs
  <2>7. job' = [job EXCEPT ![w] = j]
    BY <1>1, <2>1, <2>5 DEF IInv, Typed
  <2>8. /\ j.pc \notin Making /\ j.pc \in {"post", "subscribe", "load"}
        /\ row.pre # 0 => row.method = "CARD" /\ Card(row.pre)
        /\ inv' = [inv EXCEPT ![Made + 1] = row]
    BY <2>1, <2>2, <2>3, <2>4, <2>6 DEF Making
  <2> QED
    BY <1>3, <1>4, <2>1, <2>4, <2>6, <2>7, <2>8, Creating
<1>8. CASE \E i \in candidates :
              /\ job' = [job EXCEPT ![w].pc = "load", ![w].paid = TRUE, ![w].i = i]
              /\ UNCHANGED inv
  <2>1. PICK i \in candidates :
              /\ job' = [job EXCEPT ![w].pc = "load", ![w].paid = TRUE, ![w].i = i]
              /\ UNCHANGED inv
    BY <1>8
  <2>2. Card(i) /\ i \in 0..MaxInvoices
    BY <1>6, <2>1, ConstantsTyped DEF Invoice
  <2>3. PICK j : j = [old EXCEPT !.pc = "load", !.paid = TRUE, !.i = i]
    OBVIOUS
  <2>4. j \in Jobs /\ j.pc = "load" /\ j.i = i
    <3>1. "load" \in Labels
      BY DEF Labels
    <3> QED
      BY <1>2, <2>2, <2>3, <3>1 DEF Jobs
  <2>5. job' = [job EXCEPT ![w] = j]
    BY <1>1, <2>1, <2>3 DEF IInv, Typed
  <2>6. job'[w] = j
    BY <2>5, JobHere DEF IInv
  <2>7. Fits(w)'
    BY <2>1, <2>2, <2>4, <2>6 DEF Fits, Card
  <2>8. j.pc \notin Posting /\ j.pc \notin Making
    BY <2>4 DEF Posting, Making
  <2> QED
    BY <1>3, <2>1, <2>4, <2>5, <2>7, <2>8, GoesOn
<1>9. (Done(w) /\ UNCHANGED inv) \/ \E i \in candidates :
         IF inv[i].status = "APPROVED" /\ inv[i].pay # NoPay
         THEN /\ Room
              /\ inv' = [inv EXCEPT ![Made + 1] =
                           [NoInvoice EXCEPT !.status = "PENDING", !.pre = inv[i].pre]]
              /\ job' = [job EXCEPT ![w].pc = "load", ![w].paid = TRUE, ![w].i = Made + 1]
         ELSE /\ job' = [job EXCEPT ![w].pc = "load", ![w].paid = TRUE, ![w].i = i]
              /\ UNCHANGED inv
  BY <1>1 DEF ApplyRecurring, ofPre, candidates
<1> QED
  BY <1>5, <1>7, <1>8, <1>9

LEMMA ReadPreapprovalKeeps ==
    ASSUME IInv, NEW w \in Processes, ReadPreapproval(w)
    PROVE  IInv'
<1>1. PICK old, i : old = job[w] /\ i = old.i
  OBVIOUS
<1>2. /\ old \in Jobs /\ Card(i) /\ i \in Invoice
      /\ UNCHANGED <<now, store, inv, charge, pre>>
  BY <1>1 DEF ReadPreapproval, IInv, Typed, Fits, Card, rows, gateway
<1>3. CASE Done(w)
  BY <1>2, <1>3, DoneKeeps, FitsAsBefore DEF IInv
<1>4. CASE ~Done(w)
  <2>1. PICK pc \in {"demote", "adopt"}, date \in {0, store.due} :
           job' = [job EXCEPT ![w].pc = pc, ![w].paid = inv[i].status # "APPROVED",
                              ![w].date = date]
    BY <1>1, <1>4 DEF ReadPreapproval
  <2>2. PICK j : j = [old EXCEPT !.pc = pc, !.paid = inv[i].status # "APPROVED", !.date = date]
    OBVIOUS
  <2>3. j \in Jobs /\ j.pc = pc /\ j.i = i
    <3>1. pc \in Labels /\ date \in Nat
      BY <2>1 DEF Labels, IInv, Typed, StoreRow
    <3>2. (inv[i].status # "APPROVED") \in BOOLEAN
      OBVIOUS
    <3> QED
      BY <1>1, <1>2, <2>2, <3>1, <3>2 DEF Jobs
  <2>4. job' = [job EXCEPT ![w] = j]
    BY <1>1, <2>1, <2>2 DEF IInv, Typed
  <2>5. job'[w] = j
    BY <2>4, JobHere DEF IInv
  <2>6. Fits(w)'
    BY <1>2, <2>1, <2>3, <2>5 DEF Fits, Card
  <2>7. j.pc \notin Posting /\ j.pc \notin Making
    BY <2>1, <2>3 DEF Posting, Making
  <2> QED
    BY <1>2, <2>3, <2>4, <2>6, <2>7, GoesOn
<1> QED
  BY <1>3, <1>4

LEMMA DemoteKeeps ==
    ASSUME IInv, NEW w \in Processes, Demote(w)
    PROVE  IInv'
<1>1. PICK s, u : /\ store' = [store EXCEPT !.sub = u, !.status = s]
                  /\ u = job[w].seen /\ s \in {"PAST_DUE", store.status}
  BY DEF Demote
<1>2. u \in Words /\ s \in {"TRIAL", "ACTIVE", "PAST_DUE", "SUSPENDED"} /\ store \in StoreRow
  BY <1>1 DEF IInv, Typed, Jobs, StoreRow
<1>3. store' = [store EXCEPT !.status = s, !.sub = u]
  BY <1>1, <1>2 DEF StoreRow
<1>4. Done(w) /\ UNCHANGED <<now, inv, charge, pre>>
  BY DEF Demote, gateway
<1>5. StoreFits /\ PreFits
  BY <1>2, <1>3, <1>4, StatusFits, FitsAsBefore DEF IInv
<1> QED
  BY <1>4, <1>5, DoneKeeps

LEMMA AdoptKeeps ==
    ASSUME IInv, NEW w \in Processes, Adopt(w)
    PROVE  IInv'
<1>1. PICK old, i : old = job[w] /\ i = old.i
  OBVIOUS
<1>2. /\ old \in Jobs /\ Card(i) /\ i \in Invoice /\ i \in 0..MaxInvoices
      /\ UNCHANGED <<now, inv, charge, pre>>
  BY <1>1, ConstantsTyped DEF Adopt, IInv, Typed, Fits, Card, Invoice, gateway
<1>3. StoreFits
  <2>1. store' = [store EXCEPT !.pre = i, !.sub = old.seen]
    BY <1>1 DEF Adopt
  <2>2. store \in StoreRow /\ old.seen \in Words
    BY <1>2 DEF IInv, Typed, Jobs
  <2> QED
    BY <1>2, <2>1, <2>2 DEF StoreFits, StoreRow
<1>4. PreFits
  BY <1>2, FitsAsBefore DEF IInv
<1>5. CASE Done(w)
  BY <1>2, <1>3, <1>4, <1>5, DoneKeeps
<1>6. CASE job' = [job EXCEPT ![w].pc = "load", ![w].pay = NoPay]
  <2>1. PICK j : j = [old EXCEPT !.pc = "load", !.pay = NoPay]
    OBVIOUS
  <2>2. j \in Jobs /\ j.pc = "load" /\ j.i = i
    <3>1. "load" \in Labels
      BY DEF Labels
    <3> QED
      BY <1>1, <1>2, <2>1, <3>1, IdleTyped DEF Jobs
  <2>3. job' = [job EXCEPT ![w] = j]
    BY <1>1, <1>6, <2>1 DEF IInv, Typed
  <2>4. job'[w] = j
    BY <2>3, JobHere DEF IInv
  <2>5. Fits(w)'
    BY <1>2, <2>2, <2>4 DEF Fits, Card
  <2>6. j.pc \notin Posting /\ j.pc \notin Making
    BY <2>2 DEF Posting, Making
  <2> QED
    BY <1>2, <1>3, <1>4, <2>2, <2>3, <2>5, <2>6, Quietly
<1> QED
  BY <1>5, <1>6 DEF Adopt

-----------------------------------------------------------------------------
(* activateStoreFromInvoice *)

LEMMA GrantHolds ==
    ASSUME IInv, NEW w \in Processes, job[w].pc \in {"load", "grant", "commit"}
    PROVE  /\ job[w] \in Jobs /\ job[w].i \in Invoice
           /\ Card(job[w].i) \/ Settled(job[w].i)
  BY DEF IInv, Typed, Fits, Card, Settled, PixOf

LEMMA LoadInvoiceKeeps ==
    ASSUME IInv, NEW w \in Processes, LoadInvoice(w)
    PROVE  IInv'
<1>1. PICK old, i : old = job[w] /\ i = old.i
  OBVIOUS
<1>2. job[w].pc = "load" /\ UNCHANGED <<now, store, inv, charge, pre>>
  BY DEF LoadInvoice, rows, gateway
<1>3. old \in Jobs /\ i \in Invoice /\ (Card(i) \/ Settled(i))
  BY <1>1, <1>2, GrantHolds
<1>4. CASE Done(w)
  BY <1>2, <1>4, DoneKeeps, FitsAsBefore DEF IInv
<1>5. CASE job' = [job EXCEPT ![w].pc = "grant", ![w].had = inv[i].status]
  <2>1. PICK j : j = [old EXCEPT !.pc = "grant", !.had = inv[i].status]
    OBVIOUS
  <2>2. j \in Jobs /\ j.pc = "grant" /\ j.i = i
    <3>1. "grant" \in Labels /\ inv[i].status \in InvoiceStatus
      BY <1>3 DEF Labels, IInv, Typed, InvoiceRow
    <3> QED
      BY <1>1, <1>3, <2>1, <3>1 DEF Jobs
  <2>3. job' = [job EXCEPT ![w] = j]
    BY <1>1, <1>5, <2>1 DEF IInv, Typed
  <2>4. job'[w] = j
    BY <2>3, JobHere DEF IInv
  <2>5. Fits(w)'
    BY <1>2, <1>3, <2>2, <2>4 DEF Fits, Card, Settled, PixOf, Pix
  <2>6. j.pc \notin Posting /\ j.pc \notin Making
    BY <2>2 DEF Posting, Making
  <2> QED
    BY <1>2, <2>2, <2>3, <2>5, <2>6, GoesOn
<1> QED
  BY <1>1, <1>4, <1>5 DEF LoadInvoice

LEMMA ReadDueKeeps ==
    ASSUME IInv, NEW w \in Processes, ReadDue(w)
    PROVE  IInv'
<1>1. PICK old, i : old = job[w] /\ i = old.i
  OBVIOUS
<1>2. job[w].pc = "grant" /\ UNCHANGED <<now, store, inv, charge, pre>>
  BY DEF ReadDue, rows, gateway
<1>3. old \in Jobs /\ i \in Invoice /\ (Card(i) \/ Settled(i))
  BY <1>1, <1>2, GrantHolds
<1>4. CASE Done(w)
  BY <1>2, <1>4, DoneKeeps, FitsAsBefore DEF IInv
<1>5. CASE job' = [job EXCEPT ![w].pc = "commit", ![w].date = NextDue(store.due)]
  <2>1. PICK j : j = [old EXCEPT !.pc = "commit", !.date = NextDue(store.due)]
    OBVIOUS
  <2>2. j \in Jobs /\ j.pc = "commit" /\ j.i = i
    <3>1. "commit" \in Labels /\ NextDue(store.due) \in Nat
      BY ConstantsTyped DEF Labels, IInv, Typed, StoreRow, NextDue
    <3> QED
      BY <1>1, <1>3, <2>1, <3>1 DEF Jobs
  <2>3. job' = [job EXCEPT ![w] = j]
    BY <1>1, <1>5, <2>1 DEF IInv, Typed
  <2>4. job'[w] = j
    BY <2>3, JobHere DEF IInv
  <2>5. Fits(w)'
    BY <1>2, <1>3, <2>2, <2>4 DEF Fits, Card, Settled, PixOf, Pix
  <2>6. j.pc \notin Posting /\ j.pc \notin Making
    BY <2>2 DEF Posting, Making
  <2> QED
    BY <1>2, <2>2, <2>3, <2>5, <2>6, GoesOn
<1> QED
  BY <1>4, <1>5 DEF ReadDue

LEMMA CommitGrantKeeps ==
    ASSUME IInv, NEW w \in Processes, CommitGrant(w)
    PROVE  IInv'
<1>1. PICK old, i : old = job[w] /\ i = old.i
  OBVIOUS
<1>2. job[w].pc = "commit" /\ UNCHANGED <<now, charge, pre>> /\ Done(w)
  BY DEF CommitGrant, gateway
<1>3. old \in Jobs /\ i \in Invoice /\ (Card(i) \/ Settled(i))
  BY <1>1, <1>2, GrantHolds
<1>4. inv[i] \in InvoiceRow /\ inv[i].status # "absent" /\ charge[i] # "pending"
  BY <1>3 DEF IInv, Typed, Dated, Kinds, Card, Settled, PixOf, Pix
<1>5. PICK row : row = [inv[i] EXCEPT !.pay = IF old.pay # NoPay THEN old.pay ELSE inv[i].pay,
                                      !.status = IF MarksPaid(old) THEN "APPROVED" ELSE inv[i].status]
  OBVIOUS
<1>6. /\ row \in InvoiceRow /\ row.method = inv[i].method /\ row.expires = inv[i].expires
      /\ row.pre = inv[i].pre /\ row.status \in {"APPROVED", inv[i].status}
  BY <1>3, <1>4, <1>5 DEF InvoiceRow, InvoiceStatus, Jobs
<1>7. inv' = [inv EXCEPT ![i] = row]
  <2>1. inv' = [inv EXCEPT ![i] =
                  [inv[i] EXCEPT !.pay = IF old.pay # NoPay THEN old.pay ELSE inv[i].pay,
                                 !.status = IF MarksPaid(old) THEN "APPROVED" ELSE inv[i].status]]
    BY <1>1, Zenon DEF CommitGrant
  <2> QED
    BY <1>5, <2>1
<1>8. StoreFits
  <2>1. store' = [store EXCEPT !.status = "ACTIVE", !.plan = "paid", !.sub = "authorized",
                               !.due = old.date]
    BY <1>1 DEF CommitGrant
  <2>2. store \in StoreRow /\ old.date \in Nat /\ "authorized" \in Words
    BY <1>3 DEF IInv, Typed, Jobs, Words
  <2>3. store' \in StoreRow /\ store'.pre = store.pre
    BY <2>1, <2>2 DEF StoreRow
  <2> QED
    BY <2>3 DEF StoreFits, IInv, Kinds
<1>9. PreFits
  BY <1>2, FitsAsBefore DEF IInv
<1>10. row.pre # 0 => Card(i) /\ Card(row.pre)
  BY <1>3, <1>6 DEF IInv, Kinds
<1>11. \A v \in Processes : job[v].pc \in Posting => job[v].i # i
  <2>1. Card(i) \/ charge[i] # "none"
    BY <1>3 DEF Settled
  <2> QED
    BY <1>3, <2>1, NobodyPosts
<1>12. row.status # "absent" /\ (row.status = "PENDING" => inv[i].status = "PENDING")
  BY <1>4, <1>6
<1> QED
  BY <1>2, <1>3, <1>4, <1>6, <1>7, <1>8, <1>9, <1>10, <1>11, <1>12, WriteAndEnd

-----------------------------------------------------------------------------
(* The cron's run *)

LEMMA CronStepKeeps ==
    ASSUME IInv, CronStep
    PROVE  IInv'
<1>0. Cron \in Processes /\ store \in StoreRow
  BY DEF Processes, IInv, Typed
<1>1. CASE CronCharges
  <2>1. UNCHANGED <<now, store, inv, charge, pre>>
    BY <1>1 DEF CronCharges, rows, gateway
  <2>2. StoreFits /\ PreFits
    BY <2>1, FitsAsBefore DEF IInv
  <2>3. CASE ShouldCharge /\ Room
    <3>1. Goto(Cron, "emit") /\ "emit" \in Labels /\ "emit" \in Empty /\ "emit" \notin Posting
      BY <1>1, <2>3 DEF CronCharges, Labels, Empty, Posting
    <3> QED
      BY <1>0, <2>1, <2>2, <2>3, <3>1, GoneTo, GotoKeeps
  <2>4. CASE ~(ShouldCharge /\ Room)
    <3>1. Done(Cron)
      BY <1>1, <2>4 DEF CronCharges
    <3> QED
      BY <1>0, <2>1, <2>2, <3>1, DoneKeeps
  <2> QED
    BY <2>3, <2>4
<1>2. CASE Emit(Cron)
  BY <1>0, <1>2, EmitKeeps
<1>3. ASSUME NEW pc \in {"freetest", "pastdue", "late", "freelate", "end"},
             Goto(Cron, pc), UNCHANGED <<now, inv, charge, pre>>, StoreFits
      PROVE  IInv'
  <2>1. pc \in Labels /\ pc \in Empty /\ pc \notin Posting /\ pc \notin Making
    BY <1>3 DEF Labels, Empty, Posting, Making
  <2>2. PreFits
    BY <1>3, FitsAsBefore DEF IInv
  <2>3. Fits(Cron)'
    BY <1>0, <1>3, <2>1, GoneTo
  <2> QED
    BY <1>0, <1>3, <2>1, <2>2, <2>3, GotoKeeps
<1>4. ASSUME UNCHANGED store PROVE StoreFits
  BY <1>4, FitsAsBefore DEF IInv
<1>5. CASE CronEndsTrials
  BY <1>3, <1>4, <1>5 DEF CronEndsTrials, CronMoves, rows, gateway
<1>6. CASE CronFrees("freetest", "pastdue") \/ CronFrees("freelate", "end")
  <2>1. StoreFits
    BY <1>6, FreeFits DEF CronFrees
  <2> QED
    BY <1>3, <1>6, <2>1 DEF CronFrees, gateway
<1>7. CASE CronMarksPastDue
  <2>1. StoreFits
    <3>1. CASE store' = store
      BY <1>4, <3>1
    <3>2. CASE store' = [store EXCEPT !.status = "PAST_DUE"]
      <4>1. store' = [store EXCEPT !.status = "PAST_DUE", !.sub = store.sub] /\ store.sub \in Words
        BY <1>0, <3>2 DEF StoreRow
      <4> QED
        BY <4>1, StatusFits
    <3> QED
      BY <1>7, <3>1, <3>2 DEF CronMarksPastDue
  <2> QED
    BY <1>3, <1>7, <2>1 DEF CronMarksPastDue, gateway
<1>8. CASE CronFindsLate
  BY <1>3, <1>4, <1>8 DEF CronFindsLate, CronMoves, rows, gateway
<1>9. CASE CronSuspends
  <2>1. StoreFits
    <3>1. CASE store' = store
      BY <1>4, <3>1
    <3>2. CASE store' = [store EXCEPT !.status = "SUSPENDED"]
      <4>1. store' = [store EXCEPT !.status = "SUSPENDED", !.sub = store.sub] /\ store.sub \in Words
        BY <1>0, <3>2 DEF StoreRow
      <4> QED
        BY <4>1, StatusFits
    <3> QED
      BY <1>9, <3>1, <3>2 DEF CronSuspends
  <2> QED
    BY <1>3, <1>9, <2>1 DEF CronSuspends, gateway
<1>10. CASE CronEnds
  <2>1. job' = [job EXCEPT ![Cron] = Idle] /\ UNCHANGED <<now, store, inv, charge, pre>>
    BY <1>10 DEF CronEnds, rows, gateway
  <2>2. Idle \in Jobs /\ Idle.pc = "idle"
    BY IdleTyped DEF Idle
  <2>3. job'[Cron] = Idle
    BY <1>0, <2>1 DEF IInv, Typed
  <2>4. Fits(Cron)'
    BY <2>2, <2>3, EmptyHands DEF Empty
  <2>5. "idle" \notin Posting /\ "idle" \notin Making
    BY DEF Posting, Making
  <2> QED
    BY <1>0, <2>1, <2>2, <2>4, <2>5, GoesOn
<1> QED
  BY <1>1, <1>2, <1>5, <1>6, <1>7, <1>8, <1>9, <1>10 DEF CronStep

LEMMA CrashKeeps ==
    ASSUME IInv, NEW w \in Processes, Crash(w)
    PROVE  IInv'
<1>1. job' = [job EXCEPT ![w] = Idle] /\ UNCHANGED <<now, store, inv, charge, pre>>
  BY DEF Crash, rows, gateway
<1>2. Idle \in Jobs /\ Idle.pc = "idle"
  BY IdleTyped DEF Idle
<1>3. job'[w] = Idle
  BY <1>1 DEF IInv, Typed
<1>4. Fits(w)'
  BY <1>2, <1>3, EmptyHands DEF Empty
<1>5. "idle" \notin Posting /\ "idle" \notin Making
  BY DEF Posting, Making
<1> QED
  BY <1>1, <1>2, <1>4, <1>5, GoesOn

LEMMA NextDayKeeps ==
    ASSUME IInv, NextDay
    PROVE  IInv'
<1>1. now \in Nat /\ now' = now + 1 /\ UNCHANGED <<store, inv, charge, pre, job>>
  BY DEF NextDay, rows, gateway, IInv, Typed
<1>2. Typed'
  BY <1>1 DEF IInv, Typed
<1>3. Counted' /\ Kinds' /\ Apart' /\ \A w \in Processes : Fits(w)'
  BY <1>1 DEF IInv, Counted, Made, Makers, Kinds, Apart, Fits, Card, Pix, PixOf, AsSeen, Settled
<1>4. \A i \in Invoice : inv[i].expires \in Nat
  BY DEF IInv, Typed, InvoiceRow
<1>5. Dated'
  BY <1>1, <1>4, ConstantsTyped DEF IInv, Dated, Pix
<1>6. \A i \in Invoice : Open(i)' => Open(i)
  BY <1>1, <1>4 DEF Open, Pix
<1>7. OpenOnce'
  BY <1>6 DEF IInv, OpenOnce
<1> QED
  BY <1>2, <1>3, <1>5, <1>7 DEF IInv

-----------------------------------------------------------------------------
(* The theorem *)

LEMMA InitHolds == Init => IInv
<1> SUFFICES ASSUME Init PROVE IInv
  OBVIOUS
<1>1. \A i \in Invoice : inv[i] = NoInvoice /\ charge[i] = "none" /\ pre[i].status = "none"
                         /\ pre[i].charges = 0
  BY DEF Init
<1>2. NoInvoice.status = "absent" /\ NoInvoice.method = "CARD" /\ NoInvoice.pre = 0
  BY DEF NoInvoice
<1>3. \A w \in Processes : job[w].pc = "idle"
  BY DEF Init, Idle
<1>4. Typed
  <2>1. store \in StoreRow
    BY ConstantsTyped DEF Init, StoreRow, Words
  <2>2. pre \in [Invoice -> PreRow] /\ charge \in [Invoice -> Charges]
    BY DEF Init, PreRow, Words, Charges
  <2> QED
    BY <2>1, <2>2, IdleTyped DEF Init, Typed
<1>5. Counted
  <2>1. {i \in Invoice : inv[i].status # "absent"} = {} /\ Makers = {}
    BY <1>1, <1>2, <1>3 DEF Makers, Making
  <2>2. Made = 0 /\ Cardinality(Makers) = 0
    BY <2>1, FS_EmptySet DEF Made
  <2> QED
    BY <1>1, <1>2, <2>2, ConstantsTyped DEF Counted, Invoice
<1>6. Dated /\ OpenOnce /\ Apart /\ \A w \in Processes : Fits(w)
  BY <1>1, <1>2, <1>3 DEF Dated, OpenOnce, Open, Pix, Apart, Posting, Fits
<1>7. Kinds
  BY <1>1, <1>2 DEF Init, Kinds
<1> QED
  BY <1>4, <1>5, <1>6, <1>7 DEF IInv

LEMMA NextKeeps == IInv /\ [Next]_vars => IInv'
<1> SUFFICES ASSUME IInv, [Next]_vars PROVE IInv'
  OBVIOUS
<1>0. Desks \subseteq Processes /\ Hooks \subseteq Processes /\ Workers \subseteq Processes
  BY DEF Processes, Workers
<1>1. CASE NextDay
  BY <1>1, NextDayKeeps
<1>2. CASE MercadoPago
  BY <1>2, MercadoPagoKeeps
<1>3. CASE CronStep
  BY <1>3, CronStepKeeps
<1>4. CASE \E w \in Desks : Request(w)
  BY <1>0, <1>4, PixBegins, CardBegins, CancelKeeps, ChooseFreeKeeps, ViewPlanKeeps DEF Request
<1>5. CASE \E w \in Hooks : Notify(w)
  BY <1>0, <1>5, NotifyPixKeeps, NotifyChargeKeeps, NoticeKeeps DEF Notify
<1>6. CASE \E w \in Workers : Work(w)
  <2>1. PICK w \in Processes : Work(w)
    BY <1>0, <1>6
  <2> QED
    BY <2>1, SetMethodKeeps, EmitKeeps, CancelAndCreateKeeps, PostPreapprovalKeeps, LinkKeeps,
       StoreWrites, ApplyPaymentKeeps, ApplyRecurringKeeps, ReadPreapprovalKeeps, DemoteKeeps,
       AdoptKeeps, LoadInvoiceKeeps, ReadDueKeeps, CommitGrantKeeps DEF Work
<1>7. CASE \E w \in Processes : Crash(w)
  BY <1>7, CrashKeeps
<1>8. CASE UNCHANGED vars
  <2>1. UNCHANGED <<now, store, inv, charge, pre, job>>
    BY <1>8 DEF vars
  <2> QED
    BY <2>1, PreChanges, FitsAsBefore DEF IInv
<1> QED
  BY <1>1, <1>2, <1>3, <1>4, <1>5, <1>6, <1>7, <1>8 DEF Next

LEMMA InvariantHolds == Spec => []IInv
  BY InitHolds, NextKeeps, PTL DEF Spec

LEMMA AtMostOnePayable ==
    ASSUME IInv
    PROVE  OnePayable
<1> DEFINE S == {i \in Invoice : Payable(i)}
<1>1. \A i \in S : Open(i)
  BY DEF Payable, Open, IInv, Kinds
<1>2. \A i, k \in S : i = k
  BY <1>1 DEF IInv, OpenOnce
<1>3. CASE S = {}
  BY <1>3, FS_EmptySet DEF OnePayable
<1>4. CASE S # {}
  <2>1. PICK i \in S : S = {i}
    BY <1>2, <1>4
  <2>2. Cardinality(S) = 1
    BY <2>1, FS_Singleton
  <2> QED
    BY <2>2 DEF OnePayable
<1> QED
  BY <1>3, <1>4

\* However many desks, webhooks and cron runs meet, with answers lost and
\* processes that die anywhere, the merchant never holds two Pix codes that
\* can both be paid: emitirCobrancaPix looks and makes under the store's lock.
THEOREM OneCodeToPay == Spec => []OnePayable
  BY InvariantHolds, AtMostOnePayable, PTL

-----------------------------------------------------------------------------
(* One period per payment of Pix.  Two notices of one payment that are     *)
(* handled at the same moment each add a period: that race is named.       *)

\* The statements between a payment's notice and the period it adds.
Granting == {"load", "grant", "commit"}

\* The merchant subscribes with no card: a subscription's authorisation and
\* its first charge each add a period.
ByPix == \A w \in Processes : ~Checkout(w) /\ ~SubscribeCard(w)

\* While a period is granted no other notice of that invoice is on the way
\* from its check of the invoice to the grant, nor one that was read before
\* the charge was paid.
NoTwin ==
    \A v, w \in Processes :
        CommitGrant(w) /\ v # w /\ job[v].i = job[w].i =>
            /\ job[v].pc \notin Granting
            /\ ~(job[v].pc = "payment" /\ job[v].seen # "approved")

Applying == Granting \cup {"payment"}
Approved == {i \in Invoice : inv[i].status = "APPROVED"}

\* An approved invoice has been paid, by the charge it names, and added its
\* period; the webhook that is about to approve one is the only one to.
OncePaid ==
    /\ \A i \in Invoice : ~Card(i)
    /\ \A i \in Approved : charge[i] = "approved" /\ inv[i].pay = PixPay(i)
    /\ granted = Cardinality(Approved)

Grants(w) ==
    LET j == job[w] IN
    /\ j.pc # "create"
    /\ j.pc \in Applying => w \in Hooks /\ j.pay = PixPay(j.i)
    /\ j.pc = "payment" /\ j.seen # "approved" => j.i \notin Approved
    /\ j.pc \in Granting => j.paid /\ j.i \notin Approved
    /\ j.pc \in {"grant", "commit"} => j.had # "APPROVED"

GrantedOnce == OncePaid /\ \A w \in Processes : Grants(w)

\* A step that approves nothing, and after which whoever moved is not about to.
LEMMA NothingGranted ==
    ASSUME GrantedOnce, granted' = granted, Approved' = Approved,
           \A i \in Approved : charge'[i] = "approved" /\ inv'[i].pay = PixPay(i),
           \A i \in Invoice : ~Card(i)',
           \A w \in Processes : job'[w] = job[w] \/ Grants(w)'
    PROVE  GrantedOnce'
<1>1. OncePaid'
  BY DEF GrantedOnce, OncePaid
<1>2. ASSUME NEW w \in Processes PROVE Grants(w)'
  <2>1. CASE job'[w] = job[w]
    BY <2>1 DEF GrantedOnce, Grants
  <2> QED
    BY <2>1
<1> QED
  BY <1>1, <1>2 DEF GrantedOnce

LEMMA ElsewhereGrants ==
    ASSUME NEW w, job'[w].pc \notin Applying \cup {"create"}
    PROVE  Grants(w)'
  BY DEF Grants, Applying, Granting

Aside == Labels \ (Applying \cup {"create"})

LEMMA DoneEnds ==
    ASSUME Typed, NEW w \in Processes, Done(w)
    PROVE  \E j \in Jobs : job' = [job EXCEPT ![w] = j] /\ j.pc \in {"idle", "tests"}
<1>1. PICK j : j = IF w = Cron THEN [Idle EXCEPT !.pc = "tests", !.date = now] ELSE Idle
  OBVIOUS
<1>2. j \in Jobs /\ j.pc \in {"idle", "tests"}
  BY <1>1, IdleTyped DEF Idle, Jobs, Labels, Typed
<1> QED
  BY <1>1, <1>2 DEF Done

\* A process that moves, but not to apply a payment.
LEMMA MovesAside ==
    ASSUME IInv, GrantedOnce, NEW w \in Processes,
           \/ Done(w) \/ (\E pc \in Aside : Goto(w, pc)) \/ job' = [job EXCEPT ![w] = Idle]
           \/ \E j : Begin(w, j) /\ j.pc \in Aside
           \/ \E i : job' = [job EXCEPT ![w].pc = "post", ![w].i = i]
    PROVE  \A v \in Processes : job'[v] = job[v] \/ Grants(v)'
<1>1. job \in [Processes -> Jobs] /\ job[w] \in Jobs
  BY DEF IInv, Typed
<1>2. \A v \in Processes : v # w => job'[v] = job[v]
  BY <1>1 DEF Done, Goto, Begin
<1>3. "post" \in Aside /\ "idle" \in Aside /\ "tests" \in Aside
  BY DEF Aside, Labels, Applying, Granting
<1>4. job'[w].pc \in Aside
  <2>1. CASE Done(w) \/ job' = [job EXCEPT ![w] = Idle]
    <3>1. PICK tests : tests = [Idle EXCEPT !.pc = "tests", !.date = now]
      OBVIOUS
    <3>2. Idle.pc = "idle" /\ tests.pc = "tests"
      BY <3>1 DEF Idle
    <3>3. job'[w].pc \in {"idle", "tests"}
      BY <1>1, <2>1, <3>1, <3>2 DEF Done
    <3> QED
      BY <1>3, <3>3
  <2>2. CASE \E pc \in Aside : Goto(w, pc)
    BY <1>1, <2>2 DEF Goto, Jobs
  <2>3. CASE \E j : Begin(w, j) /\ j.pc \in Aside
    BY <1>1, <2>3 DEF Begin
  <2>4. CASE \E i : job' = [job EXCEPT ![w].pc = "post", ![w].i = i]
    BY <1>1, <1>3, <2>4 DEF Jobs
  <2> QED
    BY <2>1, <2>2, <2>3, <2>4
<1>5. Grants(w)'
  BY <1>4, ElsewhereGrants DEF Aside
<1> QED
  BY <1>2, <1>5

\* ... while the invoices stay as they are.
LEMMA InvoicesStay ==
    ASSUME IInv, GrantedOnce, UNCHANGED <<inv, granted>>,
           \A i \in Approved : charge'[i] = charge[i],
           \A v \in Processes : job'[v] = job[v] \/ Grants(v)'
    PROVE  GrantedOnce'
<1>1. Approved' = Approved /\ \A i \in Invoice : ~Card(i)'
  BY DEF Approved, GrantedOnce, OncePaid, Card
<1>2. \A i \in Approved : charge'[i] = "approved" /\ inv'[i].pay = PixPay(i)
  BY DEF GrantedOnce, OncePaid
<1> QED
  BY <1>1, <1>2, NothingGranted

\* What no subscription of a card ever starts.
LEMMA NoCardSteps ==
    ASSUME IInv, GrantedOnce, ByPix, NEW w \in Processes
    PROVE  /\ ~Checkout(w) /\ ~SubscribeCard(w) /\ ~CancelAndCreate(w) /\ ~PostPreapproval(w)
           /\ ~Link(w) /\ ~ApplyRecurring(w) /\ ~ReadPreapproval(w) /\ ~Adopt(w)
<1>1. ~Checkout(w) /\ ~SubscribeCard(w)
  BY DEF ByPix
<1>2. job[w].pc \notin {"create", "subscribe", "link", "recurring", "preapproval", "adopt"}
  BY DEF IInv, Fits, GrantedOnce, Grants, OncePaid, Card
<1> QED
  BY <1>1, <1>2 DEF CancelAndCreate, PostPreapproval, Link, ApplyRecurring, ReadPreapproval, Adopt

LEMMA RequestGrantsNothing ==
    ASSUME IInv, GrantedOnce, ByPix, NEW w \in Processes, Request(w)
    PROVE  GrantedOnce'
<1>1. PICK j : /\ Begin(w, j)
               /\ j.pc \in {"method", "emit", "cancelled", "free", "viewfree", "viewpast"}
  <2>1. ASSUME NEW j, Begin(w, j),
               j.pc \in {"method", "emit", "cancelled", "free", "viewfree", "viewpast"}
        PROVE  \E k : /\ Begin(w, k)
                      /\ k.pc \in {"method", "emit", "cancelled", "free", "viewfree", "viewpast"}
    BY <2>1
  <2>2. CASE SubscribeWithPix(w)
    <3>1. PICK j : j = [Idle EXCEPT !.pc = "method", !.op = "subscribe"]
      OBVIOUS
    <3> QED
      BY <2>1, <2>2, <3>1 DEF SubscribeWithPix, Idle
  <2>3. CASE GeneratePix(w)
    <3>1. PICK j : j = [Idle EXCEPT !.pc = "emit"]
      OBVIOUS
    <3> QED
      BY <2>1, <2>3, <3>1 DEF GeneratePix, Idle
  <2>4. CASE CancelSubscription(w)
    <3>1. PICK j : j = [Idle EXCEPT !.pc = "cancelled", !.i = store.pre]
      OBVIOUS
    <3> QED
      BY <2>1, <2>4, <3>1 DEF CancelSubscription, Idle
  <2>5. CASE ChooseFree(w)
    <3>1. PICK j : j = [Idle EXCEPT !.pc = "free", !.paid = (store.pre # 0 /\ store.sub # "cancelled")]
      OBVIOUS
    <3>2. Begin(w, j)
      BY <2>5, <3>1, Zenon DEF ChooseFree
    <3> QED
      BY <2>1, <3>1, <3>2 DEF Idle
  <2>6. CASE ViewPlan(w)
    <3>1. PICK pc \in {"viewfree", "viewpast"} : Begin(w, [Idle EXCEPT !.pc = pc])
      BY <2>6 DEF ViewPlan
    <3>2. PICK j : j = [Idle EXCEPT !.pc = pc]
      OBVIOUS
    <3> QED
      BY <2>1, <3>1, <3>2 DEF Idle
  <2> QED
    BY <2>2, <2>3, <2>4, <2>5, <2>6, NoCardSteps DEF Request
<1>2. UNCHANGED <<inv, granted, charge>>
  BY NoCardSteps DEF Request, SubscribeWithPix, GeneratePix, CancelSubscription, ChooseFree,
                     ViewPlan, rows, gateway
<1>3. j.pc \in Aside
  BY <1>1 DEF Aside, Labels, Applying, Granting
<1>4. \A v \in Processes : job'[v] = job[v] \/ Grants(v)'
  BY <1>1, <1>3, MovesAside
<1> QED
  BY <1>2, <1>4, InvoicesStay

\* A step that writes one invoice, which it does not approve.
LEMMA InvoiceNotApproved ==
    ASSUME IInv, GrantedOnce, NEW i \in Invoice, NEW row, inv' = [inv EXCEPT ![i] = row],
           UNCHANGED <<granted, charge>>, row.status = "absent" \/ row.method = "PIX",
           row.status = "APPROVED" <=> i \in Approved, i \in Approved => row.pay = PixPay(i),
           \A v \in Processes : job'[v] = job[v] \/ Grants(v)'
    PROVE  GrantedOnce'
<1>1. inv'[i] = row /\ \A k \in Invoice : k # i => inv'[k] = inv[k]
  BY DEF IInv, Typed
<1>2. Approved' = Approved
  BY <1>1 DEF Approved
<1>3. \A k \in Invoice : ~Card(k)'
  BY <1>1 DEF GrantedOnce, OncePaid, Card
<1>4. \A k \in Approved : charge'[k] = "approved" /\ inv'[k].pay = PixPay(k)
  BY <1>1 DEF GrantedOnce, OncePaid, Approved
<1> QED
  BY <1>2, <1>3, <1>4, NothingGranted

LEMMA EmitGrantsNothing ==
    ASSUME IInv, GrantedOnce, NEW w \in Processes, Emit(w)
    PROVE  GrantedOnce'
<1>0. {"lock", "saveqr", "drop"} \subseteq Aside
  BY DEF Aside, Labels, Applying, Granting
<1>1. \A v \in Processes : job'[v] = job[v] \/ Grants(v)'
  BY <1>0, MovesAside
     DEF Emit, ReadStore, LockAndCreate, CreateInvoice, PostPix, SaveQr, DropInvoice
<1>2. CASE ReadStore(w)
  BY <1>1, <1>2, InvoicesStay DEF ReadStore, rows, gateway
<1>3. CASE LockAndCreate(w)
  <2>1. CASE UNCHANGED inv
    BY <1>1, <1>3, <2>1, InvoicesStay DEF LockAndCreate, gateway
  <2>2. CASE CreateInvoice(w, "PIX", "post")
    <3>1. PICK row : row = [NoInvoice EXCEPT !.status = "PENDING", !.method = "PIX",
                                             !.expires = now + Validity]
      OBVIOUS
    <3>2. row.status = "PENDING" /\ row.method = "PIX"
      BY <3>1 DEF NoInvoice
    <3>3. inv' = [inv EXCEPT ![Made + 1] = row]
      BY <2>2, <3>1 DEF CreateInvoice
    <3>4. Made + 1 \in Invoice
      BY <1>3, RoomToMake DEF LockAndCreate, Making
    <3>5. Made + 1 \notin Approved
      BY <3>4 DEF Approved, IInv, Counted
    <3> QED
      BY <1>1, <1>3, <3>2, <3>3, <3>4, <3>5, InvoiceNotApproved DEF LockAndCreate, gateway
  <2> QED
    BY <1>3, <2>1, <2>2 DEF LockAndCreate
<1>4. CASE PostPix(w)
  <2>1. job[w].i \in Invoice /\ charge[job[w].i] = "none"
    BY <1>4 DEF PostPix, IInv, Fits, PixOf
  <2>2. \A i \in Approved : i # job[w].i
    BY <2>1 DEF GrantedOnce, OncePaid
  <2>3. \A i \in Approved : charge'[i] = charge[i]
    BY <1>4, <2>1, <2>2 DEF PostPix, Approved, IInv, Typed
  <2> QED
    BY <1>1, <1>4, <2>3, InvoicesStay DEF PostPix, rows
<1>5. CASE SaveQr(w)
  <2>1. PICK i : i = job[w].i
    OBVIOUS
  <2>2. i \in Invoice /\ inv[i] \in InvoiceRow /\ inv[i].method = "PIX"
    BY <1>5, <2>1 DEF SaveQr, IInv, Typed, Fits, AsSeen, PixOf, Pix
  <2>3. PICK row : row = [inv[i] EXCEPT !.pay = PixPay(i), !.qr = TRUE]
    OBVIOUS
  <2>4. row.status = inv[i].status /\ row.method = "PIX" /\ row.pay = PixPay(i)
    BY <2>2, <2>3 DEF InvoiceRow
  <2>5. inv' = [inv EXCEPT ![i] = row]
    BY <1>5, <2>1, <2>2, <2>3 DEF SaveQr, IInv, Typed
  <2>6. row.status = "APPROVED" <=> i \in Approved
    BY <2>2, <2>4 DEF Approved
  <2> QED
    BY <1>1, <1>5, <2>2, <2>4, <2>5, <2>6, InvoiceNotApproved DEF SaveQr, gateway
<1>6. CASE DropInvoice(w)
  <2>1. PICK i : i = job[w].i
    OBVIOUS
  <2>2. i \in Invoice /\ inv[i] \in InvoiceRow /\ inv[i].method = "PIX" /\ charge[i] = "none"
    BY <1>6, <2>1 DEF DropInvoice, IInv, Typed, Fits, PixOf, Pix
  <2>3. PICK row : row = [inv[i] EXCEPT !.status = "deleted"]
    OBVIOUS
  <2>4. row.status = "deleted" /\ row.method = "PIX"
    BY <2>2, <2>3 DEF InvoiceRow
  <2>5. inv' = [inv EXCEPT ![i] = row]
    BY <1>6, <2>1, <2>2, <2>3 DEF DropInvoice, IInv, Typed
  <2>6. i \notin Approved
    BY <2>2 DEF GrantedOnce, OncePaid
  <2> QED
    BY <1>1, <1>6, <2>2, <2>4, <2>5, <2>6, InvoiceNotApproved DEF DropInvoice, gateway
<1> QED
  BY <1>2, <1>3, <1>4, <1>5, <1>6 DEF Emit

LEMMA CronGrantsNothing ==
    ASSUME IInv, GrantedOnce, CronStep
    PROVE  GrantedOnce'
<1>0. Cron \in Processes
  BY DEF Processes
<1>1. CASE Emit(Cron)
  BY <1>0, <1>1, EmitGrantsNothing
<1>2. CASE ~Emit(Cron)
  <2>1. {"emit", "freetest", "pastdue", "late", "freelate", "end"} \subseteq Aside
    BY DEF Aside, Labels, Applying, Granting
  <2>2. \/ Done(Cron) \/ (\E pc \in Aside : Goto(Cron, pc)) \/ job' = [job EXCEPT ![Cron] = Idle]
    BY <1>2, <2>1 DEF CronStep, CronCharges, CronEndsTrials, CronMoves, CronFrees,
                      CronMarksPastDue, CronFindsLate, CronSuspends, CronEnds
  <2>3. \A v \in Processes : job'[v] = job[v] \/ Grants(v)'
    BY <1>0, <2>2, MovesAside
  <2>4. UNCHANGED <<inv, granted, charge>>
    BY <1>2 DEF CronStep, CronCharges, CronEndsTrials, CronMoves, CronFrees, CronMarksPastDue,
                CronFindsLate, CronSuspends, CronEnds, rows, gateway
  <2> QED
    BY <2>3, <2>4, InvoicesStay
<1> QED
  BY <1>1, <1>2

LEMMA GatewayGrantsNothing ==
    ASSUME IInv, GrantedOnce, MercadoPago
    PROVE  GrantedOnce'
<1>1. UNCHANGED <<inv, granted, job>>
  BY DEF MercadoPago, PayPix, ExpirePix, ChangePreapproval, ChargeCard, rows
<1>2. \A i \in Approved : charge'[i] = charge[i]
  <2>1. CASE UNCHANGED charge
    BY <2>1
  <2>2. CASE \E i \in Invoice : PayPix(i) \/ ExpirePix(i)
    <3>1. PICK i \in Invoice : charge[i] = "pending" /\ \E s : charge' = [charge EXCEPT ![i] = s]
      BY <2>2 DEF PayPix, ExpirePix, Payable
    <3>2. i \notin Approved
      BY <3>1 DEF GrantedOnce, OncePaid
    <3> QED
      BY <3>1, <3>2 DEF Approved, IInv, Typed
  <2> QED
    BY <2>1, <2>2 DEF MercadoPago, ChangePreapproval, ChargeCard
<1> QED
  BY <1>1, <1>2, InvoicesStay

\* A notice is of a charge as it stands: an approved one, if its invoice is.
LEMMA NoticeGrantsNothing ==
    ASSUME IInv, GrantedOnce, NEW w \in Hooks, Notify(w)
    PROVE  GrantedOnce'
<1>0. w \in Processes
  BY DEF Processes, Workers
<1>1. PICK i \in Invoice : NotifyPix(w, i)
  <2>1. ASSUME NEW i \in Invoice
        PROVE  pre[i].status = "none" /\ ~(pre[i].charges > 0) /\ ~(Exists(i) /\ inv[i].pre # 0)
    BY DEF IInv, Kinds, GrantedOnce, OncePaid
  <2>2. \A i \in Invoice : pre[i].charges \in Nat
    BY DEF IInv, Typed, PreRow
  <2>3. \A i \in Invoice : \A n \in 1..MaxCharges : ~(n <= pre[i].charges)
    BY <2>1, <2>2, ConstantsTyped DEF BillingAssumption
  <2> QED
    BY <2>1, <2>3 DEF Notify, NotifyPreapproval, SyncInvoice, NotifyCharge
<1>2. PICK j : j = [Idle EXCEPT !.pc = "payment", !.i = i, !.pay = PixPay(i), !.seen = charge[i]]
  OBVIOUS
<1>3. j.pc = "payment" /\ j.i = i /\ j.pay = PixPay(i) /\ j.seen = charge[i]
  BY <1>2 DEF Idle
<1>4. job' = [job EXCEPT ![w] = j] /\ UNCHANGED <<inv, granted, charge>>
  BY <1>1, <1>2 DEF NotifyPix, Begin, rows, gateway
<1>5. job'[w] = j /\ \A v \in Processes : v # w => job'[v] = job[v]
  BY <1>0, <1>4 DEF IInv, Typed
<1>6. i \in Approved' => charge[i] = "approved"
  BY <1>4 DEF Approved, GrantedOnce, OncePaid
<1>7. Grants(w)'
  BY <1>3, <1>5, <1>6 DEF Grants, Applying, Granting
<1> QED
  BY <1>4, <1>5, <1>7, InvoicesStay

LEMMA ApplyPaymentGrantsNothing ==
    ASSUME IInv, GrantedOnce, NEW w \in Processes, ApplyPayment(w)
    PROVE  GrantedOnce'
<1>1. PICK old, i : old = job[w] /\ i = old.i
  OBVIOUS
<1>2. /\ old \in Jobs /\ old.pc = "payment" /\ old.pay = PixPay(i) /\ w \in Hooks
      /\ old.seen # "approved" => i \notin Approved
  BY <1>1 DEF ApplyPayment, IInv, Typed, GrantedOnce, Grants, Applying
<1>3. i \in Invoice /\ inv[i] \in InvoiceRow /\ inv[i].method = "PIX"
  <2>1. Card(i) \/ AsSeen(i, old.seen)
    BY <1>1, <1>2 DEF IInv, Fits
  <2>2. ~Card(i)
    BY DEF GrantedOnce, OncePaid, Card
  <2> QED
    BY <2>1, <2>2 DEF AsSeen, PixOf, Pix, IInv, Typed
<1>4. UNCHANGED <<granted, charge>>
  BY DEF ApplyPayment, gateway
<1>5. Done(w) => \A v \in Processes : job'[v] = job[v] \/ Grants(v)'
  BY MovesAside
<1>6. CASE Done(w) /\ UNCHANGED inv
  BY <1>4, <1>5, <1>6, InvoicesStay
<1>7. CASE /\ old.seen # "approved" /\ Done(w)
           /\ inv' = [inv EXCEPT ![i].status = IF old.seen = "cancelled" THEN "REJECTED" ELSE "PENDING",
                                 ![i].pay = old.pay]
  <2>1. PICK row : row = [inv[i] EXCEPT !.pay = old.pay,
                            !.status = IF old.seen = "cancelled" THEN "REJECTED" ELSE "PENDING"]
    OBVIOUS
  <2>2. row.method = "PIX" /\ row.status \in {"REJECTED", "PENDING"}
    BY <1>3, <2>1 DEF InvoiceRow
  <2>3. inv' = [inv EXCEPT ![i] = row]
    BY <1>3, <1>7, <2>1 DEF IInv, Typed, InvoiceRow
  <2> QED
    BY <1>2, <1>3, <1>4, <1>5, <1>7, <2>2, <2>3, InvoiceNotApproved
<1>8. CASE /\ old.seen = "approved" /\ UNCHANGED inv
           /\ inv[i].status # "APPROVED" \/ inv[i].pay # old.pay
           /\ job' = [job EXCEPT ![w].pc = "load", ![w].paid = TRUE]
  <2>1. PICK j : j = [old EXCEPT !.pc = "load", !.paid = TRUE]
    OBVIOUS
  <2>2. j.pc = "load" /\ j.i = i /\ j.paid /\ j.pay = PixPay(i)
    BY <1>1, <1>2, <2>1 DEF Jobs
  <2>3. job'[w] = j /\ \A v \in Processes : v # w => job'[v] = job[v]
    BY <1>1, <1>8, <2>1 DEF IInv, Typed
  <2>4. i \notin Approved'
    BY <1>2, <1>8 DEF Approved, GrantedOnce, OncePaid
  <2>5. Grants(w)'
    BY <1>2, <2>2, <2>3, <2>4 DEF Grants, Applying, Granting
  <2> QED
    BY <1>4, <1>8, <2>3, <2>5, InvoicesStay
<1> QED
  BY <1>1, <1>6, <1>7, <1>8 DEF ApplyPayment

LEMMA ReadingGrantsNothing ==
    ASSUME IInv, GrantedOnce, NEW w \in Processes, LoadInvoice(w) \/ ReadDue(w)
    PROVE  GrantedOnce'
<1>1. PICK old, i : old = job[w] /\ i = old.i
  OBVIOUS
<1>2. job[w].pc \in {"load", "grant"} /\ UNCHANGED <<inv, granted, charge>>
  BY DEF LoadInvoice, ReadDue, rows, gateway
<1>3. /\ old \in Jobs /\ i \in Invoice /\ i \notin Approved /\ old.paid /\ w \in Hooks
      /\ old.pay = PixPay(i) /\ (old.pc = "grant" => old.had # "APPROVED")
  BY <1>1, <1>2, GrantHolds DEF GrantedOnce, Grants, Applying, Granting
<1>4. CASE Done(w)
  BY <1>2, <1>4, MovesAside, InvoicesStay
<1>5. ASSUME NEW j, job' = [job EXCEPT ![w] = j], j.pc \in {"grant", "commit"}, j.i = i, j.paid,
             j.pay = PixPay(i), j.had # "APPROVED"
      PROVE  GrantedOnce'
  <2>1. job'[w] = j /\ \A v \in Processes : v # w => job'[v] = job[v]
    BY <1>5 DEF IInv, Typed
  <2>2. i \notin Approved'
    BY <1>2, <1>3 DEF Approved
  <2>3. Grants(w)'
    BY <1>3, <1>5, <2>1, <2>2 DEF Grants, Applying, Granting
  <2> QED
    BY <1>2, <2>1, <2>3, InvoicesStay
<1>6. CASE job' = [job EXCEPT ![w].pc = "grant", ![w].had = inv[i].status]
  <2>1. PICK j : j = [old EXCEPT !.pc = "grant", !.had = inv[i].status]
    OBVIOUS
  <2>2. j.pc = "grant" /\ j.i = i /\ j.paid /\ j.pay = PixPay(i) /\ j.had # "APPROVED"
    BY <1>1, <1>3, <2>1 DEF Jobs, Approved
  <2>3. job' = [job EXCEPT ![w] = j]
    BY <1>1, <1>6, <2>1 DEF IInv, Typed
  <2> QED
    BY <1>5, <2>2, <2>3
<1>7. CASE job[w].pc = "grant" /\ job' = [job EXCEPT ![w].pc = "commit", ![w].date = NextDue(store.due)]
  <2>1. PICK j : j = [old EXCEPT !.pc = "commit", !.date = NextDue(store.due)]
    OBVIOUS
  <2>2. j.pc = "commit" /\ j.i = i /\ j.paid /\ j.pay = PixPay(i) /\ j.had # "APPROVED"
    BY <1>1, <1>3, <1>7, <2>1 DEF Jobs
  <2>3. job' = [job EXCEPT ![w] = j]
    BY <1>1, <1>7, <2>1 DEF IInv, Typed
  <2> QED
    BY <1>5, <2>2, <2>3
<1> QED
  BY <1>1, <1>4, <1>6, <1>7 DEF LoadInvoice, ReadDue

\* The commit approves one invoice and adds one period.
LEMMA CommitGrantsOne ==
    ASSUME IInv, GrantedOnce, NoTwin, NEW w \in Processes, CommitGrant(w)
    PROVE  GrantedOnce'
<1>1. PICK old, i : old = job[w] /\ i = old.i
  OBVIOUS
<1>2. job[w].pc = "commit" /\ UNCHANGED charge /\ granted' = granted + 1 /\ Done(w)
  BY DEF CommitGrant, gateway
<1>3. /\ old \in Jobs /\ i \in Invoice /\ i \notin Approved /\ w \in Hooks
      /\ old.paid /\ old.had # "APPROVED" /\ old.pay = PixPay(i) /\ Settled(i)
  BY <1>1, <1>2, GrantHolds DEF GrantedOnce, OncePaid, Grants, Applying, Granting
<1>4. inv[i] \in InvoiceRow /\ old.pay # NoPay
  BY <1>3 DEF IInv, Typed, PixPay, NoPay
<1>5. PICK row : row = [inv[i] EXCEPT !.pay = old.pay, !.status = "APPROVED"]
  OBVIOUS
<1>6. row.method = "PIX" /\ row.status = "APPROVED" /\ row.pay = PixPay(i)
  BY <1>3, <1>4, <1>5 DEF InvoiceRow, Settled, PixOf, Pix
<1>7. inv' = [inv EXCEPT ![i] = row]
  <2>1. inv' = [inv EXCEPT ![i] =
                  [inv[i] EXCEPT !.pay = IF old.pay # NoPay THEN old.pay ELSE inv[i].pay,
                                 !.status = IF MarksPaid(old) THEN "APPROVED" ELSE inv[i].status]]
    BY <1>1, Zenon DEF CommitGrant
  <2>2. MarksPaid(old)
    BY <1>3 DEF MarksPaid
  <2> QED
    BY <1>4, <1>5, <2>1, <2>2
<1>8. inv'[i] = row /\ \A k \in Invoice : k # i => inv'[k] = inv[k]
  BY <1>3, <1>7 DEF IInv, Typed
<1>9. Approved' = Approved \cup {i}
  BY <1>3, <1>6, <1>8 DEF Approved
<1>10. OncePaid'
  <2>1. IsFiniteSet(Approved)
    <3>1. IsFiniteSet(Invoice)
      BY ConstantsTyped, FS_Interval DEF Invoice
    <3> QED
      BY <3>1, FS_Subset DEF Approved
  <2>2. Cardinality(Approved') = Cardinality(Approved) + 1
    BY <1>3, <1>9, <2>1, FS_AddElement
  <2>3. \A k \in Invoice : ~Card(k)'
    BY <1>6, <1>8 DEF GrantedOnce, OncePaid, Card
  <2>4. \A k \in Approved' : charge'[k] = "approved" /\ inv'[k].pay = PixPay(k)
    BY <1>2, <1>3, <1>6, <1>8, <1>9 DEF GrantedOnce, OncePaid, Settled, Approved
  <2> QED
    BY <1>2, <2>2, <2>3, <2>4 DEF GrantedOnce, OncePaid
<1>11. ASSUME NEW v \in Processes PROVE Grants(v)'
  <2>1. job'[v] = job[v] \/ Grants(v)'
    BY <1>2, MovesAside
  <2>2. CASE v = w
    <3>1. PICK j \in Jobs : job' = [job EXCEPT ![w] = j] /\ j.pc \in {"idle", "tests"}
      BY <1>2, DoneEnds DEF IInv
    <3>2. job'[w].pc \in {"idle", "tests"}
      BY <3>1 DEF IInv, Typed
    <3> QED
      BY <2>2, <3>2, ElsewhereGrants DEF Applying, Granting
  <2>3. CASE v # w /\ job'[v] = job[v]
    <3>1. Grants(v)
      BY DEF GrantedOnce
    <3>2. CASE job[v].i # i
      <4>1. job[v].i \in Approved' => job[v].i \in Approved
        BY <1>9, <3>2
      <4> QED
        BY <2>3, <3>1, <4>1 DEF Grants
    <3>3. CASE job[v].i = i
      <4>1. /\ job[v].pc \notin Granting
            /\ ~(job[v].pc = "payment" /\ job[v].seen # "approved")
        BY <1>1, <2>3, <3>3 DEF NoTwin
      <4> QED
        BY <2>3, <3>1, <4>1 DEF Grants, Granting
    <3> QED
      BY <3>2, <3>3
  <2> QED
    BY <2>1, <2>2, <2>3
<1> QED
  BY <1>10, <1>11 DEF GrantedOnce

LEMMA GrantedOnceKept ==
    ASSUME IInv, GrantedOnce, [Next]_vars, [ByPix]_vars, [NoTwin]_vars
    PROVE  GrantedOnce'
<1>s. CASE UNCHANGED vars
  BY <1>s, InvoicesStay DEF vars
<1> SUFFICES ASSUME Next, ByPix, NoTwin PROVE GrantedOnce'
  BY <1>s
<1>0. Desks \subseteq Processes /\ Workers \subseteq Processes
  BY DEF Processes, Workers
<1>1. CASE NextDay
  BY <1>1, InvoicesStay DEF NextDay, rows, gateway
<1>2. CASE MercadoPago
  BY <1>2, GatewayGrantsNothing
<1>3. CASE CronStep
  BY <1>3, CronGrantsNothing
<1>4. CASE \E w \in Desks : Request(w)
  BY <1>0, <1>4, RequestGrantsNothing
<1>5. CASE \E w \in Hooks : Notify(w)
  BY <1>5, NoticeGrantsNothing
<1>6. CASE \E w \in Workers : Work(w)
  <2>1. PICK w \in Processes : Work(w)
    BY <1>0, <1>6
  <2>2. CASE SetMethod(w) \/ SaveCancelled(w) \/ SaveFree(w) \/ ViewFrees(w)
             \/ ViewMarksPastDue(w) \/ Demote(w)
    <3>1. "emit" \in Aside
      BY DEF Aside, Labels, Applying, Granting
    <3>2. \A v \in Processes : job'[v] = job[v] \/ Grants(v)'
      BY <2>2, <3>1, MovesAside DEF SetMethod, SaveCancelled, SaveFree, ViewFrees,
                                    ViewMarksPastDue, Demote
    <3> QED
      BY <2>2, <3>2, InvoicesStay DEF SetMethod, SaveCancelled, SaveFree, ViewFrees,
                                      ViewMarksPastDue, Demote, gateway
  <2> QED
    BY <2>1, <2>2, NoCardSteps, EmitGrantsNothing, ApplyPaymentGrantsNothing,
       ReadingGrantsNothing, CommitGrantsOne DEF Work
<1>7. CASE \E w \in Processes : Crash(w)
  BY <1>7, MovesAside, InvoicesStay DEF Crash, rows, gateway
<1> QED
  BY <1>1, <1>2, <1>3, <1>4, <1>5, <1>6, <1>7 DEF Next

LEMMA GrantedOnceAtFirst == Init => GrantedOnce
<1> SUFFICES ASSUME Init PROVE GrantedOnce
  OBVIOUS
<1>1. Approved = {} /\ \A i \in Invoice : ~Card(i)
  BY DEF Init, NoInvoice, Approved, Card
<1>2. \A w \in Processes : job[w].pc = "idle"
  BY DEF Init, Idle
<1> QED
  BY <1>1, <1>2, FS_EmptySet DEF Init, GrantedOnce, OncePaid, Grants, Applying, Granting

\* No period is given away to a merchant who pays by Pix: however many notices
\* are handled at once, late, repeated, lost or broken off, they add at most one
\* period per payment, unless two of one payment overlap from check to grant.
THEOREM NoPeriodGivenAway ==
    Spec /\ [][ByPix]_vars /\ [][NoTwin]_vars => []GrantedWithinPaid
<1>1. IInv /\ GrantedOnce => GrantedWithinPaid
  <2> SUFFICES ASSUME IInv, GrantedOnce PROVE GrantedWithinPaid
    OBVIOUS
  <2>1. IsFiniteSet(Invoice)
    BY ConstantsTyped, FS_Interval DEF Invoice
  <2>2. IsFiniteSet(PixPaid) /\ IsFiniteSet(Approved) /\ Approved \subseteq PixPaid
    BY <2>1, FS_Subset DEF PixPaid, Approved, GrantedOnce, OncePaid
  <2>3. Cardinality(Approved) <= Cardinality(PixPaid)
    BY <2>2, FS_Subset
  <2>4. CardPaid = {}
    BY DEF CardPaid, IInv, Kinds, GrantedOnce, OncePaid
  <2>5. Cardinality(PixPaid) \in Nat /\ Cardinality(Approved) \in Nat /\ Cardinality(CardPaid) = 0
    BY <2>2, <2>4, FS_CardinalityType, FS_EmptySet
  <2> QED
    BY <2>3, <2>5 DEF GrantedWithinPaid, Paid, GrantedOnce, OncePaid
<1>2. IInv /\ GrantedOnce /\ [Next]_vars /\ [ByPix]_vars /\ [NoTwin]_vars => GrantedOnce'
  BY GrantedOnceKept
<1> QED
  BY <1>1, <1>2, GrantedOnceAtFirst, InvariantHolds, PTL DEF Spec
-----------------------------------------------------------------------------
(* Arrears.  Whoever is about to put the store in arrears has read a row   *)
(* whose period was over; what is left is that nobody pays in between.     *)

LEMMA IdleInTime == Idle.date = 0 /\ Idle.pc = "idle"
  BY DEF Idle

\* The process is about to put the store in arrears.
Condemns(j) == j.pc = "viewpast" \/ (j.pc = "demote" /\ j.seen = "cancelled" /\ j.date = 0)
Grounded ==
    /\ \A w \in Workers : Condemns(job[w]) => store.due <= now
    /\ job[Cron].date <= now

\* What a statement of w leaves in its hands: it judges arrears, and the next
\* due date, by the row as it is, and only these four change that date.
Judged(w) ==
    /\ job'[w].pc \in {"viewpast", "viewfree"} => store.due <= now
    /\ job'[w].pc = "free" => "free" \in Ops
    /\ job'[w].pc = "demote" /\ job'[w].date = 0 => store.due <= now
    /\ job'[w].pc = "commit" => job'[w].date > now
    /\ job'[w].pc = "subscribe" => job'[w].i # store.pre /\ UNCHANGED store
    /\ job'[w].pc = "link" => job[w].pc = "subscribe" /\ job'[w].i = job[w].i /\ UNCHANGED store
    /\ job'[w].pc = "adopt" /\ job'[w].seen = "pending" =>
         store.sub # "authorized" /\ UNCHANGED store
    /\ job'[w].pc = "demote" => job'[w].seen \notin {"pending", "authorized"}
Moves(w) ==
    /\ \A v \in Processes \ {w} : job'[v] = job[v]
    /\ now' = now
    /\ \/ store'.due = store.due
       \/ store'.due = 0 /\ (SaveFree(w) \/ ViewFrees(w))
       \/ store'.due = job[w].date /\ CommitGrant(w) /\ job'[w] = Idle

\* A handler that ends, or goes on to a statement that judges nothing.
Plain == Labels \ {"viewpast", "viewfree", "free", "demote", "commit", "subscribe", "link", "adopt"}
Plainly(w) == (\A v \in Processes \ {w} : job'[v] = job[v]) /\ Judged(w)

LEMMA PlainJob ==
    ASSUME IInv, NEW w \in Workers, NEW j, job' = [job EXCEPT ![w] = j], j.pc \in Plain
    PROVE  Plainly(w)
<1>1. job'[w] = j /\ \A v \in Processes \ {w} : job'[v] = job[v]
  BY DEF IInv, Typed, Processes
<1> QED
  BY <1>1 DEF Plainly, Judged, Plain

LEMMA PlainEnd ==
    ASSUME IInv, NEW w \in Workers, Done(w)
    PROVE  Plainly(w)
<1>1. job' = [job EXCEPT ![w] = Idle]
  BY ConstantsTyped DEF Done
<1>2. Idle.pc \in Plain
  BY DEF Idle, Plain, Labels
<1> QED
  BY <1>1, <1>2, PlainJob

LEMMA PlainGoto ==
    ASSUME IInv, NEW w \in Workers, NEW pc \in Plain, Goto(w, pc)
    PROVE  Plainly(w)
<1>1. PICK j : j = [job[w] EXCEPT !.pc = pc]
  OBVIOUS
<1>2. job' = [job EXCEPT ![w] = j] /\ job[w] \in Jobs
  BY <1>1 DEF Goto, IInv, Typed, Processes
<1>3. j.pc = pc
  BY <1>1, <1>2, Zenon DEF Jobs
<1> QED
  BY <1>2, <1>3, PlainJob

LEMMA PlainWithInvoice ==
    ASSUME IInv, NEW w \in Workers, NEW pc \in Plain, NEW i,
           job' = [job EXCEPT ![w].pc = pc, ![w].i = i]
    PROVE  Plainly(w)
<1>1. PICK j : j = [job[w] EXCEPT !.pc = pc, !.i = i]
  OBVIOUS
<1>2. job' = [job EXCEPT ![w] = j] /\ job[w] \in Jobs
  BY <1>1 DEF IInv, Typed, Processes
<1>3. j.pc = pc
  BY <1>1, <1>2, Zenon DEF Jobs
<1> QED
  BY <1>2, <1>3, PlainJob

LEMMA PlainWithPaid ==
    ASSUME IInv, NEW w \in Workers, NEW pc \in Plain, NEW paid,
           job' = [job EXCEPT ![w].pc = pc, ![w].paid = paid]
    PROVE  Plainly(w)
<1>1. PICK j : j = [job[w] EXCEPT !.pc = pc, !.paid = paid]
  OBVIOUS
<1>2. job' = [job EXCEPT ![w] = j] /\ job[w] \in Jobs
  BY <1>1 DEF IInv, Typed, Processes
<1>3. j.pc = pc
  BY <1>1, <1>2, Zenon DEF Jobs
<1> QED
  BY <1>2, <1>3, PlainJob

LEMMA PlainWithPaidInvoice ==
    ASSUME IInv, NEW w \in Workers, NEW pc \in Plain, NEW paid, NEW i,
           job' = [job EXCEPT ![w].pc = pc, ![w].paid = paid, ![w].i = i]
    PROVE  Plainly(w)
<1>1. PICK j : j = [job[w] EXCEPT !.pc = pc, !.paid = paid, !.i = i]
  OBVIOUS
<1>2. job' = [job EXCEPT ![w] = j] /\ job[w] \in Jobs
  BY <1>1 DEF IInv, Typed, Processes
<1>3. j.pc = pc
  BY <1>1, <1>2, Zenon DEF Jobs
<1> QED
  BY <1>2, <1>3, PlainJob

LEMMA PlainWithHad ==
    ASSUME IInv, NEW w \in Workers, NEW pc \in Plain, NEW had,
           job' = [job EXCEPT ![w].pc = pc, ![w].had = had]
    PROVE  Plainly(w)
<1>1. PICK j : j = [job[w] EXCEPT !.pc = pc, !.had = had]
  OBVIOUS
<1>2. job' = [job EXCEPT ![w] = j] /\ job[w] \in Jobs
  BY <1>1 DEF IInv, Typed, Processes
<1>3. j.pc = pc
  BY <1>1, <1>2, Zenon DEF Jobs
<1> QED
  BY <1>2, <1>3, PlainJob

LEMMA PlainWithPay ==
    ASSUME IInv, NEW w \in Workers, NEW pc \in Plain, NEW pay,
           job' = [job EXCEPT ![w].pc = pc, ![w].pay = pay]
    PROVE  Plainly(w)
<1>1. PICK j : j = [job[w] EXCEPT !.pc = pc, !.pay = pay]
  OBVIOUS
<1>2. job' = [job EXCEPT ![w] = j] /\ job[w] \in Jobs
  BY <1>1 DEF IInv, Typed, Processes
<1>3. j.pc = pc
  BY <1>1, <1>2, Zenon DEF Jobs
<1> QED
  BY <1>2, <1>3, PlainJob

\* The free plan has no due date.
LEMMA DueEnds ==
    ASSUME IInv, NEW cancelled, store' = Free(store, cancelled)
    PROVE  store'.due = 0
<1>1. store \in StoreRow
  BY DEF IInv, Typed
<1> QED
  BY <1>1 DEF StoreRow, Free

\* Every statement of a handler.
LEMMA WorkMoves ==
    ASSUME IInv, NEW w \in Workers, Work(w)
    PROVE  Moves(w) /\ Judged(w)
<1>0. /\ w \in Processes /\ w # Cron /\ job \in [Processes -> Jobs] /\ job[w] \in Jobs
      /\ store \in StoreRow /\ now \in Nat
  BY ConstantsTyped DEF IInv, Typed, Processes
<1>p. {"emit", "lock", "post", "saveqr", "drop", "load", "grant"}
        \subseteq Plain
  BY DEF Plain, Labels
<1>d. ASSUME now' = now, Plainly(w), store'.due = store.due
      PROVE  Moves(w) /\ Judged(w)
  BY <1>d DEF Moves, Plainly
<1>e. ASSUME now' = now, Done(w), UNCHANGED store
      PROVE  Moves(w) /\ Judged(w)
  BY <1>d, <1>e, PlainEnd
<1>1. CASE \/ SetMethod(w) \/ ReadStore(w) \/ PostPix(w) \/ SaveQr(w) \/ DropInvoice(w)
           \/ SaveCancelled(w) \/ ViewMarksPastDue(w) \/ Demote(w)
  <2>1. now' = now /\ (Done(w) \/ \E pc \in Plain : Goto(w, pc))
    BY <1>1, <1>p DEF SetMethod, ReadStore, PostPix, SaveQr, DropInvoice,
                SaveCancelled, ViewMarksPastDue, Demote
  <2>2. Plainly(w)
    BY <2>1, PlainEnd, PlainGoto
  <2>3. CASE UNCHANGED store
    BY <1>d, <2>1, <2>2, <2>3
  <2>4. CASE ~UNCHANGED store
    <3>1. SetMethod(w) \/ SaveCancelled(w) \/ ViewMarksPastDue(w) \/ Demote(w)
      BY <1>1, <2>4 DEF ReadStore, PostPix, SaveQr, DropInvoice, rows
    <3>2. CASE Demote(w)
      <4>1. PICK u, s : /\ store' = [store EXCEPT !.sub = u, !.status = s]
                        /\ u = job[w].seen /\ s \in {"PAST_DUE", store.status}
        BY <3>2, Zenon DEF Demote
      <4>2. store'.due = store.due
        BY <1>0, <4>1, Zenon DEF StoreRow
      <4> QED
        BY <1>d, <2>1, <2>2, <4>2
    <3>3. CASE ~Demote(w)
      <4>1. \/ store' = [store EXCEPT !.method = "PIX"] \/ store' = [store EXCEPT !.sub = "cancelled"]
            \/ store' = [store EXCEPT !.status = "PAST_DUE"]
        BY <3>1, <3>3 DEF SetMethod, SaveCancelled, ViewMarksPastDue
      <4>2. store'.due = store.due
        BY <1>0, <4>1, Zenon DEF StoreRow
      <4> QED
        BY <1>d, <2>1, <2>2, <4>2
    <3> QED
      BY <3>2, <3>3
  <2> QED
    BY <2>3, <2>4
<1>2. CASE SaveFree(w) \/ ViewFrees(w)
  <2>1. now' = now /\ Done(w) /\ \E cancelled : store' = Free(store, cancelled)
    BY <1>2 DEF SaveFree, ViewFrees
  <2> QED
    BY <1>2, <2>1, PlainEnd, DueEnds DEF Moves, Plainly
<1>3. CASE CommitGrant(w)
  <2>1. now' = now /\ Done(w)
    BY <1>3 DEF CommitGrant
  <2>2. store'.due = job[w].date
    BY <1>0, <1>3 DEF CommitGrant, StoreRow
  <2>3. job'[w] = Idle
    BY <1>0, <2>1 DEF Done
  <2> QED
    BY <1>3, <2>1, <2>2, <2>3, PlainEnd DEF Moves, Plainly
<1>4. CASE LockAndCreate(w)
  <2>1. /\ now' = now /\ UNCHANGED store
        /\ Done(w) \/ \E pc \in Plain : \E i : job' = [job EXCEPT ![w].pc = pc, ![w].i = i]
    BY <1>4, <1>p DEF LockAndCreate, CreateInvoice
  <2>2. Plainly(w)
    BY <2>1, PlainEnd, PlainWithInvoice
  <2> QED
    BY <1>d, <2>1, <2>2
<1>11. CASE CancelAndCreate(w)
  <2>1. PICK j : j = [job[w] EXCEPT !.pc = "subscribe", !.i = Made + 1]
    OBVIOUS
  <2>2. job' = [job EXCEPT ![w] = j] /\ now' = now /\ UNCHANGED store
    BY <1>0, <1>11, <2>1 DEF CancelAndCreate, CreateInvoice
  <2>3. j.pc = "subscribe" /\ j.i = Made + 1
    BY <1>0, <2>1, Zenon DEF Jobs
  <2>4. job'[w] = j /\ \A v \in Processes \ {w} : job'[v] = job[v]
    BY <1>0, <2>2
  <2>5. store.pre # Made + 1
    <3>1. store.pre \in 0..MaxInvoices /\ MaxInvoices \in Nat /\ Made \in Nat
      BY <1>0, ConstantsTyped DEF IInv, Counted, StoreRow
    <3>2. ASSUME store.pre = Made + 1
          PROVE  FALSE
      <4>1. store.pre \in Invoice /\ inv[store.pre].status # "absent"
        BY <3>1, <3>2 DEF IInv, Kinds, Card
      <4>2. store.pre <= Made
        BY <4>1 DEF IInv, Counted
      <4> QED
        BY <3>1, <3>2, <4>2
    <3> QED
      BY <3>2
  <2>6. Judged(w)
    BY <2>2, <2>3, <2>4, <2>5 DEF Judged
  <2> QED
    BY <2>2, <2>4, <2>6 DEF Moves
<1>12. CASE PostPreapproval(w)
  <2>1. /\ now' = now /\ UNCHANGED store /\ job[w].pc = "subscribe"
        /\ Done(w) \/ Goto(w, "link")
    BY <1>12, Zenon DEF PostPreapproval
  <2>2. CASE Done(w)
    BY <1>e, <2>1, <2>2
  <2>3. CASE Goto(w, "link")
    <3>1. PICK j : j = [job[w] EXCEPT !.pc = "link"]
      OBVIOUS
    <3>2. job' = [job EXCEPT ![w] = j]
      BY <1>0, <2>3, <3>1 DEF Goto
    <3>3. j.pc = "link" /\ j.i = job[w].i
      BY <1>0, <3>1, Zenon DEF Jobs
    <3>4. job'[w] = j /\ \A v \in Processes \ {w} : job'[v] = job[v]
      BY <1>0, <3>2
    <3>5. Judged(w)
      BY <2>1, <3>3, <3>4 DEF Judged
    <3> QED
      BY <2>1, <3>4, <3>5 DEF Moves
  <2> QED
    BY <2>1, <2>2, <2>3
<1>5. CASE Link(w) \/ ApplyPayment(w)
  <2>1. /\ now' = now
        /\ Done(w) \/ \E pc \in Plain : \E paid : job' = [job EXCEPT ![w].pc = pc, ![w].paid = paid]
    BY <1>5, <1>p DEF Link, ApplyPayment
  <2>2. Plainly(w)
    BY <2>1, PlainEnd, PlainWithPaid
  <2>3. UNCHANGED store \/ \E p, u : store' = [store EXCEPT !.pre = p, !.sub = u]
    BY <1>5 DEF Link, ApplyPayment
  <2>4. store'.due = store.due
    BY <1>0, <2>3, Zenon DEF StoreRow
  <2> QED
    BY <1>d, <2>1, <2>2, <2>4
<1>6. CASE ApplyRecurring(w)
  <2>1. /\ now' = now /\ UNCHANGED store
        /\ \/ Done(w)
           \/ \E i : job' = [job EXCEPT ![w].pc = "load", ![w].paid = TRUE, ![w].i = i]
    BY <1>6, Zenon DEF ApplyRecurring
  <2>2. PICK paid, pc : paid = TRUE /\ pc = "load" /\ pc \in Plain
    BY <1>p
  <2>3. Done(w) \/ \E i : job' = [job EXCEPT ![w].pc = pc, ![w].paid = paid, ![w].i = i]
    BY ONLY <2>1, <2>2
  <2>4. Plainly(w)
    BY <2>2, <2>3, PlainEnd, PlainWithPaidInvoice, Zenon
  <2> QED
    BY <1>d, <2>1, <2>4
<1>7. CASE ReadPreapproval(w)
  <2>1. PICK pc, paid, date :
          /\ pc = IF job[w].seen \in {"cancelled", "paused"} THEN "demote" ELSE "adopt"
          /\ paid = (inv[job[w].i].status # "APPROVED")
          /\ date = IF store.due > now THEN store.due ELSE 0
    OBVIOUS
  <2>2. /\ now' = now /\ UNCHANGED store
        /\ Done(w) \/ job' = [job EXCEPT ![w].pc = pc, ![w].paid = paid, ![w].date = date]
    BY <1>7, <2>1, Zenon DEF ReadPreapproval, rows
  <2>3. CASE Done(w)
    BY <1>e, <2>2, <2>3
  <2>4. CASE job' = [job EXCEPT ![w].pc = pc, ![w].paid = paid, ![w].date = date]
    <3>1. PICK j : j = [job[w] EXCEPT !.pc = pc, !.paid = paid, !.date = date]
      OBVIOUS
    <3>2. job' = [job EXCEPT ![w] = j]
      BY <1>0, <2>4, <3>1
    <3>3. j.pc = pc /\ j.date = date /\ j.seen = job[w].seen
      BY <1>0, <3>1, Zenon DEF Jobs
    <3>4. job'[w] = j /\ \A v \in Processes \ {w} : job'[v] = job[v]
      BY <1>0, <3>2
    <3>5. pc \in {"demote", "adopt"} /\ (date = 0 => store.due <= now)
      BY <1>0, <2>1 DEF StoreRow
    <3>6. CASE pc = "demote"
      <4>1. j.seen \notin {"pending", "authorized"}
        BY <2>1, <3>3, <3>6
      <4>2. Judged(w)
        BY <3>3, <3>4, <3>5, <3>6, <4>1 DEF Judged
      <4> QED
        BY <2>2, <3>4, <4>2 DEF Moves
    <3>7. CASE pc = "adopt"
      <4>1. job[w].seen = "pending" => store.sub # "authorized"
        <5>1. job' # [job EXCEPT ![w] = Idle]
          BY <1>0, <3>3, <3>4, <3>7, IdleInTime
        <5>2. ~Done(w)
          BY <1>0, <5>1 DEF Done
        <5> QED
          BY <1>7, <5>2 DEF ReadPreapproval
      <4>2. Judged(w)
        BY <2>2, <3>3, <3>4, <3>7, <4>1 DEF Judged
      <4> QED
        BY <2>2, <3>4, <4>2 DEF Moves
    <3> QED
      BY <3>5, <3>6, <3>7
  <2> QED
    BY <2>2, <2>3, <2>4
<1>8. CASE Adopt(w)
  <2>1. PICK p, u : store' = [store EXCEPT !.pre = p, !.sub = u] /\ p = job[w].i /\ u = job[w].seen
    BY <1>8, Zenon DEF Adopt
  <2>2. store'.due = store.due
    BY <1>0, <2>1, Zenon DEF StoreRow
  <2>3. CASE Done(w)
    BY <1>d, <1>8, <2>2, <2>3, PlainEnd DEF Adopt
  <2>4. CASE ~Done(w)
    <3>1. job' = [job EXCEPT ![w].pc = "load", ![w].pay = NoPay] /\ now' = now
      BY <1>8, <2>4 DEF Adopt
    <3>2. Plainly(w)
      BY <1>p, <3>1, PlainWithPay
    <3> QED
      BY <1>d, <2>2, <3>1, <3>2
  <2> QED
    BY <2>3, <2>4
<1>9. CASE LoadInvoice(w)
  <2>1. now' = now /\ UNCHANGED store
    BY <1>9 DEF LoadInvoice, rows
  <2>2. Done(w) \/ \E pc \in Plain : \E had : job' = [job EXCEPT ![w].pc = pc, ![w].had = had]
    BY <1>9, <1>p DEF LoadInvoice
  <2>3. Plainly(w)
    BY <2>2, PlainEnd, PlainWithHad
  <2> QED
    BY <1>d, <2>1, <2>3
<1>10. CASE ReadDue(w)
  <2>1. PICK date : date = NextDue(store.due)
    OBVIOUS
  <2>2. /\ now' = now /\ UNCHANGED store
        /\ Done(w) \/ job' = [job EXCEPT ![w].pc = "commit", ![w].date = date]
    BY <1>10, <2>1 DEF ReadDue, rows
  <2>3. CASE Done(w)
    BY <1>e, <2>2, <2>3
  <2>4. CASE job' = [job EXCEPT ![w].pc = "commit", ![w].date = date]
    <3>1. PICK j : j = [job[w] EXCEPT !.pc = "commit", !.date = date]
      OBVIOUS
    <3>2. job' = [job EXCEPT ![w] = j]
      BY <1>0, <2>4, <3>1
    <3>3. j.pc = "commit" /\ j.date = date
      BY <1>0, <3>1, Zenon DEF Jobs
    <3>4. job'[w] = j /\ \A v \in Processes \ {w} : job'[v] = job[v]
      BY <1>0, <3>2
    <3>5. date > now
      BY <1>0, <2>1, BillingAssumption DEF BillingAssumption, NextDue, StoreRow
    <3>6. Judged(w)
      BY <3>3, <3>4, <3>5 DEF Judged
    <3> QED
      BY <2>2, <3>4, <3>6 DEF Moves
  <2> QED
    BY <2>2, <2>3, <2>4
<1> QED
  BY <1>1, <1>2, <1>3, <1>4, <1>5, <1>6, <1>7, <1>8, <1>9, <1>10,
     <1>11, <1>12 DEF Work, Emit

\* What starts a handler.
LEMMA RequestMoves ==
    ASSUME IInv, NEW w \in Workers, Request(w)
    PROVE  Moves(w) /\ Judged(w)
<1>1. w \in Processes /\ job \in [Processes -> Jobs] /\ now' = now /\ UNCHANGED store
  BY DEF IInv, Typed, Processes, Request, SubscribeWithPix, GeneratePix, Checkout, SubscribeCard,
         CancelSubscription, ChooseFree, ViewPlan, rows
<1>2. ASSUME NEW j, Begin(w, j),
             /\ j.pc \in {"method", "emit", "create", "cancelled", "free", "viewfree", "viewpast"}
             /\ j.pc = "free" => "free" \in Ops
             /\ j.pc \in {"viewfree", "viewpast"} => store.due <= now
      PROVE  Moves(w) /\ Judged(w)
  <2>1. job'[w] = j /\ \A v \in Processes \ {w} : job'[v] = job[v]
    BY <1>1, <1>2 DEF Begin
  <2> QED
    BY <1>1, <1>2, <2>1 DEF Moves, Judged
<1>3. CASE SubscribeWithPix(w)
  <2>1. PICK j : j = [Idle EXCEPT !.pc = "method", !.op = "subscribe"] /\ Begin(w, j)
    BY <1>3 DEF SubscribeWithPix
  <2>2. j.pc = "method"
    BY <2>1, IdleTyped, Zenon DEF Jobs
  <2> QED
    BY <1>2, <2>1, <2>2
<1>4. CASE GeneratePix(w)
  <2>1. PICK j : j = [Idle EXCEPT !.pc = "emit"] /\ Begin(w, j)
    BY <1>4 DEF GeneratePix
  <2>2. j.pc = "emit"
    BY <2>1, IdleTyped, Zenon DEF Jobs
  <2> QED
    BY <1>2, <2>1, <2>2
<1>5. CASE Checkout(w) \/ SubscribeCard(w)
  <2>1. PICK i, op, j : j = [Idle EXCEPT !.pc = "create", !.op = op, !.i = i] /\ Begin(w, j)
    BY <1>5, Zenon DEF Checkout, SubscribeCard
  <2>2. j.pc = "create"
    BY <2>1, IdleTyped, Zenon DEF Jobs
  <2> QED
    BY <1>2, <2>1, <2>2
<1>6. CASE CancelSubscription(w)
  <2>1. PICK j : j = [Idle EXCEPT !.pc = "cancelled", !.i = store.pre] /\ Begin(w, j)
    BY <1>6 DEF CancelSubscription
  <2>2. j.pc = "cancelled"
    BY <2>1, IdleTyped, Zenon DEF Jobs
  <2> QED
    BY <1>2, <2>1, <2>2
<1>7. CASE ChooseFree(w)
  <2>1. PICK j, active : j = [Idle EXCEPT !.pc = "free", !.paid = active] /\ Begin(w, j)
    BY <1>7, Zenon DEF ChooseFree
  <2>2. j.pc = "free" /\ "free" \in Ops
    BY <1>7, <2>1, IdleTyped, Zenon DEF Jobs, ChooseFree
  <2> QED
    BY <1>2, <2>1, <2>2
<1>8. CASE ViewPlan(w)
  <2>1. PICK j, pc : /\ pc \in {"viewfree", "viewpast"} /\ j = [Idle EXCEPT !.pc = pc]
                     /\ Begin(w, j) /\ store.due <= now
    BY <1>8 DEF ViewPlan
  <2>2. j.pc = pc
    BY <2>1, IdleTyped, Zenon DEF Jobs
  <2> QED
    BY <1>2, <2>1, <2>2
<1> QED
  BY <1>3, <1>4, <1>5, <1>6, <1>7, <1>8 DEF Request

LEMMA NotifyMoves ==
    ASSUME IInv, NEW w \in Workers, Notify(w)
    PROVE  Moves(w) /\ Judged(w)
<1>1. w \in Processes /\ job \in [Processes -> Jobs] /\ now' = now /\ UNCHANGED store
  <2>1. now' = now /\ UNCHANGED rows
    BY Zenon DEF Notify, NotifyPix, NotifyPreapproval, SyncInvoice, NotifyCharge
  <2> QED
    BY <2>1 DEF IInv, Typed, Processes, rows
<1>2. ASSUME NEW j, Begin(w, j), j.pc \in {"payment", "recurring", "preapproval"}
      PROVE  Moves(w) /\ Judged(w)
  <2>1. job'[w] = j /\ \A v \in Processes \ {w} : job'[v] = job[v]
    BY <1>1, <1>2 DEF Begin
  <2> QED
    BY <1>1, <1>2, <2>1 DEF Moves, Judged
<1>3. PICK i \in Invoice : \/ NotifyPix(w, i) \/ NotifyPreapproval(w, i) \/ SyncInvoice(w, i)
                           \/ \E n \in 1..MaxCharges : NotifyCharge(w, i, n)
  BY DEF Notify
<1>4. CASE NotifyPix(w, i) \/ \E n \in 1..MaxCharges : NotifyCharge(w, i, n)
  <2>1. PICK j, pc, pay, seen :
          /\ j = [Idle EXCEPT !.pc = pc, !.i = i, !.pay = pay, !.seen = seen]
          /\ pc \in {"payment", "recurring"} /\ Begin(w, j)
    BY <1>4, Zenon DEF NotifyPix, NotifyCharge
  <2>2. j.pc = pc
    BY <2>1, IdleTyped, Zenon DEF Jobs
  <2> QED
    BY <1>2, <2>1, <2>2
<1>5. CASE NotifyPreapproval(w, i) \/ SyncInvoice(w, i)
  <2>1. PICK j, k, seen :
          j = [Idle EXCEPT !.pc = "preapproval", !.i = k, !.seen = seen] /\ Begin(w, j)
    BY <1>5, Zenon DEF NotifyPreapproval, SyncInvoice
  <2>2. j.pc = "preapproval"
    BY <2>1, IdleTyped, Zenon DEF Jobs
  <2> QED
    BY <1>2, <2>1, <2>2
<1> QED
  BY <1>3, <1>4, <1>5

\* The cron's day is past, and it frees only a store whose period was over.
CronJudged ==
    /\ job'[Cron].date <= now
    /\ job'[Cron].pc \in {"freetest", "freelate"} => store.due <= now
CronMovesOn ==
    /\ \A v \in Processes \ {Cron} : job'[v] = job[v]
    /\ now' = now
    /\ \/ store'.due = store.due
       \/ store'.due = 0 /\ job[Cron].pc \in {"freetest", "freelate"}

LEMMA CronGoes ==
    ASSUME IInv, job[Cron].date <= now, CronStep
    PROVE  CronMovesOn /\ CronJudged
<1>0. now' = now
  BY DEF CronStep, CronCharges, Emit, ReadStore, LockAndCreate, PostPix,
         SaveQr, DropInvoice, CronEndsTrials, CronMoves, CronFrees, CronMarksPastDue,
         CronFindsLate, CronSuspends, CronEnds
<1>1. /\ Cron \in Processes /\ job \in [Processes -> Jobs] /\ job[Cron] \in Jobs
      /\ now \in Nat /\ now' = now /\ store \in StoreRow
      /\ job[Cron].date <= now /\ job[Cron].date \in Nat
  <2>1. job \in [Processes -> Jobs] /\ job[Cron] \in Jobs /\ Cron \in Processes
    BY DEF IInv, Typed, Processes
  <2>2. job[Cron].date \in Nat
    BY <2>1, Zenon DEF Jobs
  <2>3. now \in Nat /\ store \in StoreRow
    BY DEF IInv, Typed
  <2> QED
    BY <1>0, <2>1, <2>2, <2>3
<1>2. ASSUME NEW j, job' = [job EXCEPT ![Cron] = j],
             \/ store'.due = store.due
             \/ store'.due = 0 /\ job[Cron].pc \in {"freetest", "freelate"},
             j.date <= now, j.pc \in {"freetest", "freelate"} => store.due <= now
      PROVE  CronMovesOn /\ CronJudged
  <2>1. job'[Cron] = j /\ \A v \in Processes \ {Cron} : job'[v] = job[v]
    BY <1>1, <1>2
  <2> QED
    BY <1>1, <1>2, <2>1 DEF CronMovesOn, CronJudged
<1>3. ASSUME NEW pc, Goto(Cron, pc), pc \in {"freetest", "freelate"} => store.due <= now,
             \/ store'.due = store.due
             \/ store'.due = 0 /\ job[Cron].pc \in {"freetest", "freelate"}
      PROVE  CronMovesOn /\ CronJudged
  <2>1. PICK j : j = [job[Cron] EXCEPT !.pc = pc]
    OBVIOUS
  <2>2. job' = [job EXCEPT ![Cron] = j]
    BY <1>1, <1>3, <2>1 DEF Goto
  <2>3. j.pc = pc /\ j.date = job[Cron].date
    BY <1>1, <2>1, Zenon DEF Jobs
  <2> QED
    BY <1>1, <1>2, <1>3, <2>2, <2>3
<1>4. ASSUME Done(Cron), UNCHANGED store
      PROVE  CronMovesOn /\ CronJudged
  <2>1. PICK j : j = [Idle EXCEPT !.pc = "tests", !.date = now]
    OBVIOUS
  <2>2. job' = [job EXCEPT ![Cron] = j]
    BY <1>4, <2>1 DEF Done
  <2>3. j.pc = "tests" /\ j.date = now
    BY <2>1, IdleTyped, Zenon DEF Jobs
  <2>4. j.date <= now /\ j.pc \notin {"freetest", "freelate"} /\ store'.due = store.due
    BY <1>1, <1>4, <2>3
  <2> QED
    BY <1>2, <2>2, <2>4
<1>5. CASE CronCharges \/ ReadStore(Cron) \/ PostPix(Cron) \/ SaveQr(Cron) \/ DropInvoice(Cron)
  <2>1. /\ UNCHANGED store
        /\ Done(Cron) \/ \E pc \in {"emit", "lock", "saveqr", "drop"} : Goto(Cron, pc)
    BY <1>5 DEF CronCharges, ReadStore, PostPix, SaveQr, DropInvoice, rows
  <2> QED
    BY <1>3, <1>4, <2>1
<1>6. CASE LockAndCreate(Cron)
  <2>1. CASE Done(Cron)
    BY <1>4, <1>6, <2>1 DEF LockAndCreate
  <2>2. CASE ~Done(Cron)
    <3>1. PICK i : job' = [job EXCEPT ![Cron].pc = "post", ![Cron].i = i]
      BY <1>6, <2>2 DEF LockAndCreate, CreateInvoice
    <3>2. PICK j : j = [job[Cron] EXCEPT !.pc = "post", !.i = i]
      OBVIOUS
    <3>3. job' = [job EXCEPT ![Cron] = j]
      BY <1>1, <3>1, <3>2
    <3>4. j.pc = "post" /\ j.date = job[Cron].date
      BY <1>1, <3>2, Zenon DEF Jobs
    <3>5. store'.due = store.due
      BY <1>6 DEF LockAndCreate
    <3> QED
      BY <1>1, <1>2, <3>3, <3>4, <3>5
  <2> QED
    BY <2>1, <2>2
<1>7. CASE CronEndsTrials \/ CronFindsLate
  <2>1. /\ UNCHANGED store
        /\ \/ \E pc \in {"pastdue", "end"} : Goto(Cron, pc)
           \/ Overdue(job[Cron].date) /\ Goto(Cron, "freetest")
           \/ Late /\ Goto(Cron, "freelate")
    BY <1>7 DEF CronEndsTrials, CronFindsLate, CronMoves, rows
  <2>2. Overdue(job[Cron].date) \/ Late => store.due <= now
    BY <1>1, ConstantsTyped DEF Overdue, Late, StoreRow
  <2> QED
    BY <1>3, <2>1, <2>2
<1>8. CASE CronFrees("freetest", "pastdue") \/ CronFrees("freelate", "end")
  <2>1. PICK pc \in {"pastdue", "end"} :
          Goto(Cron, pc) /\ job[Cron].pc \in {"freetest", "freelate"} /\ store' = Free(store, FALSE)
    BY <1>8 DEF CronFrees
  <2>2. store'.due = 0
    BY <2>1, DueEnds
  <2> QED
    BY <1>3, <2>1, <2>2
<1>9. CASE CronMarksPastDue \/ CronSuspends
  <2>1. PICK pc \in {"late", "end"} :
          /\ Goto(Cron, pc)
          /\ UNCHANGED store \/ \E st : store' = [store EXCEPT !.status = st]
    BY <1>9 DEF CronMarksPastDue, CronSuspends
  <2>2. store'.due = store.due
    BY <1>1, <2>1, Zenon DEF StoreRow
  <2> QED
    BY <1>3, <2>1, <2>2
<1>10. CASE CronEnds
  <2>1. job' = [job EXCEPT ![Cron] = Idle] /\ UNCHANGED store
    BY <1>10 DEF CronEnds, rows
  <2>2. PICK j : j = Idle
    OBVIOUS
  <2>3. j.date <= now /\ j.pc \notin {"freetest", "freelate"} /\ store'.due = store.due
    BY <1>1, <2>1, <2>2, IdleInTime
  <2> QED
    BY <1>2, <2>1, <2>2, <2>3
<1> QED
  BY <1>5, <1>6, <1>7, <1>8, <1>9, <1>10 DEF CronStep, Emit

\* Only a process that condemns puts the store in arrears.
LEMMA WorkStatus ==
    ASSUME IInv, NEW w \in Workers, Work(w), ~Condemns(job[w])
    PROVE  store'.status \in {store.status, "ACTIVE"}
<1>0. store \in StoreRow
  BY DEF IInv, Typed
<1>1. CASE \/ ReadStore(w) \/ LockAndCreate(w) \/ PostPix(w) \/ SaveQr(w) \/ DropInvoice(w)
           \/ CancelAndCreate(w) \/ PostPreapproval(w) \/ ApplyPayment(w) \/ ApplyRecurring(w)
           \/ ReadPreapproval(w) \/ LoadInvoice(w) \/ ReadDue(w)
  <2>1. UNCHANGED store
    BY <1>1, Zenon DEF ReadStore, LockAndCreate, PostPix, SaveQr, DropInvoice, CancelAndCreate,
         PostPreapproval, ApplyPayment, ApplyRecurring, ReadPreapproval, LoadInvoice, ReadDue, rows
  <2> QED
    BY <2>1
<1>2. CASE SaveFree(w) \/ ViewFrees(w)
  <2>1. \E cancelled : store' = Free(store, cancelled)
    BY <1>2 DEF SaveFree, ViewFrees
  <2> QED
    BY <1>0, <2>1 DEF StoreRow, Free
<1>3. CASE CommitGrant(w)
  <2>1. PICK date : store' = [store EXCEPT !.status = "ACTIVE", !.plan = "paid",
                                !.sub = "authorized", !.due = date]
    BY <1>3, Zenon DEF CommitGrant
  <2>2. store'.status = "ACTIVE"
    BY <1>0, <2>1, Zenon DEF StoreRow
  <2> QED
    BY <2>2
<1>4. CASE SetMethod(w) \/ SaveCancelled(w) \/ Link(w) \/ Adopt(w)
  <2>1. \/ \E m : store' = [store EXCEPT !.method = m]
        \/ \E u : store' = [store EXCEPT !.sub = u]
        \/ \E p, u : store' = [store EXCEPT !.pre = p, !.sub = u]
    BY <1>4, Zenon DEF SetMethod, SaveCancelled, Link, Adopt
  <2>2. store'.status = store.status
    BY <1>0, <2>1, Zenon DEF StoreRow
  <2> QED
    BY <2>2
<1>5. CASE ViewMarksPastDue(w)
  BY <1>5 DEF ViewMarksPastDue, Condemns
<1>6. CASE Demote(w)
  <2>1. job[w].pc = "demote" /\ ~(job[w].seen = "cancelled" /\ job[w].date = 0)
    BY <1>6 DEF Demote, Condemns
  <2>2. PICK s : /\ store' = [store EXCEPT !.sub = job[w].seen, !.status = s]
                 /\ s = IF job[w].seen = "cancelled" /\ job[w].date = 0
                        THEN "PAST_DUE" ELSE store.status
    BY <1>6, Zenon DEF Demote
  <2>3. store'.status = store.status
    BY <1>0, <2>1, <2>2, Zenon DEF StoreRow
  <2> QED
    BY <2>3
<1> QED
  BY <1>1, <1>2, <1>3, <1>4, <1>5, <1>6 DEF Work, Emit

LEMMA CronStatus ==
    ASSUME IInv, Grounded, CronStep, store.due > now
    PROVE  store'.status \in {store.status, "ACTIVE", "SUSPENDED"}
<1>0. /\ store \in StoreRow /\ job[Cron] \in Jobs /\ now \in Nat
      /\ job[Cron].date <= now
  BY DEF IInv, Typed, Processes, Grounded
<1>1. job[Cron].date \in Nat
  BY <1>0, Zenon DEF Jobs
<1>2. ~Overdue(job[Cron].date)
  BY <1>0, <1>1 DEF Overdue, StoreRow
<1>3. CASE CronFrees("freetest", "pastdue") \/ CronFrees("freelate", "end")
  <2>1. store' = Free(store, FALSE)
    BY <1>3 DEF CronFrees
  <2> QED
    BY <1>0, <2>1 DEF StoreRow, Free
<1>4. CASE CronMarksPastDue
  BY <1>2, <1>4 DEF CronMarksPastDue
<1>5. CASE CronSuspends
  <2>1. UNCHANGED store \/ store' = [store EXCEPT !.status = "SUSPENDED"]
    BY <1>5 DEF CronSuspends
  <2> QED
    BY <1>0, <2>1 DEF StoreRow
<1>6. CASE \/ CronCharges \/ Emit(Cron) \/ CronEndsTrials \/ CronFindsLate \/ CronEnds
  <2>1. UNCHANGED store
    BY <1>6, Zenon DEF CronCharges, Emit, ReadStore, LockAndCreate, PostPix, SaveQr, DropInvoice,
         CronEndsTrials, CronFindsLate, CronMoves, CronEnds, rows
  <2> QED
    BY <2>1
<1> QED
  BY <1>3, <1>4, <1>5, <1>6 DEF CronStep

\* Nobody else is about to put the store in arrears when a period is granted.
Undisturbed ==
    \A w \in Workers : CommitGrant(w) => \A v \in Workers \ {w} : ~Condemns(job[v])

LEMMA GroundedByHandler ==
    ASSUME IInv, Grounded, Undisturbed, NEW w \in Workers, Moves(w), Judged(w)
    PROVE  Grounded'
<1>0. now \in Nat /\ store \in StoreRow /\ now' = now /\ 0 <= now
  BY DEF IInv, Typed, Moves
<1>1. job'[Cron].date <= now
  BY ConstantsTyped DEF Moves, Grounded, Processes
<1>2. ASSUME NEW v \in Workers, v # w, Condemns(job'[v])
      PROVE  store'.due <= now
  <2>1. job'[v] = job[v]
    BY <1>2 DEF Moves, Processes
  <2>2. Condemns(job[v]) /\ store.due <= now
    BY <1>2, <2>1 DEF Grounded
  <2>3. store'.due \in {store.due, 0}
    BY <1>2, <2>2 DEF Moves, Undisturbed
  <2> QED
    BY <1>0, <2>2, <2>3
<1>3. ASSUME Condemns(job'[w])
      PROVE  store'.due <= now
  <2>1. store.due <= now
    BY <1>3 DEF Condemns, Judged
  <2>2. job'[w] # Idle
    BY <1>3, IdleInTime DEF Condemns
  <2>3. store'.due \in {store.due, 0}
    BY <2>2 DEF Moves
  <2> QED
    BY <1>0, <2>1, <2>3
<1> QED
  BY <1>0, <1>1, <1>2, <1>3 DEF Grounded, Condemns

LEMMA GroundedKept ==
    ASSUME IInv, Grounded, [Next]_vars, [Undisturbed]_vars
    PROVE  Grounded'
<1>0. now \in Nat /\ store \in StoreRow /\ store.due \in Nat /\ job \in [Processes -> Jobs]
  BY DEF IInv, Typed, StoreRow
<1>c. job[Cron].date \in Nat
  <2>1. job[Cron] \in Jobs
    BY <1>0 DEF Processes
  <2> QED
    BY <2>1, Zenon DEF Jobs
<1>1. CASE UNCHANGED vars
  BY <1>1 DEF vars, Grounded, Condemns
<1>u. CASE Undisturbed
  <2>1. CASE NextDay
    <3>1. now' = now + 1 /\ UNCHANGED <<store, job>>
      BY <2>1 DEF NextDay, rows
    <3> QED
      BY <1>0, <1>c, <3>1 DEF Grounded, Condemns
  <2>2. CASE MercadoPago
    <3>1. UNCHANGED <<now, store, job>>
      BY <2>2 DEF MercadoPago, PayPix, ExpirePix, ChangePreapproval, ChargeCard, rows
    <3> QED
      BY <3>1 DEF Grounded, Condemns
  <2>3. CASE CronStep
    <3>1. CronMovesOn /\ CronJudged
      BY <2>3, CronGoes DEF Grounded
    <3>2. ASSUME NEW w \in Workers, Condemns(job'[w])
          PROVE  store'.due <= now
      <4>1. w \in Processes \ {Cron}
        BY ConstantsTyped DEF Processes
      <4>2. Condemns(job[w])
        BY <3>1, <3>2, <4>1 DEF CronMovesOn
      <4>3. store.due <= now
        BY <4>2 DEF Grounded
      <4> QED
        BY <1>0, <3>1, <4>3 DEF CronMovesOn
    <3> QED
      BY <3>1, <3>2 DEF Grounded, Condemns, CronMovesOn, CronJudged
  <2>4. CASE \E w \in Desks : Request(w)
    <3>1. PICK w \in Workers : Request(w)
      BY <2>4 DEF Workers
    <3> QED
      BY <1>u, <3>1, RequestMoves, GroundedByHandler
  <2>5. CASE \E w \in Hooks : Notify(w)
    <3>1. PICK w \in Workers : Notify(w)
      BY <2>5 DEF Workers
    <3> QED
      BY <1>u, <3>1, NotifyMoves, GroundedByHandler
  <2>6. CASE \E w \in Workers : Work(w)
    <3>1. PICK w \in Workers : Work(w)
      BY <2>6
    <3> QED
      BY <1>u, <3>1, WorkMoves, GroundedByHandler
  <2>7. CASE \E w \in Processes : Crash(w)
    <3>1. PICK w \in Processes : job' = [job EXCEPT ![w] = Idle] /\ UNCHANGED <<now, store>>
      BY <2>7 DEF Crash, rows
    <3>2. Idle.date = 0 /\ ~Condemns(Idle)
      BY IdleInTime DEF Condemns
    <3>3. ASSUME NEW v \in Processes
          PROVE  job'[v] = Idle \/ job'[v] = job[v]
      BY <1>0, <3>1
    <3>4. job'[Cron].date <= now
      BY <1>0, <3>2, <3>3 DEF Grounded, Processes
    <3>5. \A v \in Workers : Condemns(job'[v]) => store.due <= now
      BY <3>2, <3>3 DEF Grounded, Processes
    <3> QED
      BY <3>1, <3>4, <3>5 DEF Grounded, Condemns
  <2>8. CASE UNCHANGED vars
    BY <1>1, <2>8
  <2> QED
    BY <2>1, <2>2, <2>3, <2>4, <2>5, <2>6, <2>7, <2>8 DEF Next
<1> QED
  BY <1>1, <1>u

\* No step puts a store whose period is not over in arrears.
LEMMA PaidIsSpared ==
    ASSUME IInv, Grounded, [Next]_vars
    PROVE  [store.due > now /\ store.status # "PAST_DUE" => store'.status # "PAST_DUE"]_vars
<1> SUFFICES ASSUME store.due > now, store.status # "PAST_DUE", Next
             PROVE  store'.status # "PAST_DUE"
  OBVIOUS
<1>0. now \in Nat /\ store.due \in Nat
  BY DEF IInv, Typed, StoreRow
<1>1. CASE NextDay \/ MercadoPago \/ \E w \in Processes : Crash(w)
  BY <1>1 DEF NextDay, MercadoPago, PayPix, ExpirePix, ChangePreapproval, ChargeCard, Crash, rows
<1>2. CASE CronStep
  BY <1>2, CronStatus
<1>3. CASE (\E w \in Desks : Request(w)) \/ (\E w \in Hooks : Notify(w))
  <2>1. UNCHANGED store
    BY <1>3, Zenon DEF Request, SubscribeWithPix, GeneratePix, Checkout, SubscribeCard,
         CancelSubscription, ChooseFree, ViewPlan, Notify, NotifyPix, NotifyPreapproval,
         SyncInvoice, NotifyCharge, rows
  <2> QED
    BY <2>1
<1>4. CASE \E w \in Workers : Work(w)
  <2>1. PICK w \in Workers : Work(w)
    BY <1>4
  <2>2. ~Condemns(job[w])
    BY <1>0 DEF Grounded
  <2> QED
    BY <2>1, <2>2, WorkStatus
<1> QED
  BY <1>1, <1>2, <1>3, <1>4 DEF Next

LEMMA GroundedFromTheStart ==
    Init => Grounded
<1> SUFFICES ASSUME Init PROVE Grounded
  OBVIOUS
<1>1. now = 1 /\ job[Cron] = Idle /\ \A w \in Workers : job[w] = Idle
  BY DEF Init, Processes
<1>2. Idle.date <= now /\ ~Condemns(Idle)
  BY <1>1, IdleInTime DEF Condemns
<1> QED
  BY <1>1, <1>2 DEF Grounded

\* However many requests and notices meet, for whatever days: the only way to
\* put a store in arrears whose period is not over is that a payment is
\* applied between the statement that read the row and the one that writes it.
THEOREM ArrearsAreReal ==
    Spec /\ [][Undisturbed]_vars => PaidNotInArrears
<1>1. IInv /\ Grounded /\ [Next]_vars /\ [Undisturbed]_vars => Grounded'
  BY GroundedKept
<1>2. IInv /\ Grounded /\ [Next]_vars
        => [store.due > now /\ store.status # "PAST_DUE" => store'.status # "PAST_DUE"]_vars
  BY PaidIsSpared
<1>3. Spec => []IInv
  BY InvariantHolds
<1> QED
  BY <1>1, <1>2, <1>3, GroundedFromTheStart, PTL DEF Spec, PaidNotInArrears

-----------------------------------------------------------------------------
(* The cron.  With a free plan it moves stores there on what it read in an *)
(* earlier statement: all that it takes from a store whose period is not   *)
(* over is what was paid for in between.                                   *)

\* The day that the cron compares with is not in the future.
CronDated == job[Cron].date <= now

\* A store on its way to the free plan has had its period.
Timely == job[Cron].pc \in {"freetest", "freelate"} => store.due <= now

\* No period is granted while the cron is about to move the store.
OffTheMove ==
    job[Cron].pc \in {"freetest", "freelate"} => \A w \in Workers : ~CommitGrant(w)

LEMMA CronWaits ==
    ASSUME IInv, NEW w \in Workers, Moves(w)
    PROVE  job'[Cron] = job[Cron] /\ now' = now
  BY ConstantsTyped DEF Moves, Processes

LEMMA CronDatedKept ==
    ASSUME IInv, CronDated, [Next]_vars
    PROVE  CronDated'
<1>0. now \in Nat /\ job \in [Processes -> Jobs] /\ Cron \in Processes
  BY DEF IInv, Typed, Processes
<1>1. CASE NextDay
  <2>1. job[Cron] \in Jobs
    BY <1>0
  <2>2. job[Cron].date \in Nat
    BY <2>1, Zenon DEF Jobs
  <2>3. now' = now + 1 /\ job' = job
    BY <1>1 DEF NextDay
  <2> QED
    BY <1>0, <2>2, <2>3 DEF CronDated
<1>2. CASE MercadoPago \/ UNCHANGED vars
  <2>1. UNCHANGED <<now, job>>
    BY <1>2 DEF MercadoPago, PayPix, ExpirePix, ChangePreapproval, ChargeCard, vars
  <2> QED
    BY <2>1 DEF CronDated
<1>3. CASE CronStep
  BY <1>3, CronGoes DEF CronDated, CronMovesOn, CronJudged
<1>4. CASE \/ \E w \in Desks : Request(w)
           \/ \E w \in Hooks : Notify(w)
           \/ \E w \in Workers : Work(w)
  <2>1. PICK w \in Workers : Moves(w)
    BY <1>4, RequestMoves, NotifyMoves, WorkMoves DEF Workers
  <2> QED
    BY <2>1, CronWaits DEF CronDated
<1>5. CASE \E w \in Processes : Crash(w)
  <2>1. PICK w \in Processes : job' = [job EXCEPT ![w] = Idle] /\ now' = now
    BY <1>5 DEF Crash
  <2>2. job'[Cron] \in {job[Cron], Idle}
    BY <1>0, <2>1
  <2> QED
    BY <1>0, <2>1, <2>2, IdleInTime DEF CronDated
<1> QED
  BY <1>1, <1>2, <1>3, <1>4, <1>5 DEF Next

LEMMA CronDatedHolds == Spec => []CronDated
<1>1. Init => CronDated
  BY IdleInTime DEF Init, CronDated, Processes
<1> QED
  BY <1>1, CronDatedKept, InvariantHolds, PTL DEF Spec

LEMMA TimelyKept ==
    ASSUME IInv, CronDated, Timely, [Next]_vars, [OffTheMove]_vars
    PROVE  Timely'
<1>0. /\ now \in Nat /\ store \in StoreRow /\ store.due \in Nat
      /\ job \in [Processes -> Jobs] /\ Cron \in Processes
  BY DEF IInv, Typed, StoreRow, Processes
<1>1. CASE UNCHANGED vars
  BY <1>1 DEF vars, Timely
<1>2. CASE NextDay \/ MercadoPago
  <2>1. UNCHANGED <<store, job>> /\ now' \in {now, now + 1}
    BY <1>2 DEF NextDay, MercadoPago, PayPix, ExpirePix, ChangePreapproval, ChargeCard, rows
  <2> QED
    BY <1>0, <2>1 DEF Timely
<1>3. CASE CronStep
  <2>1. CronMovesOn /\ CronJudged
    BY <1>3, CronGoes DEF CronDated
  <2>2. store'.due \in {store.due, 0} /\ now' = now
    BY <2>1 DEF CronMovesOn
  <2> QED
    BY <1>0, <2>1, <2>2 DEF CronJudged, Timely
<1>4. ASSUME NEW w \in Workers, Moves(w), OffTheMove
      PROVE  Timely'
  <2>1. job'[Cron] = job[Cron] /\ now' = now
    BY <1>4, CronWaits
  <2>2. job[Cron].pc \in {"freetest", "freelate"} => store'.due \in {store.due, 0}
    BY <1>4 DEF Moves, OffTheMove
  <2> QED
    BY <1>0, <2>1, <2>2 DEF Timely
<1>5. CASE OffTheMove /\ \/ \E w \in Desks : Request(w)
                         \/ \E w \in Hooks : Notify(w)
                         \/ \E w \in Workers : Work(w)
  <2>1. PICK w \in Workers : Moves(w)
    BY <1>5, RequestMoves, NotifyMoves, WorkMoves DEF Workers
  <2> QED
    BY <1>4, <1>5, <2>1
<1>6. CASE \E w \in Processes : Crash(w)
  <2>1. PICK w \in Processes : job' = [job EXCEPT ![w] = Idle] /\ UNCHANGED <<now, store>>
    BY <1>6 DEF Crash, rows
  <2>2. job'[Cron] \in {job[Cron], Idle}
    BY <1>0, <2>1
  <2> QED
    BY <2>1, <2>2, IdleInTime DEF Timely
<1> QED
  BY <1>1, <1>2, <1>3, <1>5, <1>6 DEF Next

\* Whatever is paid while the cron goes from one query of the sweep to the next,
\* and whatever else meets or breaks off, the cron takes nothing from a store whose
\* period is not over, except one paid for between the query that found its period
\* over and the update, by id, that moves it to the free plan.
THEOREM CronLeavesPaid ==
    Spec /\ [][OffTheMove]_vars => CronSparesPaid
<1>1. IInv /\ CronDated /\ Timely /\ CronStep /\ store.due > now => store' = store
  <2> SUFFICES ASSUME IInv, CronDated, Timely, CronStep, store.due > now PROVE store' = store
    OBVIOUS
  <2>1. now \in Nat /\ store.due \in Nat /\ Grace \in Nat /\ job[Cron].date \in Nat
    BY ConstantsTyped DEF IInv, Typed, StoreRow, Jobs, Processes
  <2>2. ~Overdue(job[Cron].date) /\ ~Late
    BY <2>1 DEF CronDated, Overdue, Late
  <2>3. job[Cron].pc \notin {"freetest", "freelate"}
    BY <2>1 DEF Timely
  <2> QED
    BY <2>2, <2>3
    DEF CronStep, CronCharges, Emit, ReadStore, LockAndCreate, PostPix, SaveQr, DropInvoice,
        CronEndsTrials, CronMoves, CronFrees, CronMarksPastDue, CronFindsLate,
        CronSuspends, CronEnds, rows
<1>2. IInv /\ CronDated /\ Timely /\ [Next]_vars => [CronStep /\ store.due > now => store' = store]_vars
  BY <1>1
<1>3. Init => Timely
  BY IdleInTime DEF Init, Timely, Processes
<1>4. IInv /\ CronDated /\ Timely /\ [Next]_vars /\ [OffTheMove]_vars => Timely'
  BY TimelyKept
<1> QED
  BY <1>2, <1>3, <1>4, InvariantHolds, CronDatedHolds, PTL DEF Spec, CronSparesPaid

-----------------------------------------------------------------------------
(* The store's own subscription.  A handler that is to write it as pending *)
(* either brings a new one or has read that the store's is not authorized. *)

Faithful(j) ==
    /\ j.pc \in {"subscribe", "link"} => j.i # store.pre
    /\ j.pc = "adopt" /\ j.seen = "pending" => store.sub # "authorized"
    /\ j.pc = "demote" => j.seen \notin {"pending", "authorized"}
AllFaithful == \A w \in Workers : Faithful(job[w])

\* The step notes the store's subscription as authorized.
Authorizes(w) ==
    \/ CommitGrant(w)
    \/ Adopt(w) /\ job[w].seen = "authorized"
    \/ Link(w) /\ job[w].op = "card"

\* Nothing overtakes a handler that is about to write "pending": while one has
\* read that and not written it, no other notes an authorization; and a
\* subscription is not adopted before the request that made it has linked it.
Unovertaken ==
    \A v, w \in Workers : v # w =>
        /\ Authorizes(w) => ~(job[v].pc = "adopt" /\ job[v].seen = "pending")
        /\ Adopt(w) \/ Link(w) =>
             ~(job[v].pc \in {"subscribe", "link"} /\ job[v].i = job[w].i)

\* What w does to the row: only a grant, an adoption and a link authorise, and
\* only the last two change the store's subscription, to the one in w's hands.
Subscribes(w) ==
    /\ store'.sub = "authorized" => store.sub = "authorized" \/ Authorizes(w)
    /\ store'.pre # store.pre => (Adopt(w) \/ Link(w)) /\ store'.pre = job[w].i

LEMMA CronKeepsSubscription ==
    ASSUME IInv, CronStep
    PROVE  store'.pre = store.pre /\ store'.sub = store.sub
<1>0. store \in StoreRow
  BY DEF IInv, Typed
<1>1. CASE CronFrees("freetest", "pastdue") \/ CronFrees("freelate", "end")
  <2>1. store' = Free(store, FALSE)
    BY <1>1 DEF CronFrees
  <2> QED
    BY <1>0, <2>1 DEF StoreRow, Free
<1>2. CASE CronMarksPastDue \/ CronSuspends
  <2>1. UNCHANGED store \/ \E s : store' = [store EXCEPT !.status = s]
    BY <1>2 DEF CronMarksPastDue, CronSuspends
  <2>2. CASE UNCHANGED store
    BY <2>2
  <2>3. CASE \E s : store' = [store EXCEPT !.status = s]
    BY <1>0, <2>3, Zenon DEF StoreRow
  <2> QED
    BY <2>1, <2>2, <2>3
<1>3. CASE \/ CronCharges \/ Emit(Cron) \/ CronEndsTrials \/ CronFindsLate \/ CronEnds
  <2>1. UNCHANGED store
    BY <1>3, Zenon DEF CronCharges, Emit, ReadStore, LockAndCreate, PostPix, SaveQr, DropInvoice,
         CronEndsTrials, CronFindsLate, CronMoves, CronEnds, rows
  <2> QED
    BY <2>1
<1> QED
  BY <1>1, <1>2, <1>3 DEF CronStep

LEMMA WorkSubscribes ==
    ASSUME IInv, NEW w \in Workers, Work(w), Faithful(job[w])
    PROVE  Subscribes(w)
<1>0. store \in StoreRow
  BY DEF IInv, Typed
<1>1. CASE \/ ReadStore(w) \/ LockAndCreate(w) \/ PostPix(w) \/ SaveQr(w) \/ DropInvoice(w)
           \/ CancelAndCreate(w) \/ PostPreapproval(w) \/ ApplyPayment(w) \/ ApplyRecurring(w)
           \/ ReadPreapproval(w) \/ LoadInvoice(w) \/ ReadDue(w)
  <2>1. UNCHANGED store
    BY <1>1, Zenon DEF ReadStore, LockAndCreate, PostPix, SaveQr, DropInvoice, CancelAndCreate,
         PostPreapproval, ApplyPayment, ApplyRecurring, ReadPreapproval, LoadInvoice, ReadDue, rows
  <2> QED
    BY <2>1 DEF Subscribes
<1>2. CASE SaveFree(w) \/ ViewFrees(w)
  <2>1. PICK cancelled : store' = Free(store, cancelled)
    BY <1>2 DEF SaveFree, ViewFrees
  <2>2. store'.pre = store.pre /\ store'.sub \in {store.sub, "cancelled"}
    BY <1>0, <2>1 DEF StoreRow, Free
  <2> QED
    BY <2>2 DEF Subscribes
<1>3. CASE CommitGrant(w)
  <2>1. PICK date : store' = [store EXCEPT !.status = "ACTIVE", !.plan = "paid",
                                !.sub = "authorized", !.due = date]
    BY <1>3, Zenon DEF CommitGrant
  <2>2. store'.pre = store.pre
    BY <1>0, <2>1, Zenon DEF StoreRow
  <2> QED
    BY <1>3, <2>2 DEF Subscribes, Authorizes
<1>4. CASE SetMethod(w) \/ ViewMarksPastDue(w)
  <2>1. \/ \E m : store' = [store EXCEPT !.method = m]
        \/ \E s : store' = [store EXCEPT !.status = s]
    BY <1>4, Zenon DEF SetMethod, ViewMarksPastDue
  <2>2. store'.sub = store.sub /\ store'.pre = store.pre
    BY <1>0, <2>1, Zenon DEF StoreRow
  <2> QED
    BY <2>2 DEF Subscribes
<1>5. CASE SaveCancelled(w)
  <2>1. store'.pre = store.pre /\ store'.sub = "cancelled"
    BY <1>0, <1>5 DEF SaveCancelled, StoreRow
  <2> QED
    BY <2>1 DEF Subscribes
<1>6. CASE Link(w) \/ Adopt(w)
  <2>1. PICK u : /\ store' = [store EXCEPT !.pre = job[w].i, !.sub = u]
                 /\ \/ Adopt(w) /\ u = job[w].seen
                    \/ Link(w) /\ u = IF job[w].op = "card" THEN "authorized" ELSE "pending"
    BY <1>6, Zenon DEF Link, Adopt
  <2>2. store'.pre = job[w].i /\ store'.sub = u
    BY <1>0, <2>1, Zenon DEF StoreRow
  <2>3. u = "authorized" => Authorizes(w)
    BY <2>1 DEF Authorizes
  <2> QED
    BY <1>6, <2>2, <2>3 DEF Subscribes
<1>7. CASE Demote(w)
  <2>1. job[w].pc = "demote" /\ \E s : store' = [store EXCEPT !.sub = job[w].seen, !.status = s]
    BY <1>7, Zenon DEF Demote
  <2>2. store'.sub = job[w].seen /\ store'.pre = store.pre
    BY <1>0, <2>1, Zenon DEF StoreRow
  <2>3. job[w].seen # "authorized"
    BY <2>1 DEF Faithful
  <2> QED
    BY <2>2, <2>3 DEF Subscribes
<1> QED
  BY <1>1, <1>2, <1>3, <1>4, <1>5, <1>6, <1>7 DEF Work, Emit

LEMMA FaithfulBeside ==
    ASSUME AllFaithful, Unovertaken, NEW w \in Workers, Moves(w), Judged(w), Subscribes(w)
    PROVE  AllFaithful'
<1>1. Faithful(job[w])'
  <2>1. Faithful(job[w])
    BY DEF AllFaithful
  <2> QED
    BY <2>1 DEF Faithful, Judged
<1>2. ASSUME NEW v \in Workers, v # w
      PROVE  Faithful(job[v])'
  <2>1. job'[v] = job[v] /\ Faithful(job[v])
    BY <1>2 DEF Moves, Processes, AllFaithful
  <2>2. job[v].pc = "adopt" /\ job[v].seen = "pending" => store'.sub # "authorized"
    BY <1>2, <2>1 DEF Faithful, Subscribes, Unovertaken
  <2>3. job[v].pc \in {"subscribe", "link"} => job[v].i # store'.pre
    <3>1. CASE store'.pre = store.pre
      BY <2>1, <3>1 DEF Faithful
    <3>2. CASE store'.pre # store.pre
      BY <1>2, <3>2 DEF Subscribes, Unovertaken
    <3> QED
      BY <3>1, <3>2
  <2> QED
    BY <2>1, <2>2, <2>3 DEF Faithful
<1> QED
  BY <1>1, <1>2 DEF AllFaithful

LEMMA FaithfulKept ==
    ASSUME IInv, CronDated, AllFaithful, [Next]_vars, [Unovertaken]_vars
    PROVE  AllFaithful'
<1>0. job \in [Processes -> Jobs] /\ Workers \subseteq Processes \ {Cron}
  BY ConstantsTyped DEF IInv, Typed, Processes
<1>1. ASSUME \A w \in Workers : job'[w] = job[w], store'.pre = store.pre, store'.sub = store.sub
      PROVE  AllFaithful'
  BY <1>1 DEF AllFaithful, Faithful
<1>2. CASE UNCHANGED vars
  BY <1>1, <1>2 DEF vars
<1> SUFFICES ASSUME Next, Unovertaken PROVE AllFaithful'
  BY <1>2
<1>3. CASE NextDay \/ MercadoPago
  <2>1. UNCHANGED <<store, job>>
    BY <1>3 DEF NextDay, MercadoPago, PayPix, ExpirePix, ChangePreapproval, ChargeCard, rows
  <2> QED
    BY <1>1, <2>1
<1>4. CASE CronStep
  <2>1. \A w \in Workers : job'[w] = job[w]
    BY <1>0, <1>4, CronGoes DEF CronMovesOn, CronDated
  <2> QED
    BY <1>1, <1>4, <2>1, CronKeepsSubscription
<1>5. CASE (\E w \in Desks : Request(w)) \/ (\E w \in Hooks : Notify(w))
  <2>1. UNCHANGED store
    BY <1>5, Zenon DEF Request, SubscribeWithPix, GeneratePix, Checkout, SubscribeCard,
         CancelSubscription, ChooseFree, ViewPlan, Notify, NotifyPix, NotifyPreapproval,
         SyncInvoice, NotifyCharge, rows
  <2>2. PICK w \in Workers : Moves(w) /\ Judged(w)
    BY <1>5, RequestMoves, NotifyMoves DEF Workers
  <2>3. Subscribes(w)
    BY <2>1 DEF Subscribes
  <2> QED
    BY <2>2, <2>3, FaithfulBeside
<1>6. CASE \E w \in Workers : Work(w)
  <2>1. PICK w \in Workers : Work(w)
    BY <1>6
  <2> QED
    BY <2>1, WorkMoves, WorkSubscribes, FaithfulBeside DEF AllFaithful
<1>7. CASE \E w \in Processes : Crash(w)
  <2>1. PICK w \in Processes : job' = [job EXCEPT ![w] = Idle] /\ UNCHANGED store
    BY <1>7 DEF Crash, rows
  <2>2. ASSUME NEW v \in Workers
        PROVE  job'[v] = Idle \/ job'[v] = job[v]
    BY <1>0, <2>1
  <2>3. Idle.pc = "idle"
    BY IdleInTime
  <2> QED
    BY <2>1, <2>2, <2>3 DEF AllFaithful, Faithful
<1> QED
  BY <1>3, <1>4, <1>5, <1>6, <1>7 DEF Next

\* A statement writes "pending" only for another subscription.
LEMMA WorkKeepsAuthorized ==
    ASSUME IInv, NEW w \in Workers, Work(w), Faithful(job[w]),
           store.sub = "authorized", store'.pre = store.pre
    PROVE  store'.sub # "pending"
<1>0. store \in StoreRow
  BY DEF IInv, Typed
<1>1. CASE \/ ReadStore(w) \/ LockAndCreate(w) \/ PostPix(w) \/ SaveQr(w) \/ DropInvoice(w)
           \/ CancelAndCreate(w) \/ PostPreapproval(w) \/ ApplyPayment(w) \/ ApplyRecurring(w)
           \/ ReadPreapproval(w) \/ LoadInvoice(w) \/ ReadDue(w)
  <2>1. UNCHANGED store
    BY <1>1, Zenon DEF ReadStore, LockAndCreate, PostPix, SaveQr, DropInvoice, CancelAndCreate,
         PostPreapproval, ApplyPayment, ApplyRecurring, ReadPreapproval, LoadInvoice, ReadDue, rows
  <2> QED
    BY <2>1
<1>2. CASE SaveFree(w) \/ ViewFrees(w)
  <2>1. \E cancelled : store' = Free(store, cancelled)
    BY <1>2 DEF SaveFree, ViewFrees
  <2> QED
    BY <1>0, <2>1 DEF StoreRow, Free
<1>3. CASE CommitGrant(w)
  <2>1. PICK date : store' = [store EXCEPT !.status = "ACTIVE", !.plan = "paid",
                                !.sub = "authorized", !.due = date]
    BY <1>3, Zenon DEF CommitGrant
  <2>2. store'.sub = "authorized"
    BY <1>0, <2>1, Zenon DEF StoreRow
  <2> QED
    BY <2>2
<1>4. CASE SetMethod(w) \/ ViewMarksPastDue(w)
  <2>1. \/ \E m : store' = [store EXCEPT !.method = m]
        \/ \E s : store' = [store EXCEPT !.status = s]
    BY <1>4, Zenon DEF SetMethod, ViewMarksPastDue
  <2>2. store'.sub = store.sub
    BY <1>0, <2>1, Zenon DEF StoreRow
  <2> QED
    BY <2>2
<1>5. CASE SaveCancelled(w)
  BY <1>0, <1>5 DEF SaveCancelled, StoreRow
<1>6. CASE Link(w)
  <2>1. job[w].pc = "link" /\ \E u : store' = [store EXCEPT !.pre = job[w].i, !.sub = u]
    BY <1>6, Zenon DEF Link
  <2>2. store'.pre = job[w].i
    BY <1>0, <2>1, Zenon DEF StoreRow
  <2> QED
    BY <2>1, <2>2 DEF Faithful
<1>7. CASE Adopt(w)
  <2>1. job[w].pc = "adopt" /\ \E p : store' = [store EXCEPT !.pre = p, !.sub = job[w].seen]
    BY <1>7, Zenon DEF Adopt
  <2>2. store'.sub = job[w].seen
    BY <1>0, <2>1, Zenon DEF StoreRow
  <2> QED
    BY <2>1, <2>2 DEF Faithful
<1>8. CASE Demote(w)
  <2>1. job[w].pc = "demote" /\ \E s : store' = [store EXCEPT !.sub = job[w].seen, !.status = s]
    BY <1>8, Zenon DEF Demote
  <2>2. store'.sub = job[w].seen
    BY <1>0, <2>1, Zenon DEF StoreRow
  <2> QED
    BY <2>1, <2>2 DEF Faithful
<1> QED
  BY <1>1, <1>2, <1>3, <1>4, <1>5, <1>6, <1>7, <1>8 DEF Work, Emit

LEMMA AuthorizedIsKept ==
    ASSUME IInv, AllFaithful, [Next]_vars
    PROVE  [store.sub = "authorized" /\ store'.pre = store.pre => store'.sub # "pending"]_vars
<1> SUFFICES ASSUME store.sub = "authorized", store'.pre = store.pre, Next
             PROVE  store'.sub # "pending"
  OBVIOUS
<1>1. CASE NextDay \/ MercadoPago \/ \E w \in Processes : Crash(w)
  BY <1>1 DEF NextDay, MercadoPago, PayPix, ExpirePix, ChangePreapproval, ChargeCard, Crash, rows
<1>2. CASE CronStep
  BY <1>2, CronKeepsSubscription
<1>3. CASE (\E w \in Desks : Request(w)) \/ (\E w \in Hooks : Notify(w))
  <2>1. UNCHANGED store
    BY <1>3, Zenon DEF Request, SubscribeWithPix, GeneratePix, Checkout, SubscribeCard,
         CancelSubscription, ChooseFree, ViewPlan, Notify, NotifyPix, NotifyPreapproval,
         SyncInvoice, NotifyCharge, rows
  <2> QED
    BY <2>1
<1>4. CASE \E w \in Workers : Work(w)
  <2>1. PICK w \in Workers : Work(w)
    BY <1>4
  <2>2. Faithful(job[w])
    BY DEF AllFaithful
  <2> QED
    BY <2>1, <2>2, WorkKeepsAuthorized
<1> QED
  BY <1>1, <1>2, <1>3, <1>4 DEF Next

\* "Nao rebaixa authorized -> pending": however many requests and notices meet,
\* whatever is lost, repeated, late or broken off, for any number of invoices and
\* days, no step takes the store's own subscription back to pending, except that
\* of a handler that was overtaken between what it read and what it writes.
THEOREM AuthorizedStays ==
    Spec /\ [][Unovertaken]_vars => NoDowngrade
<1>1. IInv /\ CronDated /\ AllFaithful /\ [Next]_vars /\ [Unovertaken]_vars => AllFaithful'
  BY FaithfulKept
<1>2. Init => AllFaithful
  <2> SUFFICES ASSUME Init PROVE AllFaithful
    OBVIOUS
  <2>1. \A w \in Workers : job[w] = Idle
    BY DEF Init, Processes
  <2> QED
    BY <2>1, IdleInTime DEF AllFaithful, Faithful
<1>3. IInv /\ AllFaithful /\ [Next]_vars
        => [store.sub = "authorized" /\ store'.pre = store.pre => store'.sub # "pending"]_vars
  BY AuthorizedIsKept
<1> QED
  BY <1>1, <1>2, <1>3, InvariantHolds, CronDatedHolds, PTL DEF Spec, NoDowngrade
=============================================================================
