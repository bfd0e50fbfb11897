------------------------------ MODULE Billing ------------------------------
(***************************************************************************)
(* The monthly fee of one store (api/src/billing): the store's plan, its   *)
(* PlatformInvoices, the Pix charges and card subscriptions (preapproval)  *)
(* at Mercado Pago, the webhooks that bring the answers, the merchant's    *)
(* requests, and the hourly run of BillingCronService.                     *)
(*                                                                         *)
(* A process is at an await: job[w].pc names the statement it does next    *)
(* and the other fields are what it read before.  Days are numbers from 1; *)
(* the date 0 is null.  There is one paid plan and, with FreePlan, a free  *)
(* one.                                                                    *)
(***************************************************************************)
EXTENDS Naturals, FiniteSets, FiniteSetsExt

CONSTANTS
    Desks,        \* server processes with a request of the merchant
    Hooks,        \* server processes with a webhook or a sync
    Cron,         \* the process that holds the lock cobranca-mensalidade
    Ops,          \* operations and mishaps that this instance allows
    Period,       \* days a paid invoice is worth (periodDays)
    Ahead,        \* ANTECEDENCIA_DIAS
    Validity,     \* VALIDADE_DIAS
    Grace,        \* BILLING_GRACE_DAYS
    FreePlan,     \* whether the catalogue has a free plan
    LastDay,      \* bound: days that pass
    MaxInvoices,  \* bound: invoices ever made
    MaxCharges,   \* bound: monthly charges of one subscription
    MaxGrants     \* bound: periods ever granted

ASSUME BillingAssumption ==
    /\ Cron \notin Desks \cup Hooks /\ FreePlan \in BOOLEAN
    /\ Period \in Nat \ {0} /\ {Ahead, Validity, Grace} \subseteq Nat
    /\ {LastDay, MaxInvoices, MaxCharges, MaxGrants} \subseteq Nat
    /\ IsFiniteSet(Desks) /\ IsFiniteSet(Hooks)

VARIABLES
    now,      \* today
    store,    \* the store's row
    inv,      \* PlatformInvoice, in the order of createdAt
    charge,   \* Mercado Pago: the Pix charge of each invoice
    pre,      \* Mercado Pago: the preapproval of each invoice
    job,      \* where each process is
    granted   \* periods added to planDueAt (no action reads it, bound apart)

gateway == <<charge, pre>>
rows == <<store, inv, granted>>
vars == <<now, store, inv, charge, pre, job, granted>>

-----------------------------------------------------------------------------
(* Rows *)

Invoice == 1..MaxInvoices
Workers == Desks \cup Hooks
Processes == Workers \cup {Cron}

\* mpPaymentId: the Pix charge of an invoice, or a charge of a subscription.
NoPay == [kind |-> "none", of |-> 0, n |-> 0]
PixPay(i) == [kind |-> "pix", of |-> i, n |-> 0]
CardPay(i, n) == [kind |-> "card", of |-> i, n |-> n]

NoInvoice == [status |-> "absent", method |-> "CARD", pay |-> NoPay, pre |-> 0,
              expires |-> 0, qr |-> FALSE]
Exists(i) == inv[i].status \notin {"absent", "deleted"}
Made == Cardinality({i \in Invoice : inv[i].status # "absent"})

Idle == [pc |-> "idle", op |-> "", i |-> 0, pay |-> NoPay, seen |-> "", had |-> "",
         date |-> 0, paid |-> FALSE]

\* Invoices that processes are about to make: they keep within MaxInvoices.
Room == Made + Cardinality({w \in Processes :
                              job[w].pc \in {"method", "emit", "lock", "create"}}) < MaxInvoices

Goto(w, pc) == job' = [job EXCEPT ![w].pc = pc]
Begin(w, j) == job[w].pc = "idle" /\ job' = [job EXCEPT ![w] = j]
\* The end of a handler; the cron's run goes on after its emission.
Done(w) == job' = [job EXCEPT ![w] = IF w = Cron THEN [Idle EXCEPT !.pc = "tests", !.date = now]
                                                 ELSE Idle]

-----------------------------------------------------------------------------
(* A Pix charge: subscribeWithPix, POST pix/gerar and the cron *)

SubscribeWithPix(w) ==
    /\ "pix" \in Ops /\ Room
    /\ Begin(w, [Idle EXCEPT !.pc = "method", !.op = "subscribe"])
    /\ UNCHANGED <<now, rows, gateway>>

SetMethod(w) ==
    /\ job[w].pc = "method"
    /\ store' = [store EXCEPT !.method = "PIX"]
    /\ Goto(w, "emit")
    /\ UNCHANGED <<now, inv, granted, gateway>>

GeneratePix(w) ==
    /\ "pix" \in Ops /\ Room
    /\ Begin(w, [Idle EXCEPT !.pc = "emit"])
    /\ UNCHANGED <<now, rows, gateway>>

\* emitirCobrancaPix: the store's own plan, unless the merchant chose one.
\* The sweep and the panel read it, then everything up to the transaction.
ReadStore(w) ==
    /\ job[w].pc = "emit"
    /\ IF job[w].op = "subscribe" \/ store.plan = "paid" THEN Goto(w, "lock") ELSE Done(w)
    /\ UNCHANGED <<now, rows, gateway>>

\* The pending Pix invoice made last, 0 for none.
PixPending == {i \in Invoice : inv[i].method = "PIX" /\ inv[i].status = "PENDING"}
LastPending == IF PixPending = {} THEN 0 ELSE Max(PixPending)
HasOpenPix == LastPending # 0 /\ inv[LastPending].expires > now

CreateInvoice(w, method, pc) ==
    /\ inv' = [inv EXCEPT ![Made + 1] = [NoInvoice EXCEPT !.status = "PENDING", !.method = method,
                  !.expires = IF method = "PIX" THEN now + Validity ELSE 0]]
    /\ job' = [job EXCEPT ![w].pc = pc, ![w].i = Made + 1]

\* Mutant: the check is made before the lock only.
CreateUnchecked(w) ==
    /\ job[w].pc = "lock"
    /\ CreateInvoice(w, "PIX", "post")
    /\ UNCHANGED <<now, store, granted, gateway>>

\* The transaction that locks the store: reuse the open charge or make one.
LockAndCreate(w) ==
    /\ job[w].pc = "lock"
    /\ IF HasOpenPix THEN Done(w) /\ UNCHANGED inv ELSE CreateInvoice(w, "PIX", "post")
    /\ UNCHANGED <<now, store, granted, gateway>>

\* POST v1/payments: accepted, refused, or the answer (or the process) lost.
PostPix(w) ==
    LET i == job[w].i IN
    /\ job[w].pc = "post"
    /\ \/ Goto(w, "saveqr") /\ charge' = [charge EXCEPT ![i] = "pending"]
       \/ Goto(w, "drop") /\ UNCHANGED charge
       \/ /\ "lost" \in Ops /\ Done(w)
          /\ \E s \in {"none", "pending"} : charge' = [charge EXCEPT ![i] = s]
    /\ UNCHANGED <<now, rows, pre>>

SaveQr(w) ==
    /\ job[w].pc = "saveqr"
    /\ inv' = [inv EXCEPT ![job[w].i].pay = PixPay(job[w].i), ![job[w].i].qr = TRUE]
    /\ Done(w)
    /\ UNCHANGED <<now, store, granted, gateway>>

DropInvoice(w) ==
    /\ job[w].pc = "drop"
    /\ inv' = [inv EXCEPT ![job[w].i].status = "deleted"]
    /\ Done(w)
    /\ UNCHANGED <<now, store, granted, gateway>>

Emit(w) == ReadStore(w) \/ LockAndCreate(w) \/ PostPix(w) \/ SaveQr(w) \/ DropInvoice(w)

-----------------------------------------------------------------------------
(* A card subscription: createCheckout, createAuthorizedSubscription,      *)
(* cancelSubscription and the merchant's move to the free plan             *)

\* cancelPreapproval: a failure is not noticed.
TryToCancel(i) ==
    \/ pre' = [pre EXCEPT ![i].status = "cancelled"]
    \/ "lost" \in Ops /\ UNCHANGED pre

\* op "checkout" sends the merchant to Mercado Pago, op "card" brings the
\* card's token.  Both first refuse the store that has a subscription.
Checkout(w) ==
    /\ "checkout" \in Ops /\ Room
    /\ ~(store.sub = "authorized" /\ store.pre # 0)
    /\ Begin(w, [Idle EXCEPT !.pc = "create", !.op = "checkout",
                   !.i = IF store.sub \notin {"none", "cancelled"} THEN store.pre ELSE 0])
    /\ UNCHANGED <<now, rows, gateway>>

SubscribeCard(w) ==
    /\ "card" \in Ops /\ Room
    /\ ~(store.sub = "authorized" /\ store.pre # 0 /\ store.plan = "paid")
    /\ Begin(w, [Idle EXCEPT !.pc = "create", !.op = "card",
                   !.i = IF store.sub \notin {"none", "cancelled"} THEN store.pre ELSE 0])
    /\ UNCHANGED <<now, rows, gateway>>

\* The old preapproval is cancelled, then the invoice is made.
CancelAndCreate(w) ==
    /\ job[w].pc = "create"
    /\ IF job[w].i = 0 THEN UNCHANGED pre ELSE TryToCancel(job[w].i)
    /\ CreateInvoice(w, "CARD", "subscribe")
    /\ UNCHANGED <<now, store, granted, charge>>

PostPreapproval(w) ==
    LET i == job[w].i
        status == IF job[w].op = "card" THEN "authorized" ELSE "pending"
        made == pre' = [pre EXCEPT ![i] = [status |-> status, charges |-> 0]]
    IN /\ job[w].pc = "subscribe"
       /\ \/ made /\ Goto(w, "link") /\ UNCHANGED inv
          \/ /\ Done(w) /\ inv' = [inv EXCEPT ![i].status = "CANCELLED"]
             /\ UNCHANGED pre
          \/ "lost" \in Ops /\ Done(w) /\ UNCHANGED inv /\ (made \/ UNCHANGED pre)
       /\ UNCHANGED <<now, store, granted, charge>>

\* The transaction that notes the preapproval on the invoice and the store.
Link(w) ==
    LET i == job[w].i  card == job[w].op = "card" IN
    /\ job[w].pc = "link"
    /\ inv' = [inv EXCEPT ![i].pre = i, ![i].status = IF card THEN "APPROVED" ELSE @]
    /\ store' = [store EXCEPT !.pre = i, !.sub = IF card THEN "authorized" ELSE "pending"]
    /\ IF card THEN job' = [job EXCEPT ![w].pc = "load", ![w].paid = TRUE] ELSE Done(w)
    /\ UNCHANGED <<now, granted, gateway>>

CancelSubscription(w) ==
    LET j == [Idle EXCEPT !.pc = "cancelled", !.i = store.pre] IN
    /\ "cancel" \in Ops
    /\ store.pre # 0 /\ store.sub # "cancelled"
    /\ Begin(w, j)
    /\ pre' = [pre EXCEPT ![store.pre].status = "cancelled"]
    /\ UNCHANGED <<now, rows, charge>>

SaveCancelled(w) ==
    /\ job[w].pc = "cancelled"
    /\ store' = [store EXCEPT !.sub = "cancelled"]
    /\ Done(w)
    /\ UNCHANGED <<now, inv, granted, gateway>>

\* moverParaGratis: the cancellation (by the merchant's choice), the update.
ChooseFree(w) ==
    LET active == store.pre # 0 /\ store.sub # "cancelled" IN
    /\ "free" \in Ops /\ FreePlan
    /\ Begin(w, [Idle EXCEPT !.pc = "free", !.paid = active])
    /\ IF active THEN TryToCancel(store.pre) ELSE UNCHANGED pre
    /\ UNCHANGED <<now, rows, charge>>

Free(s, cancelled) ==
    [s EXCEPT !.status = "ACTIVE", !.plan = "free", !.due = 0, !.method = "CARD",
              !.sub = IF cancelled THEN "cancelled" ELSE @]

SaveFree(w) ==
    /\ job[w].pc = "free"
    /\ store' = Free(store, job[w].paid)
    /\ Done(w)
    /\ UNCHANGED <<now, inv, granted, gateway>>

\* mySubscription, the panel's page of plans (also the end of a sync, of a
\* cancellation and of the move to the free plan), applies the rule of the
\* arrears to what it has read.
ViewPlan(w) ==
    /\ "view" \in Ops
    /\ store.due # 0 /\ store.due <= now /\ store.status \in {"ACTIVE", "TRIAL"}
    /\ Begin(w, [Idle EXCEPT !.pc = IF store.status = "TRIAL" /\ FreePlan
                                   THEN "viewfree" ELSE "viewpast"])
    /\ UNCHANGED <<now, rows, gateway>>

ViewFrees(w) ==
    /\ job[w].pc = "viewfree"
    /\ store' = Free(store, FALSE)
    /\ Done(w)
    /\ UNCHANGED <<now, inv, granted, gateway>>

ViewMarksPastDue(w) ==
    /\ job[w].pc = "viewpast"
    /\ store' = [store EXCEPT !.status = "PAST_DUE"]
    /\ Done(w)
    /\ UNCHANGED <<now, inv, granted, gateway>>

-----------------------------------------------------------------------------
(* Mercado Pago *)

\* The merchant can pay: the charge is pending, valid, and was shown.
Payable(i) == charge[i] = "pending" /\ now < inv[i].expires /\ inv[i].qr

PayPix(i) ==
    /\ Payable(i)
    /\ charge' = [charge EXCEPT ![i] = "approved"]
    /\ UNCHANGED <<now, rows, pre, job>>

ExpirePix(i) ==
    /\ charge[i] = "pending" /\ now >= inv[i].expires
    /\ charge' = [charge EXCEPT ![i] = "cancelled"]
    /\ UNCHANGED <<now, rows, pre, job>>

\* The merchant authorises (over the link that createCheckout answers with,
\* once it has noted it), pauses, resumes or cancels over there.
ChangePreapproval(i) ==
    /\ \E s \in {"authorized", "paused", "cancelled"} :
         /\ s \in CASE pre[i].status = "pending" -> IF inv[i].pre = i THEN {"authorized", "cancelled"}
                                                      ELSE {"cancelled"}
                    [] pre[i].status = "authorized" -> {"paused", "cancelled"}
                    [] pre[i].status = "paused" -> {"authorized", "cancelled"}
                    [] OTHER -> {}
         /\ pre' = [pre EXCEPT ![i].status = s]
    /\ UNCHANGED <<now, rows, charge, job>>

ChargeCard(i) ==
    /\ pre[i].status = "authorized" /\ pre[i].charges < MaxCharges
    /\ pre' = [pre EXCEPT ![i].charges = @ + 1]
    /\ UNCHANGED <<now, rows, charge, job>>

-----------------------------------------------------------------------------
(* Webhooks: delivered late, repeatedly, or not at all.  A handler first   *)
(* fetches what it is about.  syncInvoice and syncAfterMpReturn call the   *)
(* same handlers, one after the other: each call is a delivery here.       *)

NotifyPix(w, i) ==
    /\ charge[i] # "none"
    /\ Begin(w, [Idle EXCEPT !.pc = "payment", !.i = i, !.pay = PixPay(i), !.seen = charge[i]])
    /\ UNCHANGED <<now, rows, gateway>>

\* Mercado Pago notifies a subscription's charge as payment, too.
NotifyCharge(w, i, n) ==
    /\ n <= pre[i].charges
    /\ \E pc \in {"payment", "recurring"} :
         Begin(w, [Idle EXCEPT !.pc = pc, !.i = i, !.pay = CardPay(i, n), !.seen = "approved"])
    /\ UNCHANGED <<now, rows, gateway>>

NotifyPreapproval(w, i) ==
    /\ pre[i].status # "none"
    /\ Begin(w, [Idle EXCEPT !.pc = "preapproval", !.i = i, !.seen = pre[i].status])
    /\ UNCHANGED <<now, rows, gateway>>

\* The button of the panel.
SyncInvoice(w, i) ==
    /\ "sync" \in Ops
    /\ Exists(i) /\ inv[i].pre # 0
    /\ Begin(w, [Idle EXCEPT !.pc = "preapproval", !.i = inv[i].pre,
                   !.seen = pre[inv[i].pre].status])
    /\ UNCHANGED <<now, rows, gateway>>

\* Mutant: a payment of an invoice already approved is applied again.
ApplyAgain(w) ==
    /\ job[w].pc = "payment" /\ job[w].seen = "approved" /\ Exists(job[w].i)
    /\ job' = [job EXCEPT ![w].pc = "load", ![w].paid = TRUE]
    /\ UNCHANGED <<now, rows, gateway>>

\* mpPaymentId is unique: the write of another row fails, and the handler.
Taken(pay, i) == pay # NoPay /\ \E k \in Invoice \ {i} : Exists(k) /\ inv[k].pay = pay

ApplyPayment(w) ==
    LET j == job[w]  status == IF j.seen = "cancelled" THEN "REJECTED" ELSE "PENDING" IN
    /\ j.pc = "payment"
    /\ \/ /\ \/ ~Exists(j.i)
             \/ j.seen = "approved" /\ inv[j.i].status = "APPROVED" /\ inv[j.i].pay = j.pay
          /\ Done(w) /\ UNCHANGED inv
       \/ /\ Exists(j.i) /\ j.seen # "approved"
          /\ inv' = [inv EXCEPT ![j.i].status = status, ![j.i].pay = j.pay]
          /\ Done(w)
       \/ /\ Exists(j.i) /\ j.seen = "approved"
          /\ inv[j.i].status # "APPROVED" \/ inv[j.i].pay # j.pay
          /\ job' = [job EXCEPT ![w].pc = "load", ![w].paid = TRUE]
          /\ UNCHANGED inv
    /\ UNCHANGED <<now, store, granted, gateway>>

\* applyAuthorizedPayment: the invoice by its reference or, without one, the
\* last of the subscription; a new one when that has been paid.
ApplyRecurring(w) ==
    LET j == job[w]
        ofPre == {i \in Invoice : Exists(i) /\ inv[i].pre = j.i}
        candidates == {i \in {j.i} : Exists(i)} \cup (IF ofPre = {} THEN {} ELSE {Max(ofPre)})
        already == \E i \in Invoice : inv[i].pay = j.pay /\ inv[i].status = "APPROVED"
    IN /\ j.pc = "recurring"
       /\ \/ already /\ Done(w) /\ UNCHANGED inv
          \/ ~already /\ \E i \in candidates :
               IF inv[i].status = "APPROVED" /\ inv[i].pay # NoPay
               THEN /\ Room
                    /\ inv' = [inv EXCEPT ![Made + 1] =
                                 [NoInvoice EXCEPT !.status = "PENDING", !.pre = inv[i].pre]]
                    /\ job' = [job EXCEPT ![w].pc = "load", ![w].paid = TRUE, ![w].i = Made + 1]
               ELSE /\ job' = [job EXCEPT ![w].pc = "load", ![w].paid = TRUE, ![w].i = i]
                    /\ UNCHANGED inv
       /\ UNCHANGED <<now, store, granted, gateway>>

\* Mutant: the status of an old preapproval is taken, too.
ReadAnyPreapproval(w) ==
    LET j == job[w]  ends == j.seen \in {"cancelled", "paused"} IN
    /\ j.pc = "preapproval"
    /\ IF ~Exists(j.i) THEN Done(w)
       ELSE job' = [job EXCEPT ![w].pc = IF ends THEN "demote" ELSE "adopt",
                      ![w].paid = inv[j.i].status # "APPROVED", ![w].date = store.due]
    /\ UNCHANGED <<now, rows, gateway>>

\* applyPreapproval: what it reads decides what it writes next.
ReadPreapproval(w) ==
    LET j == job[w]
        isCurrent == store.pre \in {0, j.i}
        ends == j.seen \in {"cancelled", "paused"}
        ignored == \/ ~Exists(j.i)
                   \/ ~isCurrent /\ j.seen # "authorized"
                   \/ ends /\ store.pre # j.i
                   \/ j.seen = "pending" /\ store.sub = "authorized" /\ isCurrent
    IN /\ j.pc = "preapproval"
       /\ IF ignored THEN Done(w)
          ELSE job' = [job EXCEPT ![w].pc = IF ends THEN "demote" ELSE "adopt",
                         ![w].paid = inv[j.i].status # "APPROVED",
                         ![w].date = IF store.due > now THEN store.due ELSE 0]
       /\ UNCHANGED <<now, rows, gateway>>

\* Mutant: the status becomes PAST_DUE whatever has been paid.
DemoteAlways(w) ==
    /\ job[w].pc = "demote"
    /\ store' = [store EXCEPT !.sub = job[w].seen, !.status = "PAST_DUE"]
    /\ Done(w)
    /\ UNCHANGED <<now, inv, granted, gateway>>

Demote(w) ==
    /\ job[w].pc = "demote"
    /\ store' = [store EXCEPT !.sub = job[w].seen,
                   !.status = IF job[w].seen = "cancelled" /\ job[w].date = 0
                              THEN "PAST_DUE" ELSE @]
    /\ Done(w)
    /\ UNCHANGED <<now, inv, granted, gateway>>

Adopt(w) ==
    /\ job[w].pc = "adopt"
    /\ store' = [store EXCEPT !.pre = job[w].i, !.sub = job[w].seen]
    /\ IF job[w].seen = "authorized"
       THEN job' = [job EXCEPT ![w].pc = "load", ![w].pay = NoPay]
       ELSE Done(w)
    /\ UNCHANGED <<now, inv, granted, gateway>>

-----------------------------------------------------------------------------
(* activateStoreFromInvoice *)

\* Mutant: an invoice that has expired is left aside.
LoadInTime(w) ==
    /\ job[w].pc = "load"
    /\ IF inv[job[w].i].expires > now
       THEN job' = [job EXCEPT ![w].pc = "grant", ![w].had = inv[job[w].i].status]
       ELSE Done(w)
    /\ UNCHANGED <<now, rows, gateway>>

\* The invoice is read before the transaction.
LoadInvoice(w) ==
    /\ job[w].pc = "load"
    /\ IF Exists(job[w].i)
       THEN job' = [job EXCEPT ![w].pc = "grant", ![w].had = inv[job[w].i].status]
       ELSE Done(w)
    /\ UNCHANGED <<now, rows, gateway>>

MarksPaid(j) == j.paid /\ j.had # "APPROVED"
WritesInvoice(j) == MarksPaid(j) \/ j.pay # NoPay

\* The row lock of an invoice that a transaction has written.
LockedByOther(w) ==
    \E v \in Processes \ {w} :
        /\ job[v].pc = "commit" /\ WritesInvoice(job[v])
        /\ job[v].i = job[w].i \/ (job[v].pay = job[w].pay /\ job[v].pay # NoPay)

NextDue(due) == (IF due > now THEN due ELSE now) + Period

\* In the transaction: the invoice is written, the store is read ...
ReadDue(w) ==
    /\ job[w].pc = "grant"
    /\ granted + Cardinality({v \in Processes : job[v].pc = "commit"}) < MaxGrants
    /\ WritesInvoice(job[w]) => ~LockedByOther(w)
    /\ IF Taken(job[w].pay, job[w].i) THEN Done(w)
       ELSE job' = [job EXCEPT ![w].pc = "commit", ![w].date = NextDue(store.due)]
    /\ UNCHANGED <<now, rows, gateway>>

\* ... and the store is written and all of it committed.
CommitGrant(w) ==
    LET j == job[w]
        row == inv[j.i]
    IN
    /\ j.pc = "commit"
    /\ inv' = [inv EXCEPT ![j.i] =
                 [row EXCEPT !.pay = IF j.pay # NoPay THEN j.pay ELSE row.pay,
                             !.status = IF MarksPaid(j) THEN "APPROVED" ELSE row.status]]
    /\ store' = [store EXCEPT !.status = "ACTIVE", !.plan = "paid", !.sub = "authorized",
                   !.due = j.date]
    /\ granted' = granted + 1
    /\ Done(w)
    /\ UNCHANGED <<now, gateway>>

-----------------------------------------------------------------------------
(* BillingCronService.rodar: charge first, then the rule of the arrears *)

\* Mutant: in arrears as soon as the next charge is due.
OverdueEarly(day) == store.due # 0 /\ store.due <= day + Ahead

Overdue(day) == store.due # 0 /\ store.due <= day

\* emitirCobrancasPix with decidirCobrancaPix.
ShouldCharge ==
    /\ store.method = "PIX" /\ store.status \in {"ACTIVE", "TRIAL", "PAST_DUE"}
    /\ store.due # 0 /\ now + Ahead >= store.due
    /\ ~HasOpenPix

CronCharges ==
    /\ "cron" \in Ops /\ job[Cron].pc = "idle"
    /\ IF ShouldCharge /\ Room THEN Goto(Cron, "emit") ELSE Done(Cron)
    /\ UNCHANGED <<now, rows, gateway>>

\* sweep(): its now is the day the run came to it.
CronMoves(pc, candidate, free, next) ==
    /\ job[Cron].pc = pc
    /\ Goto(Cron, IF FreePlan /\ candidate THEN free ELSE next)
    /\ UNCHANGED <<now, rows, gateway>>

CronFrees(pc, next) ==
    /\ job[Cron].pc = pc
    /\ store' = Free(store, FALSE)
    /\ Goto(Cron, next)
    /\ UNCHANGED <<now, inv, granted, gateway>>

CronEndsTrials == CronMoves("tests", store.status = "TRIAL" /\ Overdue(job[Cron].date),
                           "freetest", "pastdue")

\* Mutant: the stores on trial are left to the free plan.
MarkActiveOnly ==
    /\ job[Cron].pc = "pastdue"
    /\ store' = IF store.status = "ACTIVE" /\ Overdue(job[Cron].date)
                THEN [store EXCEPT !.status = "PAST_DUE"] ELSE store
    /\ Goto(Cron, "late")
    /\ UNCHANGED <<now, inv, granted, gateway>>

CronMarksPastDue ==
    /\ job[Cron].pc = "pastdue"
    /\ store' = IF store.status \in {"ACTIVE", "TRIAL"} /\ Overdue(job[Cron].date)
                THEN [store EXCEPT !.status = "PAST_DUE"] ELSE store
    /\ Goto(Cron, "late")
    /\ UNCHANGED <<now, inv, granted, gateway>>

\* The cut-off lies Grace days back.
Late == store.status = "PAST_DUE" /\ store.due # 0 /\ store.due + Grace <= job[Cron].date

CronFindsLate == FreePlan /\ CronMoves("late", Late, "freelate", "end")

CronSuspends ==
    /\ ~FreePlan /\ job[Cron].pc = "late"
    /\ store' = IF Late THEN [store EXCEPT !.status = "SUSPENDED"] ELSE store
    /\ Goto(Cron, "end")
    /\ UNCHANGED <<now, inv, granted, gateway>>

CronEnds ==
    /\ job[Cron].pc = "end"
    /\ job' = [job EXCEPT ![Cron] = Idle]
    /\ UNCHANGED <<now, rows, gateway>>

CronStep ==
    \/ CronCharges \/ Emit(Cron)
    \/ CronEndsTrials \/ CronFrees("freetest", "pastdue") \/ CronMarksPastDue
    \/ CronFindsLate \/ CronFrees("freelate", "end") \/ CronSuspends \/ CronEnds

-----------------------------------------------------------------------------
Init ==
    /\ now = 1
    /\ \E status \in {"TRIAL", "ACTIVE"}, due \in 2..3 :
         store = [status |-> status, due |-> due, plan |-> "paid", method |-> "CARD",
                  pre |-> 0, sub |-> "none"]
    /\ inv = [i \in Invoice |-> NoInvoice]
    /\ charge = [i \in Invoice |-> "none"]
    /\ pre = [i \in Invoice |-> [status |-> "none", charges |-> 0]]
    /\ job = [w \in Processes |-> Idle]
    /\ granted = 0

NextDay == now < LastDay /\ now' = now + 1 /\ UNCHANGED <<rows, gateway, job>>

Request(w) ==
    \/ SubscribeWithPix(w) \/ GeneratePix(w) \/ Checkout(w) \/ SubscribeCard(w)
    \/ CancelSubscription(w) \/ ChooseFree(w) \/ ViewPlan(w)

Notify(w) ==
    \E i \in Invoice : \/ NotifyPix(w, i) \/ NotifyPreapproval(w, i) \/ SyncInvoice(w, i)
                       \/ \E n \in 1..MaxCharges : NotifyCharge(w, i, n)

Work(w) ==
    \/ SetMethod(w) \/ Emit(w)
    \/ CancelAndCreate(w) \/ PostPreapproval(w) \/ Link(w)
    \/ SaveCancelled(w) \/ SaveFree(w) \/ ViewFrees(w) \/ ViewMarksPastDue(w)
    \/ ApplyPayment(w) \/ ApplyRecurring(w) \/ ReadPreapproval(w) \/ Demote(w) \/ Adopt(w)
    \/ LoadInvoice(w) \/ ReadDue(w) \/ CommitGrant(w)

MercadoPago ==
    \E i \in Invoice : PayPix(i) \/ ExpirePix(i) \/ ChangePreapproval(i) \/ ChargeCard(i)

\* The process dies; its transaction, if any, is rolled back.
Crash(w) ==
    /\ "lost" \in Ops /\ job[w].pc # "idle"
    /\ job' = [job EXCEPT ![w] = Idle]
    /\ UNCHANGED <<now, rows, gateway>>

Next ==
    \/ NextDay \/ MercadoPago \/ CronStep
    \/ \E w \in Desks : Request(w)
    \/ \E w \in Hooks : Notify(w)
    \/ \E w \in Workers : Work(w)
    \/ \E w \in Processes : Crash(w)

Spec == Init /\ [][Next]_vars

\* Mercado Pago repeats a notification until it is answered, the interval of
\* the cron comes round, a handler goes on until it ends, a day ends.
FairSpec ==
    /\ Spec /\ WF_vars(NextDay) /\ WF_vars(CronStep)
    /\ \A w \in Workers : WF_vars(Work(w))
    /\ \A i \in Invoice : SF_vars(\E w \in Hooks : NotifyPix(w, i))

-----------------------------------------------------------------------------
(* Properties *)

\* emitirCobrancaPix: "duas cobrancas abertas para o mesmo mes e o caminho
\* para o lojista pagar duas vezes".  However many clicks and cron runs meet,
\* the merchant never holds two Pix codes that can both be paid.
OnePayable == Cardinality({i \in Invoice : Payable(i)}) <= 1

\* What the merchant has paid for: Pix charges, and for each subscription
\* its monthly charges, the authorisation counting as the first of them.
PixPaid == {i \in Invoice : charge[i] = "approved"}
CardPaid == {m \in Invoice \X (1..(MaxCharges + 1)) :
               pre[m[1]].status # "none" /\ (m[2] = 1 \/ m[2] <= pre[m[1]].charges)}
Paid == Cardinality(PixPaid) + Cardinality(CardPaid)

\* No period is given away: repeated, late and crashed webhooks add to
\* planDueAt at most one period per payment.
GrantedWithinPaid == granted <= Paid

\* The cron takes nothing from a store whose period is not over, also when it
\* is paid for while the cron is at it.
CronSparesPaid ==
    [][CronStep /\ store.due > now => store' = store]_vars

\* No notice of a cancelled or paused subscription puts a store in arrears
\* while its period is not over, however late it comes and whichever
\* subscription it is of ("Mantem ACTIVE ate o vencimento ja pago").
PaidNotInArrears ==
    [][store.due > now /\ store.status # "PAST_DUE" => store'.status # "PAST_DUE"]_vars

\* "Nao rebaixa authorized -> pending": a late answer of Mercado Pago never
\* takes the store's own subscription back to pending, as long as notices are
\* handled one at a time (the condition is tested on a row that was read
\* before, and the row is written by id).
NoDowngrade ==
    [][store.sub = "authorized" /\ store'.pre = store.pre => store'.sub # "pending"]_vars

\* Every Pix paid is noted on its invoice, whatever was lost before.
PixPaidIsNoted ==
    \A i \in Invoice : charge[i] = "approved" ~> inv[i].status = "APPROVED"

\* A store in arrears beyond the grace does not stay as it was.
ArrearsEnd ==
    (store.due # 0 /\ store.due + Grace <= now /\ store.status # "SUSPENDED")
        ~> (store.due = 0 \/ store.due > now \/ store.status = "SUSPENDED")
=============================================================================
