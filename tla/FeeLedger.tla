----------------------------- MODULE FeeLedger -----------------------------
(***************************************************************************)
(* The platform's commission: the ledger PlatformFeeEntry                  *)
(* (api/src/platform-fee/livro.ts) and the reconciliation that writes it   *)
(* (api/src/payments/conciliacao-comissao.service.ts), fed by webhooks     *)
(* through the pg-boss queue and by the hourly safety sweep.               *)
(*                                                                         *)
(* Amounts are cents.  A payment's refunds are the sequence of their       *)
(* amounts; a refund's position stands for its id.                         *)
(***************************************************************************)
EXTENDS Integers, Sequences, FiniteSetsExt, Functions

CONSTANTS
    Payments,      \* payments of orders that carry a commission
    total,         \* transaction_amount of a payment
    fee,           \* the application_fee Mercado Pago withholds of it
    expected,      \* platformFeeCents, the commission noted on the order
    Parts,         \* amounts a refund may have
    MaxChanges,    \* bound: refunds and disputes of one payment
    Workers,       \* server processes that work the queue
    MaxFailures    \* bound: jobs that fail or whose process dies

ASSUME FeeAssumption ==
    /\ total \in Nat \ {0} /\ fee \in 1..(total - 1) /\ expected \in Nat
    /\ Parts \subseteq Nat \ {0}
    /\ MaxChanges \in Nat /\ MaxFailures \in Nat

VARIABLES
    gateway,    \* the payments at Mercado Pago
    order,      \* the order of each payment, as far as the sweep reads it
    ledger,     \* cents of each entry, by idempotencyKey; 0 is no such entry
    queued,     \* payments with a job waiting in the queue
    job,        \* per process: the job it runs
    failures    \* bound

vars == <<gateway, order, ledger, queued, job, failures>>

-----------------------------------------------------------------------------
(* livro.ts *)

\* JA_APROVADO: the money came in, so the commission was withheld.
WasApproved(p) == p.status \in {"approved", "refunded", "charged_back", "in_mediation"}

Keys == {<<"charge", 0>>, <<"rest", 0>>, <<"chargeback", 0>>, <<"reverted", 0>>}
            \cup {<<"refund", i>> : i \in 1..MaxChanges}

\* What was refunded of a payment after its first i refunds.
RefundedUpTo(p, i) == MapThenSumSet(LAMBDA j : p.refunds[j], 1..i)

Round(a, b) == (2 * a + b) \div (2 * b)

\* Mutant: each refund's part is rounded on its own.
RoundedApart(p, i) == MapThenSumSet(LAMBDA j : Round(fee * p.refunds[j], total), 1..i)

\* acumulado: the commission given back after the first i refunds, rounded
\* once on the running total.
GivenBack(p, i) == Min({fee, Round(fee * RefundedUpTo(p, i), total)})

\* lancamentosEsperados: the entries the ledger should have, 0 for none.
Expected(p, known) ==
    LET refunds == 1..Len(p.refunds)
        partOf(i) == GivenBack(p, i) - GivenBack(p, i - 1)
        given == GivenBack(p, Len(p.refunds))
        left == fee - (IF p.status = "refunded" THEN fee ELSE given)
    IN IF ~WasApproved(p) THEN [k \in Keys |-> 0] ELSE
       [k \in Keys |->
          CASE k = <<"charge", 0>> -> fee
            [] k[1] = "refund" -> IF k[2] \in refunds THEN -partOf(k[2]) ELSE 0
            [] k = <<"rest", 0>> -> IF p.status = "refunded" /\ given < fee
                                 THEN given - fee ELSE 0
            [] k = <<"chargeback", 0>> -> IF p.status = "charged_back" THEN -left ELSE 0
            [] k = <<"reverted", 0>> ->
                 IF p.status = "approved" /\ <<"chargeback", 0>> \in known THEN left ELSE 0]

\* createMany with skipDuplicates: an entry is only ever added.
Post(p, entries) ==
    ledger' = [ledger EXCEPT ![p] =
                 [k \in Keys |-> IF @[k] # 0 THEN @[k] ELSE entries[k]]]

Posted(p) == {k \in Keys : ledger[p][k] # 0}
Net(p) == SumFunctionOnSet(ledger[p], Keys)

-----------------------------------------------------------------------------
(* Mercado Pago *)

Become(p, status) == gateway' = [gateway EXCEPT ![p].status = status]
Changes(p) == Len(gateway[p].refunds) + gateway[p].disputes
Elsewhere == UNCHANGED <<order, ledger, queued, job, failures>>

Decide(p) ==
    /\ gateway[p].status = "pending"
    /\ \E s \in {"approved", "rejected"} : Become(p, s)
    /\ Elsewhere

\* A refund, by the store or from the panel; the last part makes it full,
\* and the list of a payment refunded in full may lack it.
Refund(p) ==
    LET g == gateway[p]  refunded == RefundedUpTo(g, Len(g.refunds)) IN
    /\ g.status = "approved" /\ Changes(p) < MaxChanges
    /\ \E part \in Parts :
         /\ refunded + part <= total
         /\ \/ gateway' = [gateway EXCEPT ![p].refunds = Append(@, part),
                 ![p].status = IF refunded + part = total THEN "refunded" ELSE @]
            \/ refunded + part = total /\ Become(p, "refunded")
    /\ Elsewhere

\* The card's holder disputes the payment; the store may win, also later.
Dispute(p) ==
    /\ gateway[p].status = "approved" /\ Changes(p) < MaxChanges
    /\ gateway' = [gateway EXCEPT ![p].status = "in_mediation", ![p].disputes = @ + 1]
    /\ Elsewhere
Lose(p) ==
    gateway[p].status = "in_mediation" /\ Become(p, "charged_back") /\ Elsewhere
Win(p) ==
    gateway[p].status \in {"in_mediation", "charged_back"} /\ Become(p, "approved") /\ Elsewhere

-----------------------------------------------------------------------------
(* The webhook and the queue *)

\* What handleWebhook makes of the order: partial refunds and disputes under
\* way leave it alone, and an order is approved once (paidAt).
Noted(p) ==
    LET g == gateway[p] IN
    CASE g.status \in {"refunded", "charged_back"} -> [order[p] EXCEPT !.status = "REFUNDED"]
      [] g.status = "approved" /\ g.refunds = <<>> /\ ~order[p].paid ->
           [order[p] EXCEPT !.status = "APPROVED", !.paid = TRUE]
      [] OTHER -> order[p]

\* A notification: the job goes to the queue, unless the queue refuses it
\* (agendar never throws), and then the order is written, unless the handler
\* dies.  A job already waiting is not doubled (singletonKey).
Webhook(p) ==
    /\ gateway[p].status # "pending"
    /\ queued' \in {queued, queued \cup {p}}
    /\ order' \in {order, [order EXCEPT ![p] = Noted(p)]}
    /\ UNCHANGED <<gateway, ledger, job, failures>>

\* Mutant: only approved orders are looked for.
ForgottenApproval(p) == order[p].status = "APPROVED" /\ ~order[p].charged

\* varrer: what the queue let slip, an approved order without a commission
\* noted or a refunded one without an entry that says so.
Forgotten(p) ==
    \/ order[p].status = "APPROVED" /\ ~order[p].charged
    \/ /\ order[p].status = "REFUNDED" /\ order[p].charged
       /\ ~\E k \in Posted(p) : k[1] \in {"refund", "rest", "chargeback"}

Sweep ==
    /\ \E p \in Payments : Forgotten(p) /\ p \notin queued
    /\ queued' = queued \cup {p \in Payments : Forgotten(p)}
    /\ UNCHANGED <<gateway, order, ledger, job, failures>>

-----------------------------------------------------------------------------
(* conciliar *)

Idle == [at |-> "idle"]

\* The GET of the payment: what it answers is used until the end.
Start(w) ==
    /\ job[w].at = "idle"
    /\ \E p \in queued :
         /\ queued' = queued \ {p}
         /\ job' = [job EXCEPT ![w] = [at |-> "keys", payment |-> p, read |-> gateway[p]]]
    /\ UNCHANGED <<gateway, order, ledger, failures>>

\* The keys already in the ledger, then what is missing.
ReadKeys(w) ==
    /\ job[w].at = "keys"
    /\ job' = [job EXCEPT ![w] =
         [at |-> "post", payment |-> job[w].payment, read |-> job[w].read,
          entries |-> Expected(job[w].read, Posted(job[w].payment))]]
    /\ UNCHANGED <<gateway, order, ledger, queued, failures>>

\* Mutant: entries are added whether the key is there or not.
WriteTwice(w) ==
    LET p == job[w].payment IN
    /\ job[w].at = "post"
    /\ ledger' = [ledger EXCEPT ![p] = [k \in Keys |-> @[k] + job[w].entries[k]]]
    /\ order' = [order EXCEPT ![p].charged = TRUE]
    /\ job' = [job EXCEPT ![w] = Idle]
    /\ UNCHANGED <<gateway, queued, failures>>

\* The transaction: the entries, and what was withheld noted on the order.
WriteEntries(w) ==
    LET p == job[w].payment IN
    /\ job[w].at = "post"
    /\ Post(p, job[w].entries)
    /\ order' = [order EXCEPT ![p] =
         [@ EXCEPT !.charged = @ \/ WasApproved(job[w].read),
                   !.mismatch = @ \/ (WasApproved(job[w].read)
                                      /\ fee - expected \notin -1..1)]]
    /\ job' = [job EXCEPT ![w] = Idle]
    /\ UNCHANGED <<gateway, queued, failures>>

\* An error or a dead process: pg-boss puts the job back, at least once.
JobFails(w) ==
    /\ job[w].at # "idle" /\ failures < MaxFailures   \* below retryLimit
    /\ queued' = queued \cup {job[w].payment}
    /\ job' = [job EXCEPT ![w] = Idle]
    /\ failures' = failures + 1
    /\ UNCHANGED <<gateway, order, ledger>>

\* resolverDivergencia, by the platform's administrator.
ResolveMismatch(p) ==
    /\ order[p].mismatch
    /\ order' = [order EXCEPT ![p].mismatch = FALSE]
    /\ UNCHANGED <<gateway, ledger, queued, job, failures>>

-----------------------------------------------------------------------------

Init ==
    /\ gateway = [p \in Payments |-> [status |-> "pending", refunds |-> <<>>, disputes |-> 0]]
    /\ order = [p \in Payments |-> [status |-> "PENDING", paid |-> FALSE,
                              charged |-> FALSE, mismatch |-> FALSE]]
    /\ ledger = [p \in Payments |-> [k \in Keys |-> 0]]
    /\ queued = {}
    /\ job = [w \in Workers |-> Idle]
    /\ failures = 0

Work(w) == Start(w) \/ ReadKeys(w) \/ WriteEntries(w)

Next ==
    \/ \E p \in Payments :
         \/ Decide(p) \/ Refund(p) \/ Dispute(p) \/ Lose(p) \/ Win(p)
         \/ Webhook(p) \/ ResolveMismatch(p)
    \/ Sweep
    \/ \E w \in Workers : Work(w) \/ JobFails(w)

Spec == Init /\ [][Next]_vars

\* The queue's workers poll and the sweep comes round every hour; webhooks and
\* customers owe nothing.
FairSpec == Spec /\ WF_vars(Sweep) /\ \A w \in Workers : WF_vars(Work(w))

-----------------------------------------------------------------------------
(* Properties *)

RefundEntries == {k \in Keys : k[1] \in {"refund", "rest"}}

\* The refunds in the ledger never give back more than the commission charged
\* (livro.ts: the running total is rounded once), whatever parts a payment is
\* refunded in, repeated and late jobs and disputes included; and what is kept
\* of a payment nobody disputed is never negative nor more than was withheld,
\* at any moment between the jobs.
WithinFee ==
    \A p \in Payments :
        /\ SumFunctionOnSet(ledger[p], RefundEntries) >= -fee
        /\ gateway[p].disputes = 0 => Net(p) \in 0..fee

\* What Mercado Pago keeps of the commission of payment g for the platform.
Withheld(g) ==
    CASE g.status \in {"approved", "in_mediation"} ->
           fee - Min({fee, Round(fee * RefundedUpTo(g, Len(g.refunds)), total)})
      [] OTHER -> 0

\* A reconciliation that read the payment as it still is leaves the ledger at
\* what Mercado Pago keeps, whichever jobs ran before it, in whatever order
\* and however stale what they had read, as long as nobody disputed it.
ReconcilesExactly ==
    [][\A w \in Workers, p \in Payments :
          /\ job[w].at = "post" /\ job'[w].at = "idle" /\ failures' = failures
          /\ job[w].payment = p /\ job[w].read = gateway[p] /\ gateway[p].disputes = 0
          => Net(p)' = Withheld(gateway[p])]_vars

\* Every approval ends up in the ledger, or is refunded, and so does a refund in
\* one part of an order whose commission is in it, even if the queue refused
\* every notification of them.
LedgerCatchesUp ==
    \A p \in Payments :
        /\ order[p].status = "APPROVED" ~>
             order[p].status # "APPROVED" \/ <<"charge", 0>> \in Posted(p)
        /\ /\ order[p].status = "REFUNDED" /\ order[p].charged
           /\ gateway[p].refunds \in {<<>>, <<total>>} /\ gateway[p].disputes = 0
           ~> Net(p) = 0
=============================================================================
