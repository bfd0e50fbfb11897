# Vendira: orders, payments, commission, billing and delivery in TLA+

This directory models the parts of the store platform (`api/`, a NestJS server over
PostgreSQL, the gateway Mercado Pago and other services; `web/`, the shop) in which several
requests, webhooks, periodic jobs or browser tabs touch the same state. It holds TLA+ modules, TLC
configurations and proofs checked by TLAPS.

## The system: components, state, hard behaviour

| component | state | operations | talks to | what is hard | what must be true |
|---|---|---|---|---|---|
| Orders (`api/src/orders`) | `Order` rows: status, paymentStatus, the flags `stockReserved` and `couponReserved`, dates, refund fields | checkout, expiry sweep, approval (`fulfillPaidOrder`), revival, staff and bulk status, delivery, refund requests and returns | stock, coupons, payments, mail, printer, label | every handler is several statements; the checks are on rows read before | units never duplicated, effects once, a refund means money went back |
| Payments (`api/src/payments`) | the order's `mpPaymentId`; the payment itself lives at the gateway | preference and Brick, webhook, refund | gateway, orders, ledger queue | webhooks repeat, reorder and race with the Brick's answer and with refunds | a paid order stays paid, money and goods are settled in order |
| Stock (`products`) | `Product.stock`, `ProductVariant.stock` | conditional decrement, increment, sum of the variants | orders | the last unit; a sum written from a read | shelf + reservations = what the store had |
| Coupons (`api/src/coupons`) | `usedCount`, `maxUses` | reserve, release, validate | orders | the last use; limits per customer counted before the write | orders holding a use never exceed `usedCount`, nor it `maxUses` |
| Commission ledger (`api/src/platform-fee`, `conciliacao-comissao`) | ledger entries per payment, a reconciliation queue | post fee, post reversal, reread the payment | gateway, queue | at-least-once jobs, refunds before approvals | entries add up to what the gateway withheld |
| Billing of stores (`api/src/billing`) | store plan and status, invoices, subscription | activate, Pix invoice of the month, reminders, move to free plan | gateway, cron, mail | cron races with owner and webhook; late payments | a paid period is honoured once |
| Locks, sweeps, queue (`fila`, `sweep-runner`) | advisory locks, timers, pg-boss jobs | take, release, run | everything periodic | lock lost with its connection; jobs repeated | one sweep at a time per lock |
| Mercado Pago OAuth | tokens per store | connect, refresh | gateway | a refresh token is used up by its first use | the stored token is the newest |
| Labels and tracking (`api/src/shipping`) | label fields and code of the order, parcels at Melhor Envio | buy, print, webhook, poll, mark | carriers, orders | automatic and manual purchase; notices late, repeated, out of order | a second label only for a cause; delivered only what came to the door |
| Reminders (`carrinho-abandonado`, `avise-me`) | sent-at marks | sweep, mark, send, unmark | mail | crash or failure between mark and send; full pages | not more mails than asked for; who waits is told |
| Catalogue (`products`) | products, variants and their stock | the panel's form, `syncVariants` | orders | a form saved over sales; two transactions that sum | no variant's unit out of nothing; the sum heals |
| Fiscal documents (`invoices`) | `Invoice`, one per order; the store's number sequence | issue, cancel | Focus NFe, orders | automatic and manual issue; lost answers | a number is transmitted once; the row is right |
| Prices (`combo.ts`, `desconto-pix.ts`, `coupons`, webhook) | amounts of the order | combo, coupon, Pix discount, comparison with what was paid | orders, gateway | rounding, tolerance, an offer applied later | the total is what was paid |
| Shop (`web/src/app/loja`, `lib/cart.ts`) | bag in localStorage, state of each page | pay, retry, poll, recover a cart | api | several requests per page, answered in any order | a visit pays once; success means charged, or taken for paid by the staff |
| Stores, templates, plan limits, dashboard, mail, quotes, auth, the panel's pages | rows of one owner, pages | CRUD, rendering | | none of its own | |

`PROJECT.json` lists every component with its status, and under `hazards` each place
where the code can go wrong in a way a test would hardly reach.

## Plan

Done:

1. `Orders`, `Payments`, `OrderGuarantees`, with proofs.
2. `FeeLedger`: `livro.ts`, the reconciliation, its queue and its sweep, with proofs.
3. `Billing`: invoices, activation, Pix of the month, card subscriptions, the cron's transitions,
   with proofs.
4. `SweepLock`, which refines `SoleRunner`, with proofs.
5. `Shipping`: labels and tracking, with proofs.
6. `Catalogue`, `Notices`, `Storefront`, `Prices`, `FiscalNotes` and `MpConnection`, with proofs.

Open, in order:

1. `Reservation`: an abstract ledger of units (taken, held, given back) that `Payments`
   is shown to implement.
2. The commission's base and minimum (`calcularComissao`), its release per store.

## Modules

| module | what it holds |
|---|---|
| `Orders` | the orders service with the stock and the coupon: state, one action per database statement or `$transaction` |
| `Payments` | extends it with the payment handlers and the gateway; `Init`, `Next`, `Spec`, `FairSpec` |
| `OrderGuarantees` | the properties of both, each with the code behaviour it is about |
| `OrderProofs` | proofs: the type invariant; the safety invariants of handlers that overlap |
| `RaceProofs` | proofs: what overlapping handlers keep but for one named race each |
| `FeeLedger` | the commission ledger: what the gateway does to a payment, webhooks, the queue, reconciliation jobs, the safety sweep; its properties |
| `Billing` | the monthly fee of a store: plan, invoices, Pix charges, card subscriptions, webhooks, the hourly run; its properties |
| `BillingProofs` | proofs: one code to pay; a period per payment; the cron and the paid period; arrears and subscriptions |
| `SoleRunner` | what the lock of the periodic tasks promises: one process at a time at the task |
| `SweepLock` | the lock itself, the runner that takes it, and the reminder task that runs under it |
| `SweepProofs` | proofs: types, unique reminders, `SweepLock` implements `SoleRunner` |
| `Shipping`, `ShippingProofs` | the label, the parcel's way, notices and sweep of tracking, the staff; proofs of its two invariants |
| `Catalogue` | the stock of variants in Postgres transactions, and `Product.stock`, their sum |
| `Notices` | the two mails a store sends by itself |
| `FiscalNotes` | the fiscal note of an order |
| `MpConnection` | the tokens of Mercado Pago |
| `PartnerProofs` | proofs about these two: numbers, retransmissions and rows of notes; a valid token is kept |
| `Storefront` | a customer's tabs: bag, checkout, page of the order |
| `Prices` | the amounts of one order, from the bag to the payment |
| `ShopProofs` | proofs about `Storefront`, `Notices` and `Catalogue` |
| `MoneyProofs` | proofs about `FeeLedger` and `Prices` |
| `MCOrders`, `MCFeeLedger`, `MCBilling`, `MCServices`, `MCSweeps` | instances for TLC; `MCServices` puts six modules side by side, `MCSweeps` two with their fairness |

`Shipping`, and for a counterexample `Storefront`, are run directly.

### How state and actions correspond to the code

A handler runs in a worker `w`. `pc[w]` names the next database statement of the handler and
`job[w]` the local variables that live across an `await`: the order, the payment, what a read
returned (`status`, `changed`), the orders a sweep still has to give back (`todo`). One action is
one statement or one `$transaction`, because between two of them any other request of the
Node process, or of another one, may run. Three exceptions take a read and the call that
starts the handler in one action, where nothing is read twice: `AdminStatus`, `ApproveRefund`,
`PayCall`.

| action | code |
|---|---|
| `Create` | `create`, its transaction 397-444 (the reads before it decide nothing that the transaction does not decide again) |
| `Sweep`, `Expire` | `expireAbandonedUnpaidOrders`: SELECT, then UPDATE by id |
| `ClaimStock`, `ReturnStock` | `restockOrderItems`: compare-and-swap of the flag, then the transaction |
| `ClaimCoupon`, `ReleaseCoupon` | `releaseOrderCoupon` and `releaseUsage` |
| `FulfillRead`, `Revive`, `MarkApproved`, `FulfillStatus`, `FulfillClaim`, `RecordPayment` | the statements of `fulfillPaidOrder` |
| `AdminStatus`, `AdminWrite`, `BulkStatus` | `updateStatus`, `bulkUpdateStatus` |
| `Confirm*`, `Request*`, `Reject*`, `Pending*`, `Return*`/`Received*` | delivery confirmed by the customer, and the refund request's life |
| `PayCall`, `ExpireOne`, `PayPost` | `loadOrderForPay`, then the Brick or a preference |
| `Webhook`, `HookRead`, `HookRefund`, `WriteRejected`, `WritePending` | `handleWebhook` |
| `ApproveRefund`, `RefundRead`, `RefundPost`, `RefundWrite` | `approveRefund`, `refundOrder` |
| `CustomerPays`, `Settle`, `RefundOutside` | the gateway, external |
| `Crash`, `SweepFails`, `BulkFails` | a process that dies or a statement that throws, and the two places where the code catches it |

Abstractions: an item is one unit of a product and products have no variants (they are in
`Catalogue`); amounts are left out (they are in `Prices`), so partial refunds, underpayment and the
Pix discount do not occur; the clock is the flag `aged` (older than `UNPAID_ORDER_TTL_MS`) and three
values of `deliveredAt`; mail, printer, NFC-e (`FiscalNotes`) and label (`Shipping`) are the counter
`effects`, fired where the code fires them. The gateway's statuses `refunded` and `charged_back`,
and an approved payment refunded in full, are one.

Restocking several orders goes in any order (`\E o \in todo`), where the code follows the array
of the SELECT, whose order the database does not promise.

### The commission ledger

A payment is what Mercado Pago answers about it: a status and the sequence of its refunds. An
entry of `PlatformFeeEntry` is its amount at its `idempotencyKey`, and `Expected` is
`lancamentosEsperados`: the charge, one entry per refund (rounded on the running total), the
rest of a full refund whose list is incomplete, the chargeback and its reversal.

| action | code |
|---|---|
| `Decide`, `Refund`, `Dispute`, `Lose`, `Win` | the gateway, external |
| `Webhook` | `handleWebhook`: `agendar`, then the order's update; either may get lost |
| `Start`, `ReadKeys`, `WriteEntries` | `conciliar`: fetch the payment, read the keys, `createMany` with the order's mark |
| `Sweep` | `varrer`: approved orders not conferred, refunded orders without an entry of it |
| `JobFails` | a job that throws or whose process dies: pg-boss runs it again |
| `ResolveMismatch` | `resolverDivergencia` by the platform's staff |

### The monthly fee

One store, one paid plan and, by `FreePlan`, a free one; days are numbers. Each await ends an
action, as with the orders; `job[w]` holds what the handler read. Ops of an instance name which
of the merchant's requests exist in it, and `"lost"` whether an answer of Mercado Pago may be
lost and a process may die.

| action | code |
|---|---|
| `SubscribeWithPix`, `SetMethod`, `GeneratePix`, `ReadStore`, `LockAndCreate`, `PostPix`, `SaveQr`, `DropInvoice` | `subscribeWithPix`, `POST pix/gerar` and `emitirCobrancaPix`, whose transaction locks the store |
| `Checkout`, `SubscribeCard`, `CancelAndCreate`, `PostPreapproval`, `Link` | `createCheckout` and `createAuthorizedSubscription` |
| `CancelSubscription`, `SaveCancelled`, `ChooseFree`, `SaveFree` | `cancelSubscription`, `moverParaGratis` |
| `ViewPlan`, `ViewFrees`, `ViewMarksPastDue` | `mySubscription`, which applies the arrears rule while it reads |
| `NotifyPix`, `ApplyPayment` | `applyPayment` |
| `NotifyCharge`, `ApplyRecurring` | `applyAuthorizedPayment` |
| `NotifyPreapproval`, `SyncInvoice`, `ReadPreapproval`, `Demote`, `Adopt` | `applyPreapproval`, `syncInvoice` |
| `LoadInvoice`, `ReadDue`, `CommitGrant` | `activateStoreFromInvoice`: the read before the transaction, its read of the store, its commit; a row it has written is locked until then |
| `CronCharges` ... `CronEnds` | `BillingCronService.rodar`: `emitirCobrancasPix`, then `sweep` |
| `PayPix`, `ExpirePix`, `ChangePreapproval`, `ChargeCard` | Mercado Pago, external |

`syncInvoice` and `syncAfterMpReturn` call the webhook handlers one after the other and are a
sequence of deliveries here. `granted` counts periods added; nothing reads it but the bound.

### The lock of the periodic tasks

A process has one connection for its locks and one runner. `SweepLock` follows one task,
`lembrarVencidas`; the lock is the same for the others.

| action | code |
|---|---|
| `Trigger`, `Stop`, `Restart` | `SweepRunner`: interval, `stop()`, `start()` |
| `TryLock`, `ConnectFails` | `seLivre` up to the answer; a failed connection ends the round |
| `ReadOverdue`, `Mark`, `Send`, `EndTask`, `TaskFails` | `lembrarVencidas`: SELECT, conditional UPDATE, mail |
| `Unlock`, `UnlockFails` | the `finally` of `seLivre`, whose error is swallowed |
| `Drop` | the connection ends and Postgres frees its locks; `conexao` forgets the client |
| `Close`, `Crash` | the process ends, in order or not, and its successor starts |

An advisory lock is re-entrant: a release that fails leaves the lock with the process, whose next
round takes it once more (`holds` counts). Other processes then skip their rounds until that
connection ends; the work is done by the holder. A connection that drops in the middle of the task
frees the lock and nothing tells the task: `AtTask`, the abstract variable of the refinement, is the
set of processes at the task whose connection still stands.

### Labels and tracking

One process per worker as with the orders, and `Sweeper`, the process that holds the lock of tracking.
A parcel stands for its id at Melhor Envio and for its tracking code.

| action | code |
|---|---|
| `StartLabel`, `Buy`, `Emit`, `StoreLabel`, `LabelFails` | `generateForOrder` and `createMelhorEnvioLabel`: the checks, cart and checkout, generate and print, the UPDATE by id |
| `Webhook`, `Link`, `ReadCurrent`, `Mark` | `handleMelhorEnvioWebhook`, `markShipped`, `markDelivered` |
| `SelectOpen`, `AskCarrier`, `AskFails` | `syncOpenShipments`: Melhor Envio, then the Correios |
| `UpdateStatus`, `StaffWrite` | `updateStatus`, in read and write |
| `Carry`, `Refunded`, `Crash` | the carrier, a refund (module `Payments`), a process that ends |

A parcel may be attempted before it is delivered. What the sweep is told of it (`Answers`) is read
from the code: Melhor Envio's status for an attempt is none that the code knows, so the Correios are
asked, and of their last event the code says delivered when its text includes "entregue" or its code
starts with BDE, BDI or BDR (`tracking.service.ts:397-412`), attempts that failed included.
`Correios` may therefore say delivered of an attempted parcel, or not.

### Variants

Handlers are Postgres transactions under READ COMMITTED: a row written is locked until the end,
another transaction that wants it waits and reads it again, and one of two that wait for each other is
rolled back (`Lock`, `Wants`, `Deadlocked`: the database, external).

| action | code |
|---|---|
| `Checkout`, `Line`, `LooseLine` | `create`, `reserveStock`: the conditional decrement, and the product's own counter for a variant that was deleted |
| `Revive`, `GiveBack`, `ReadItems` | `tryReviveCancelledOrder`, `restockOrderItems` |
| `ReadSum`, `WriteSum` | `syncProductStockFromVariants`: two statements |
| `OpenForm`, `Save` | the panel's product form, `updateProduct` and `syncVariants` |
| `Commit`, `Throws`, `Dies` | the end of a transaction |

### Notices

`since` has the alerts, or expired unpaid orders, by the time they were asked for. `Select` reads a
page of the oldest, `Look` decides which row is next, `Mark` is the conditional UPDATE, `Mail` or
`MailFails` the mail server's answer, which may be lost (`unsure`), `Unmark` what follows a failure:
the statements of `varrer` in `avise-me.service.ts` and `carrinho-abandonado.service.ts`, which
differ in who is worth a mail. `Lapse` makes a row older than `VALIDADE_MS`, or `JANELA_MS`. A page
is of the oldest rows whether or not they are worth a mail, so older rows that nothing moves can keep
newer ones from being read (`Crowded`).

### Fiscal notes

| action | code |
|---|---|
| `Issue`, `ReserveNumber`, `SavePending`, `SaveThrows` | `issueForOrder` up to the row: the check without a lock, `reserveInvoiceNumber`, create or update |
| `Transmit`, `StoreAnswer`, `AnswerLost` | the POST to Focus NFe and what is written of it, `mapFocusStatus` |
| `CancelNote`, `Delete`, `StoreCancelled` | `cancelInvoice` |
| `Settle`, `HandlerDies` | Focus NFe authorises or refuses a note in process; the process ends |

### Connection to Mercado Pago

`Callback`, `EnsureFreshToken`, `RequestToken`, `StoreToken`, `TokenLost`, `Disconnect` are
`handleCallback`, `ensureFreshToken` (called by `renovarVencendo` and before a charge or refund),
`requestToken`, the UPDATE, an answer or a process that is lost, and `disconnect`. A pair of tokens is
its account and a number; `live` are the refresh tokens Mercado Pago still takes.

### The shop

A tab has one page and up to `Slots` requests under way (`wire`). A request is sent, served with what
is true then, and answered later, in any order, or lost on its way there or back; a page that was left
drops the answers, the api has acted all the same. Nothing that is under way disables a form ("Trocar"
mounts another Brick meanwhile), and a page shows an answer when it comes, however old it is.

| action | code |
|---|---|
| `OpenCheckout`, `Pay`, `OrderCreated`, `PaymentOpened`, `Submit`, `Charged`, `Poll`, `OrderRead` | `checkout/page.tsx` |
| `OpenOrder`, `StartPayment`, `Submit`, `Charged`, `Retry`, `Poll`, `OrderRead` | `pedido/[orderId]/order-done-inner.tsx`: after each answer of the form the order is loaded again, and what the page shows comes from there |
| `OpenRecovery`, `Recover`, `Recovered` | the link of the abandoned cart's mail |
| `AddToCart`, `RemoveFromCart`, `ClearCart` | `lib/cart.ts` |
| `Leave`, `Lost` | the page is left; a request fails |
| `CreateOrder`, `OpenPayment`, `ChargeBrick`, `ReadOrder`, `OfferPaid`, `Expire` | of the api, what a page sees |
| `StaffSets` | `updateStatus` and its bulk form: paid, pending or cancelled, whatever was charged; PAID stands for PROCESSING, SHIPPED and DELIVERED too, which the pages show alike |

### Prices

Amounts are in cents. `Combo` is the greedy loop of `descontoDoComboCents` as a fold over the
products that give a discount; `ComboAsPromised` compares it with its doc comment, unit by unit.

| action | code |
|---|---|
| `AddLine`, `PlaceOrder` | the bag, and the amounts computed by `create` |
| `StartPay`, `SaveOffer`, `PostPayment`, `Refused`, `Confirm` | `processBrickPayment`: the discount for Pix is written to the order before the Pix is made |
| `PaymentWebhook`, `Apply`, `MarkRefunded` | `handleWebhook`, with its tolerance of a cent: where a difference is exactly one cent the floating-point comparison may come out either way, so both happen |
| `CustomerPays`, `RefundOutside`, `SetPercent`, `CallDies` | the gateway, its panel, the store's settings, a process that ends |

## What the runs check

Bounds of the order runs: one product with one unit, one payment, two workers unless said otherwise.
Two handlers are enough for a race between a read and a write; three calls allow a checkout's
payment, a duplicate and a competing handler, and the sweep and checkouts are not counted as calls.
One unit and one coupon use make every reservation compete.

### Orders and payments

| run | instance | shows |
|---|---|---|
| `OrdersConcurrent` | two orders with coupon, last unit, last use; sweep, payment, webhooks, payments noted by staff, refunds, crashes | `TypeOK`, `StockNeverInvented`, `CouponCovered`, `EffectsFireOnce` |
| `OrdersHandled` | one order; staff, single and bulk, refund and return flow, sweep, panel refunds, crashes; four calls | `RefundedMeansMoneyBack` (proved, like `StockNeverInvented` and `EffectsFireOnce`, for every such instance) |
| `OrdersSerial` | two orders, ONE worker, five calls, fairness, no crash | what overlaps can break: `StockExact`, `PaidHoldsStock`, `RefundAfterReturn`; and the liveness of the sweep, `AbandonedComesBack` |

The safety properties of `OrdersSerial` are ones the comments of the code promise. TLC checks them
with one handler at a time because overlapping handlers break them, as the same model shows with two
workers: two approved webhooks of an expired order both reserve its units and one set is lost
(`StockExact`), an approval that overlaps a give-back leaves a paid order without its units
(`PaidHoldsStock`), a request is written while a refund of its order is on the way
(`RefundAfterReturn`). What holds with overlaps is proved in `RaceProofs`, for any number of orders,
products, payments and handlers: each property fails by the race its theorem names, and in no other way.

That the sweep spares what is paid is false of the code, and a run of its own shows it:
`FindPaidExpired`, below. Nor does a paid order stay paid: the webhook writes the status of whichever
payment was notified last, and a second, pending one reopens the order; no text of the repository
says otherwise, so no run claims it. Besides, a refund in the gateway's panel restocks an order that was
shipped. The hazards in `PROJECT.json` name these at their lines.

### Commission ledger

A payment of four cents with a commission of two: with refunds of one, three and four cents the
rounding goes up, down and on the half, and two refunds make a full one. Two processes work the queue.

| run | instance | shows |
|---|---|---|
| `Ledger` | two changes at the gateway (refunds, dispute), one failure: the queue refuses a job, or a job fails | `WithinFee`, `ReconcilesExactly`, `LedgerCatchesUp` |

The second half of `WithinFee`, and `ReconcilesExactly`, are about undisputed payments: a dispute
lost, won again and followed by a full refund, of which the reconciliation sees only the first and
the last, leaves the chargeback and the refund in the ledger, a commission below zero.
`LedgerCatchesUp` asks it of refunds in one part: `varrer` looks for refunded orders without any
such entry and so misses the second part of a refund whose job was refused.

### Monthly fee

A period of three days, a charge one day ahead that is valid for two, one day of grace: an invoice can
expire before, on and after the due date, and arrears can begin and end within four days. Two
invoices are the least at which one may be paid while the other is made.

| run | instance | shows |
|---|---|---|
| `BillingPix` | merchant, page of plans, move to the free plan, cron, one webhook at a time, lost answers and crashes; four days | `OnePayable`, `GrantedWithinPaid` |
| `BillingCard` | checkouts and card's token, cancellations, syncs, two charges per subscription, within a paid-up day | `PaidNotInArrears`, `NoDowngrade` |
| `BillingLiveness` | Pix and cron, no free plan, no crash; four days | `CronSparesPaid`, `PixPaidIsNoted`, `ArrearsEnd` |

The limits matter, and the theorems below name the races behind them. `GrantedWithinPaid` is checked of
Pix: a subscription's authorisation and its first charge each add a period, every sync of a paid invoice
adds one, and so do two deliveries of one payment handled at the same moment; two payments applied at
once read the same due date and one period is lost. `CronSparesPaid` needs a catalogue without a free
plan: with one the sweep moves stores by id from a list it read before. `BillingCard` stays within one
day: once the due date may pass, a notice of cancellation that was read just before a payment is applied
writes PAST_DUE after it, and so does the page of plans. `NoDowngrade` is checked of one notice at a
time beside one request: it fails there when answers of Mercado Pago are lost, and when of two notices
handled at the same moment one has read "pending" before the authorisation and writes it after the other
(the condition is tested on the row as it was read). Two overlapping checkouts leave two subscriptions
that can be authorised.

### Periodic tasks

`Sweeps` runs `SweepLock` and `Notices`, one in each behaviour, with the fairness of both.

| task | instance | shows |
|---|---|---|
| `SweepLock` | two processes, two invoices, two faults: failed tasks and releases, crashes, dropped connections | `RemindedOnce`, `SoleRunnerSpec` (`SweepLock` implements `SoleRunner`), `EveryInvoiceMarked` |
| `Notices` | two alerts, one cart, one sweeper, a page of ONE row, two requests, two changes, two faults | `WaitersTold` |

A process whose connection has dropped may be at the task beside the next one: that is why
`RemindedOnce` is checked, and proved, without relying on the lock.

A page of one row stands for the page of 200: one older row fills it. `WaitersTold` promises a mail to
whom a page of older rows does not stay before for good, and no more is true: `varrer` takes the
200 oldest alerts and only then leaves out those of products still sold out, which are the oldest of
the next turn as well (`avise-me.service.ts:159-169`), although its comment says "quem esperava fica
sabendo logo" (18). It leaves out, too, whose product runs out again, who buys, rows that get too old,
and a sweeper that dies between mark and mail. Two sweepers at once are in `Services`, below.

### Labels and tracking

| run | instance | shows |
|---|---|---|
| `Shipping` | one order, two parcels that may be attempted before they are delivered, two workers and the sweeper, three calls, one fault | `PaidAgainForCause`, `DeliveredIsReal`, `DeliveryNoted` |

Two label calls and a notice are enough for a label that is stored over another and for a late notice
of a parcel that is no longer the order's; orders share nothing. The staff's statuses are kept to
PROCESSING there, since a DELIVERED written by hand is no claim about a parcel. `DeliveredIsReal` says
that a parcel of the order came to the door. That it was handed over would be false: the code takes
some failed attempts for deliveries, as said above, although its comment says "Só confia em eventos
explícitos de entrega." (`tracking.service.ts:365`).

### Six services side by side

`Services` runs six modules that share no variable. Each behaviour exercises one of them, named by
the variable `service` and chosen at the start, while the others stay at theirs: the states are the
sum, not the product, of the six, and a property of one is checked in all its behaviours.

| service | instance | properties |
|---|---|---|
| `FiscalNotes` | two orders, two handlers, three calls, one loss | `NumberedOnce`, `ResentForCause`, `NoteIsTrue` |
| `Catalogue` | two variants with two units and one, two orders of both in opposite order, two handlers, four calls, one death | `UnitsNotInvented`, `SumHeals` |
| `Notices` | one alert, one cart, two sweepers, two requests, two faults | `MailsWithinRequests` |
| `Storefront` | one order, two tabs with two requests each under way, two visits, one product added, two forms sent, one poll, one mishap | `OncePerVisit`, `SuccessIsCharged` |
| `MpConnection` | two accounts, two handlers, four calls, one lapse | `RefreshKept` |
| `Prices` | bags of up to four lines of three products, one of them at two prices, two of them giving discounts, two coupons, three calls, two payments, one event (refund, death, change of the percentage) | `ComboAsPromised`, `DiscountWithinGoods`, `NoneTurnedAway`, `TotalIsPaid` |

The opposite order of the two orders' lines is what makes Postgres roll one back. Two requests of an
alert are the least at which a mail could be sent for a request already answered. Two requests under way
let a second form go out before the first is answered, or a poll be answered after the form that came
later; two forms are the least at which a visit could pay twice. `OncePerVisit` allows one payment more
for each form sent over another, because neither the page nor `processBrickPayment` refuses it. The bags
hold every order of their lines, so the combo's loops meet lots and givers in every order; the two
coupons are for bags in which all three discounts occur, and the fixed one takes all that the combo
left. `Prices` leaves a change of the percentage out of two properties because the code does go wrong
there: `pixDiscount` is one column, a second Pix at another percentage overwrites it, and a first one
that is paid afterwards is turned away as underpaid.

### Disagreements with the code's own words

| run | violates | where |
|---|---|---|
| `FindPaidExpired` | `PaidNeverExpires`: "Cancela pedidos PENDING (status + pagamento)" (`orders.service.ts:95`) | `orders.service.ts:111` cancels by id what was read as unpaid (101): an order that was approved in between is cancelled, paid |
| `FindRecoveredTwice` | `RecoveredOnce`: `if (!naSacola.has(...))` | `checkout/page.tsx:125` looks at the bag of the first render, which `CartProvider.tsx:50` leaves empty |

### Conventions

Deadlock is not checked: with the calls used up and every order settled the system rests.
`Workers` are symmetric (the same code runs in each); the symmetry is not used with liveness.

Fairness (`FairSpec`): weak fairness of a started handler's next statement, because Node resumes a
handler when the database answers, and weak fairness of the sweep, which `SweepRunner` triggers
every five minutes. Nothing forces customers, staff or the gateway to act. No crash happens in
`OrdersSerial`: with one, what a handler was carrying back stays lost (see the hazards).

In the other modules: `FeeLedger` assumes that the queue's workers go on (pg-boss hands out a
job again until it is done) and that the hourly sweep runs, nothing about webhooks; `Billing` that
days end, the cron's run and started handlers go on, and, strongly, that a Pix charge's notification is
delivered (Mercado Pago repeats it until it is answered, and a desk may be busy in between);
`SweepLock` that intervals come round, statements are answered and a process that shuts down
is replaced, while failures are finitely many; `Shipping` that the sweep of tracking and started
handlers go on, nothing about notices; `Notices` that a sweep which has begun goes on (weakly) and
that each of the two sweeps has its turn again and again (strongly: in the model they share a process,
which one could keep busy; in the code each has a timer of its own).

Each property of a passing run has a mutant, an operator next to the definition it stands in for,
that breaks it: a flag tested but not cleared, a dropped condition, a forgotten write.

## What is proved

### Orders and payments

For any orders, products, payments, workers, items and limits (assumptions
`OrdersAssumption`, `PaymentsAssumption`: finite sets of orders and workers, natural stock):

| theorem | statement |
|---|---|
| `TypesHold` | `Spec => []TypeOK` |
| `ExistingHolds` | `Spec => []Existing`: handlers work on orders that were created, and carry real statuses |
| `NoUnitInvented` | `Spec => []StockNeverInvented` |
| `CouponNeverUndercounted` | `Spec => []CouponCovered` |
| `EffectsOnce` | `Spec => []EffectsFireOnce` |
| `RefundsAreReal` | `Spec => []RefundedMeansMoneyBack` |

`TypeOK` is not inductive: a worker at `returnStock` must be on an order (not on `NoOrder`) for
`items[job.order]` to mean something, and a handler that works on a list must have one. `Grounded`
says which fields each label needs; `Typed == TypeOK /\ Grounded` is
inductive, with one lemma per action.

The three sums and counts of `OrderProofs` share one argument. Most actions are quiet: they
leave shelf, counters, flags and carriers alone (`StepsQuietOrLoud`), or only drop a carrier (a
crash), and a sum that is an upper bound survives that. The loud ones are few (checkout, claim,
return, revival and their coupon twins), and in each the units go from one term of the sum to another:
a checkout moves a unit from the shelf to the reservations, a claim from a reservation to a carrier.
A claim moves exactly one because the flag it clears was set; that is where the compare-and-swap
of the code is used. `EffectsFireOnce` needs that the effects counted so far are witnessed by `paidAt`,
which no action clears. `Existing` keeps a checkout's row from having been counted before.

`RefundsAreReal` has an invariant of its own, `TrueToMoney`. A row is `Backed`: if it says refunded the
gateway gave money of this order back, and the payment it names is its own. A handler is
`Truthful`: a status it read and will write is one the order really had, so that a "refunded" among them
is backed too (the write of `updateStatus` and the bulk form carry such a status over an await),
and at the statements that write a refund it has seen one at the gateway. The gateway never
takes back what it gave back (`MoneyKept`), so nothing that was seen goes stale.

### When one overlap does not happen

`RaceProofs` proves what the run `OrdersSerial` checks for any orders, products, payments and
workers, whose handlers overlap, repeat, fail and die at any statement. The code does not exclude the
steps that the hypotheses forbid: each theorem says that they are the only way its property fails.

| theorem | statement |
|---|---|
| `ReturnBeforeRefund` | `Spec /\ [][NoLateRequest]_vars => []RefundAfterReturn` |
| `PaidOrdersHold` | `Spec /\ []Apart /\ [][StaffHeeds]_vars => []PaidHoldsStock` |
| `NoUnitLost` | `Spec /\ [][NothingDropped]_vars => []StockExact` |

`NoLateRequest`: no request is written for an order while another handler, which has judged it
already, refunds it; `requestRefund` and `approveRefund` check before they write. `Apart`: no handler
gives back an order that another is approving. `StaffHeeds`: the staff puts on sale, singly or in bulk,
only orders that hold their units, for neither `updateStatus` nor `bulkUpdateStatus` looks at
`stockReserved`. `NothingDropped`: no handler breaks off with units in its hands, and none revives an
order that another has just revived. Without its hypothesis TLC finds each property violated.

Each invariant says what handlers have in hand. `ReturnedFirst`: from the first statement of the store's
refund on, the goods are back if the reason asks for them. `Stocked`: an order on sale has its units
(`UnitsHeld`), the orders being given back are off sale, and a status about to be written puts no order
without units on sale (`SafeHands`); an approval of a cancelled order goes by way of `Revive`, which
takes the units before the status. `HeldIsPlaced`: an order that was not placed holds nothing, so a
checkout takes units once; with it every step moves units between the terms of `StockExact` and loses
none.

### The lock

For any processes and invoices (`SweepAssumption`), with `TypesHold`, `RemindersUnique` and
`LockIsSole` in `SweepProofs`:

| theorem | statement |
|---|---|
| `TypesHold` | `Spec => [](TypeOK /\ HoldsOK)` |
| `RemindersUnique` | `Spec => []RemindedOnce`, dropped connections included |
| `LockIsSole` | `Spec => SoleRunnerSpec` |

`TypeOK` alone is not inductive: a release subtracts from `holds`, so it needs that a lock somebody
has was taken at least once (`HoldsOK`). `RemindedOnce` rests on `Marker`: whoever is about to send
has marked the invoice, nobody else has marked the same one, and nothing of it was sent. `Mark` enters
that state only when the conditional update changed the row, so the proof never mentions the lock.
`LockIsSole` is a refinement with `AtTask` as the abstract variable; its invariant `Locked` says that
such a process has the lock. `TryLock` with the lock free is `Enter`; the release, `Close`, `Crash`, and
a `Drop` in the middle of the task are `Leave`; everything else stutters.

### Fiscal notes

For any orders and handlers (`PartnerProofs`):

| theorem | statement |
|---|---|
| `NumbersApart` | `FiscalSpec => []NumberedOnce` |
| `ResentAfterFailure` | `FiscalSpec => []ResentForCause` |
| `NotesAreTrue` | `FiscalSpec => []NoteIsTrue` |

The invariant has a part for each. `Numbers`: numbers in hand and numbers transmitted lie below the
store's sequence and are apart, because reserving is one UPDATE. `Causes`: a handler that found no
row and is about to transmit is the only such one of its order, because the row it created is unique
by order, so the check without a lock in `issueForOrder` does no harm. `Answers`: what a handler is
about to write of a note is so at Focus already, and an authorised note stays authorised until it is
cancelled.

### Connection to Mercado Pago

For any accounts and workers (`PartnerProofs`): `RefreshStays`, `ConnectionSpec => []RefreshKept`.
A pair just given is in nobody else's hands (`Given`, `Kept`), so no one can spend it before it is
stored; and whoever spent the stored one is about to store another (`Valid`), which
the stored columns' UPDATE of both tokens at once preserves.

### Commission ledger

For any price and commission below it, any parts of refunds, payments and workers
(`FeeAssumption`), in `MoneyProofs`:

| theorem | statement |
|---|---|
| `LedgerWithinFee` | `Spec => []WithinFee` |
| `ReconciledExactly` | `Spec => ReconcilesExactly` |

What a job has read of a payment is what it was, now or earlier (`Earlier`): the same payment with a
prefix of its refunds. `LedgerInv` says so of every job, and of each entry in the ledger that it is the
one the payment asks for by now. The entry of a refund depends on the refunds up to it and on nothing
that comes later (`GivenStays`), so two jobs that write it write the same amount, whichever comes first;
that is what makes `createMany` with `skipDuplicates` enough. The refunds' entries are differences of
one rounded running total: their sum telescopes to the commission on what was refunded, which is never
more than the commission, whereas entries rounded one by one would drift. A job that read the payment as
it still is finds no entry that it would write differently, and adds the missing ones. The proof found
an ambiguity of the model: two overlapping cases of `Expected` were a CASE, which may take either; it
now tests them in the order of the code.

### Prices

For any bags of lines with a price and a quantity, combo rules, coupons, freight and percentages, any
calls and finitely many payments (`PricesAreCents`: amounts are natural numbers of cents), in
`MoneyProofs`:

| theorem | statement |
|---|---|
| `DiscountsWithinGoods` | `PricesSpec => []DiscountWithinGoods` |
| `NoPaymentTurnedAway` | `PricesSpec => []NoneTurnedAway` |
| `TotalsArePaid` | `PricesSpec => []TotalIsPaid` |

The first is about a computation and an interleaving. The combo's loop is a fold whose accumulator stays
fair: the cents given away and the worth of the units not yet discounted are together no more than the
goods. Coupon and Pix discount are then capped by what is left, and the invariant keeps, for every call
between the read of the order and its write, that what it is about to take off is within what the goods
still cost. The other two hold while nobody changed the percentage: then every payment asks for the
total, or for the total less the one offer for Pix there is (`AskedOf`), so what a webhook compares is
equal, or apart by that offer, which it applies once and only to a payment by Pix; what it read before
it writes is still so (`Knows`), since an order takes its discount for Pix once.

### The shop and its mails

For any orders, products and tabs (`NoOrderIsNone`), any rows and sweeping processes, in `ShopProofs`:

| theorem | statement |
|---|---|
| `VisitsPayOnce` | `StorefrontSpec => []OncePerVisit` |
| `SuccessIsTrue` | `StorefrontSpec => []SuccessIsCharged` |
| `MailsAsked` | `NoticesSpec => []MailsWithinRequests` |

The argument about the shop is about one tab and its requests at a time (`TabFits`). `Counts`: a visit's
payments that nobody refused, and its forms on their way out, are at most one more than the forms sent
over or after another (`again`); where no form may have gone through that the page does not know of, and
the page still offers one, there is no such one more, so the next form may be the first again. `Shows`
and `Tells`: what a page shows as paid, and an answer that will say so, is true of its order (`Backed`:
charged, or taken for paid by the staff); what backs an order never goes away, so an answer that comes
late is still true. `CreatesOne`: a visit creates one order, whatever it asks for at once.

For mails (`Rights`), whoever asks gives one right to a mail: it lies with the row while that waits,
with the process that marked it until the mail has arrived, and with the row again when the mark
is taken back; of a mail whose answer was lost the row may get its right back, and `unsure` counts it.

### Variants

For any variants, finitely many orders, and any number of handlers that overlap (`SessionsAreNumbers`,
`VariantsAreNoWords`, which keep the names of locks apart, `ShelfIsStocked`, `OrdersHaveLines`), in
`ShopProofs`:

| theorem | statement |
|---|---|
| `EditsInventNoUnit` | `CatalogueSpec => []UnitsNotInvented` |
| `SumIsHealed` | `CatalogueSpec => SumHeals` |

Units are on the shelf, with the orders that hold them, or on their way back from an order that let them
go (`Conserved`). A transaction sees the committed rows and over them the ones it wrote (`tx.new`), and
of every line it has done, what it sees differs from what is committed by just those units (`Tally`);
only it can have written the row, since it has its lock (`Locks`), so its commit moves as many units as
its order's lines name. Giving an order back needs the order's flag, under the order's lock, so no
two transactions give the same units back. For the second, of two open transactions neither is alone
(`Lone`), so one that is alone reads the rows it sums as they will be when it commits: whatever sum
overlapping ones left is overwritten with the right one.

### How sums are proved

The induction theorems take the statement as an operator, which no prover here can instantiate. Facts
about sums and folds of any length are proved from a smallest counterexample instead: of the lengths
at which a fact fails there would be a smallest (`SmallestOf`), and it does not fail there. Each sum has
its few laws proved once, and everything else uses the laws.

### Labels and tracking

For any orders, parcels and processes, both finite (`ShippingAssumption`), in `ShippingProofs`:

| theorem | statement |
|---|---|
| `LabelsForCause` | `Spec => []PaidAgainForCause` |
| `DeliveriesAreReal` | `Spec => []DeliveredIsReal` |

`Bought` counts: labels paid for and purchases under way never exceed the excuses by more than one,
which is there only while a purchase is on its way or the row has parcel and PDF, because
`generateForOrder` buys nothing for such a row. `OneBuyer` keeps two handlers from holding one
parcel. For the second theorem, `Tracked` says that parcels and codes that rows, lists and handlers
name are of the order they are written to, and `Arrived` that whoever is about to write DELIVERED,
or wrote it, has such a parcel that came to the door (`Came`: attempted or delivered): a parcel's way
does not go back, so a late notice of it is still true.

### Monthly fee

For any desks, webhooks (finite, `BillingAssumption`), invoices and days, in `BillingProofs`:

| theorem | statement |
|---|---|
| `OneCodeToPay` | `Spec => []OnePayable` |
| `NoPeriodGivenAway` | `Spec /\ [][ByPix]_vars /\ [][NoTwin]_vars => []GrantedWithinPaid` |
| `CronLeavesPaid` | `Spec /\ [][OffTheMove]_vars => CronSparesPaid` |
| `ArrearsAreReal` | `Spec /\ [][Undisturbed]_vars => PaidNotInArrears` |
| `AuthorizedStays` | `Spec /\ [][Unovertaken]_vars => NoDowngrade` |

Any number of handlers overlap in all five, with the free plan and without it. Again the hypotheses are
the races by which the code does fail, and TLC finds each property violated without them.

`OnePayable` is not inductive: an invoice whose charge is still being made is not payable yet. The
invariant is about `Open` invoices, of Pix, pending, neither paid nor expired: there is at most one
(`OpenOnce`). The transaction of `emitirCobrancaPix` makes one only when the last pending invoice
has expired, and then all have, since invoices expire in the order they are made in (`Dated`). What
is left is to see that no statement opens an invoice again: `Kinds` keeps what belongs to a card
apart, `Fits` says what each process holds (only a charge that is not made yet is posted, only a
settled one is granted), and `Apart` that no two processes wait for the charge of one invoice.

`NoPeriodGivenAway` counts: the periods added are as many as the invoices approved (`GrantedOnce`),
and each of these names a charge of its own that was approved. A handler between a payment's notice
and the commit has read its invoice before it was approved, and it is not approved since (`Grants`):
that is where `NoTwin` is needed, for while one handler commits the period no other may be on its way
from the check of the same invoice to the grant. A notice that comes later finds the invoice
approved by the same charge. `ByPix` leaves out card subscriptions, of which the authorisation
and the first charge each add a period.

`CronLeavesPaid` rests on `CronDated` and `Timely`: the day the cron compares with is not in the future,
and a store on its way to the free plan has had its period. Without a free plan the updates are
conditional and that is all. With one, which the shipped catalogue has (`platform-plans.ts:27`), the
cron moves stores by id from a list; `OffTheMove` says that no payment is applied between the two
statements, and it is the only way a paid store is moved.

`ArrearsAreReal` says which race it is that puts a paid store in arrears, and that there is no other.
Whoever is about to write PAST_DUE (`Condemns`) has read a period that was over (`Grounded`, for the
cron by its day), and of all the statements only the commit of a payment moves the due date on;
`Undisturbed` says that no such commit comes while another handler is about to write PAST_DUE.

`AuthorizedStays` rests on `Faithful`: a handler that is to write "pending" links a subscription that is
not the store's yet (its invoice is the newest, and `Kinds` says the store's is one made before) or has
read that the store's is not authorized. `Unovertaken` keeps that so until it writes: no other handler
notes an authorization meanwhile, and none adopts a subscription before the request that made it has
linked it. `BillingCard` checks both properties with a desk and a webhook at work at once, on a day no
period ends.

### Taken from outside

The proofs and runs assume of services outside the repository: Postgres runs a statement and a
`$transaction` as modelled (READ COMMITTED, row locks, deadlock detection, advisory locks that end with
their connection); Mercado Pago spends a refresh token at its use and leaves those of earlier
authorisations alone; Focus NFe keeps one note per `ref`; Melhor Envio
numbers its shipments; a browser runs one effect or handler at a time. Definitions of these are marked
external in the map.

## What is not proved, and what is not modelled

Only model-checked:

- liveness under fairness, and ENABLED, which are out of the prover's reach: `AbandonedComesBack`,
  `LedgerCatchesUp`, `PixPaidIsNoted`, `ArrearsEnd`, `EveryInvoiceMarked`, `DeliveryNoted`, `WaitersTold`;
- `ComboAsPromised`: it compares two computations over bags of any length, one by lots and one unit
  by unit, and so is an induction over data, whose theorems no prover here can instantiate; what
  the combo may give away at most is proved (`DiscountsWithinGoods`);
- what the races named above leave: `StockExact`, `PaidHoldsStock` and `RefundAfterReturn` of one handler
  at a time (`OrdersSerial`), `GrantedWithinPaid` of one notice at a time (`BillingPix`),
  `PaidNotInArrears` and `NoDowngrade` of a merchant's request and a notice at work at once on a day no
  period ends (`BillingCard`), `CronSparesPaid` without a free plan (`BillingLiveness`).

Not modelled, with the reason per component in `PROJECT.json`:

- the panel's pages (`web/src/app/admin`), the layout and accounts of the shop: forms over rows
  of one owner, whose rules the server keeps. They are most of the repository's lines, and with
  templates, generated texts, settings and reads (`stores.service.ts`, dashboard, `StoreShell.tsx`) the reason
  why the map covers a small share of the whole;
- plan limits: a count before a create without a lock promises nothing that two requests at once
  would leave standing, and with one it restates its guard;
- shipping quotes: stateless calls to carriers; mail and printing: formatting and I/O (how often they
  fire is `EffectsFireOnce`); authentication: library cryptography and sessions;
- within the modelled components, what each row of `components` names as left out: order numbers,
  limits per customer, the checkout preference's items, the catalogue of plans, the timeline of tracking
  events, the contents of fiscal notes, the base of the commission; in `Prices`, the preview of the total and
  what Checkout Pro's preference asks for.
