---------------------------- MODULE MpConnection ----------------------------
(***************************************************************************)
(* A store's connection to Mercado Pago,                                   *)
(* api/src/payments/mercadopago-oauth.service.ts: the callback that stores *)
(* the tokens, their renewal, by the daily sweep and before every charge   *)
(* and refund, and "esquecer a conexão".  A refresh token is spent by its  *)
(* use: what Mercado Pago answers has to be stored.                        *)
(***************************************************************************)
EXTENDS Naturals

CONSTANTS
    Accounts,    \* seller accounts the store may be connected to
    Workers,     \* handlers and sweeps
    MaxCalls,    \* bound: callbacks, renewals and disconnections
    MaxLapses    \* bound: answers lost and processes that die

VARIABLES
    store,     \* the mp columns of the store
    granted,   \* tokens Mercado Pago has given, counted
    live,      \* refresh tokens it still takes
    job,       \* where each worker is
    calls, lapses   \* bounds

connectionVars == <<store, granted, live, job, calls, lapses>>

-----------------------------------------------------------------------------
\* A pair of access and refresh token: whose, and the how-manieth given.
NoPair == [account |-> "none", number |-> 0]
Blank == [access |-> NoPair, refresh |-> NoPair, user |-> "none", fresh |-> FALSE]
NoJob == [at |-> "idle", kind |-> "none", pair |-> NoPair]

Goes(w, new) == job' = [job EXCEPT ![w] = new]
Called == calls < MaxCalls /\ calls' = calls + 1
Idle(w) == job[w].at = "idle"

\* state e code: the seller comes back from Mercado Pago.
Callback(w) ==
    /\ Idle(w) /\ Called
    /\ \E a \in Accounts :
         Goes(w, [at |-> "request", kind |-> "code", pair |-> [account |-> a, number |-> 0]])
    /\ UNCHANGED <<store, granted, live, lapses>>

\* The row is read once: without a refresh token, or with 30 days left, nothing
\* is done.
NeedsRenewal == store.refresh # NoPair /\ ~store.fresh

EnsureFreshToken(w) ==
    /\ Idle(w) /\ NeedsRenewal /\ Called
    /\ Goes(w, [at |-> "request", kind |-> "refresh", pair |-> store.refresh])
    /\ UNCHANGED <<store, granted, live, lapses>>

\* requestToken, at Mercado Pago: a new pair for the code or for a refresh token
\* it takes, which it then takes no more.
RequestToken(w) ==
    LET from == job[w].pair
        new == [from EXCEPT !.number = granted + 1] IN
    /\ job[w].at = "request"
    /\ IF job[w].kind = "code" \/ from \in live
       THEN /\ granted' = granted + 1
            /\ live' = (live \ {from}) \cup {new}
            /\ Goes(w, [job[w] EXCEPT !.at = "store", !.pair = new])
       ELSE Goes(w, NoJob) /\ UNCHANGED <<granted, live>>
    /\ UNCHANGED <<store, calls, lapses>>

\* Mutant: the refresh token is kept.
AccessOnly(pair) == [store EXCEPT !.access = pair, !.fresh = TRUE]

\* Both tokens of the answer are written.
Renewed(pair) == [store EXCEPT !.access = pair, !.refresh = pair, !.fresh = TRUE]

\* UPDATE by the store's id: the callback writes the account too.
StoreToken(w) ==
    LET pair == job[w].pair IN
    /\ job[w].at = "store"
    /\ store' = IF job[w].kind = "refresh" THEN Renewed(pair)
                ELSE [access |-> pair, refresh |-> pair, user |-> pair.account, fresh |-> TRUE]
    /\ Goes(w, NoJob)
    /\ UNCHANGED <<granted, live, calls, lapses>>

\* The answer is lost, or the process dies before the UPDATE: the pair is spent,
\* the next renewal is refused, and only a new connection helps.
TokenLost(w) ==
    /\ job[w].at = "store" /\ lapses < MaxLapses /\ lapses' = lapses + 1
    /\ Goes(w, NoJob)
    /\ UNCHANGED <<store, granted, live, calls>>

Disconnect ==
    /\ store # Blank /\ Called
    /\ store' = Blank
    /\ UNCHANGED <<granted, live, job, lapses>>

\* The token comes within 30 days of its end.
Age ==
    /\ store.fresh /\ store' = [store EXCEPT !.fresh = FALSE]
    /\ UNCHANGED <<granted, live, job, calls, lapses>>

ConnectionInit ==
    /\ store = Blank /\ granted = 0 /\ live = {}
    /\ job = [w \in Workers |-> NoJob]
    /\ calls = 0 /\ lapses = 0

ConnectionNext ==
    \/ \E w \in Workers : \/ Callback(w) \/ EnsureFreshToken(w)
                          \/ RequestToken(w) \/ StoreToken(w) \/ TokenLost(w)
    \/ Disconnect \/ Age

ConnectionSpec == ConnectionInit /\ [][ConnectionNext]_connectionVars

-----------------------------------------------------------------------------
(* Properties *)

Settled == \A w \in Workers : job[w].at # "store"

\* The store keeps a refresh token that Mercado Pago takes, however many
\* handlers renew, reconnect and disconnect at once: unless an answer was lost,
\* and but for the moment between an answer and its UPDATE.
RefreshKept ==
    Settled /\ lapses = 0 /\ store.refresh # NoPair => store.refresh \in live
=============================================================================
