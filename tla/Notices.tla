------------------------------ MODULE Notices ------------------------------
(***************************************************************************)
(* The two notices a store mails by itself.  "Avise-me": who left an       *)
(* address at a sold-out product is told when it is back                   *)
(* (api/src/avise-me/avise-me.service.ts).  Abandoned cart: who did not    *)
(* pay before the order expired is reminded once                           *)
(* (api/src/orders/carrinho-abandonado.service.ts).  Both sweeps read a    *)
(* page of rows, mark each before mailing and unmark it if the mail fails. *)
(* Their lock is in SweepLock; here any process may sweep at any time,     *)
(* since a dropped connection lets two at it.                              *)
(***************************************************************************)
EXTENDS Naturals, Sequences, FiniteSets, FiniteSetsExt, SequencesExt

CONSTANTS
    Alerts,      \* rows of StockAlert: a product and an address
    Carts,       \* orders that may expire unpaid
    Sweepers,    \* processes
    Page,        \* LOTE: rows of one turn
    MaxAsked,    \* bound: times an address is left
    MaxFlips,    \* bound: times a stock changes, a customer buys or a row gets too old
    MaxFaults    \* bound: mails that fail and processes that die

VARIABLES
    since,     \* when each row was asked for (createdAt, expiredUnpaidAt); Never: no row
    marked,    \* those whose notifiedAt, or recoveryEmailSentAt, is set
    lapsed,    \* rows older than VALIDADE_MS, or JANELA_MS
    worth,     \* rows worth a mail: the product is back; the customer did not buy since
    turn,      \* where each process is
    mails,     \* history: mails that arrived
    asked,     \* history: times the mail was asked for
    unsure,    \* history: mails whose answer was lost
    due,       \* history: rows asked for, not mailed since and neither lost nor lapsed
    flips, faults   \* bounds

noticeVars == <<since, marked, lapsed, worth, turn, mails, asked, unsure, due, flips, faults>>

-----------------------------------------------------------------------------
Row == Alerts \cup Carts
Never == 0
Waits(n) == since[n] # Never /\ n \notin marked
NoTurn == [at |-> "idle", todo |-> <<>>]
At(p) == Head(turn[p].todo)

\* The next row of the page, or the end of the turn.
NextRow(t) ==
    IF Tail(t.todo) = <<>> THEN NoTurn ELSE [at |-> "row", todo |-> Tail(t.todo)]

Skip(p) == turn' = [turn EXCEPT ![p] = NextRow(@)]
Fault == faults < MaxFaults /\ faults' = faults + 1

-----------------------------------------------------------------------------
(* Rows *)

\* registrar: only for what is sold out; an alert of old is renewed.  The sweep
\* of orders sets expiredUnpaidAt, once.
Ask(n) ==
    /\ IF n \in Alerts
       THEN n \notin worth /\ FoldSet(LAMBDA a, times : asked[a] + times, 0, Alerts) < MaxAsked
       ELSE asked[n] = 0
    /\ asked' = [asked EXCEPT ![n] = @ + 1]
    /\ since' = [since EXCEPT ![n] = 1 + Max({since[m] : m \in Row})]
    /\ marked' = marked \ {n} /\ lapsed' = lapsed \ {n} /\ due' = due \cup {n}
    /\ UNCHANGED <<worth, turn, mails, unsure, flips, faults>>

\* The stock comes back or runs out; the customer buys after all.
Flip(n) ==
    /\ flips < MaxFlips /\ flips' = flips + 1
    /\ IF n \in worth THEN worth' = worth \ {n} ELSE n \in Alerts /\ worth' = worth \cup {n}
    /\ UNCHANGED <<since, marked, lapsed, turn, mails, asked, unsure, due, faults>>

\* The row is older than VALIDADE_MS, or JANELA_MS: no sweep reads it any more.
Lapse(n) ==
    /\ flips < MaxFlips /\ flips' = flips + 1
    /\ n \notin lapsed /\ since[n] # Never
    /\ lapsed' = lapsed \cup {n} /\ due' = due \ {n}
    /\ UNCHANGED <<since, marked, worth, turn, mails, asked, unsure, faults>>

-----------------------------------------------------------------------------
(* varrer *)

\* The page is of the oldest rows, the stock read with it: an alert whose
\* product is still sold out has its place in the page all the same, and so has
\* the order of a customer who bought since.
Oldest(s) == SubSeq(s, 1, IF Len(s) < Page THEN Len(s) ELSE Page)
Selected(kind) ==
    LET waiting == SetToSortSeq({n \in kind \ lapsed : Waits(n)}, LAMBDA m, n : since[m] < since[n]) IN
    SelectSeq(Oldest(waiting), LAMBDA n : n \in Carts \/ n \in worth)

Select(p, kind) ==
    /\ turn[p].at = "idle" /\ Selected(kind) # <<>>
    /\ turn' = [turn EXCEPT ![p] = [at |-> "row", todo |-> Selected(kind)]]
    /\ UNCHANGED <<since, marked, lapsed, worth, mails, asked, unsure, due, flips, faults>>

\* voltouEComprou, asked for each order before it is marked.
Look(p) ==
    /\ turn[p].at = "row"
    /\ IF At(p) \in Carts /\ At(p) \notin worth
       THEN Skip(p) ELSE turn' = [turn EXCEPT ![p].at = "mark"]
    /\ UNCHANGED <<since, marked, lapsed, worth, mails, asked, unsure, due, flips, faults>>

\* Mutant: the row was unmarked when it was read.
MarksAgain(n) == TRUE

\* UPDATE ... WHERE it is not marked yet: the one that marks it mails.
Marks(n) == Waits(n)

Mark(p) ==
    /\ turn[p].at = "mark"
    /\ IF Marks(At(p))
       THEN /\ marked' = marked \cup {At(p)}
            /\ turn' = [turn EXCEPT ![p].at = "mail"]
       ELSE Skip(p) /\ UNCHANGED marked
    /\ UNCHANGED <<since, lapsed, worth, mails, asked, unsure, due, flips, faults>>

Arrives(p) ==
    /\ mails' = [mails EXCEPT ![At(p)] = @ + 1]
    /\ due' = due \ {At(p)}

Mail(p) ==
    /\ turn[p].at = "mail"
    /\ Arrives(p) /\ Skip(p)
    /\ UNCHANGED <<since, marked, lapsed, worth, asked, unsure, flips, faults>>

\* The mail fails, or arrives and its answer does not.
MailFails(p) ==
    /\ turn[p].at = "mail" /\ Fault
    /\ \/ UNCHANGED <<mails, unsure, due>>
       \/ /\ Arrives(p)
          /\ unsure' = [unsure EXCEPT ![At(p)] = @ + 1]
    /\ turn' = [turn EXCEPT ![p].at = "unmark"]
    /\ UNCHANGED <<since, marked, lapsed, worth, asked, flips>>

\* Mutant: a failed mail is not tried again.
StaysMarked(n) == marked

\* The panel must not say "sent", and the next turn tries again.
Unmarked(n) == marked \ {n}

Unmark(p) ==
    /\ turn[p].at = "unmark"
    /\ marked' = Unmarked(At(p)) /\ Skip(p)
    /\ UNCHANGED <<since, lapsed, worth, mails, asked, unsure, due, flips, faults>>

\* A process dies: what it marked and did not mail stays marked.
SweeperDies(p) ==
    /\ turn[p].at # "idle" /\ Fault
    /\ turn' = [turn EXCEPT ![p] = NoTurn]
    /\ due' = due \ {At(p)}
    /\ UNCHANGED <<since, marked, lapsed, worth, mails, asked, unsure, flips>>

-----------------------------------------------------------------------------
NoticesInit ==
    /\ since = [n \in Row |-> Never] /\ marked = {} /\ lapsed = {} /\ worth = Carts /\ due = {}
    /\ turn = [p \in Sweepers |-> NoTurn]
    /\ mails = [n \in Row |-> 0] /\ asked = mails /\ unsure = mails
    /\ flips = 0 /\ faults = 0

Turn(p) == Look(p) \/ Mark(p) \/ Mail(p) \/ MailFails(p) \/ Unmark(p)

NoticesNext ==
    \/ \E n \in Row : Ask(n) \/ Flip(n) \/ Lapse(n)
    \/ \E p \in Sweepers : Select(p, Alerts) \/ Select(p, Carts) \/ Turn(p) \/ SweeperDies(p)

\* Processes go on, and every sweep has its turn again.
NoticesFair ==
    \A p \in Sweepers :
      /\ WF_noticeVars(Turn(p))
      /\ SF_noticeVars(Select(p, Alerts)) /\ SF_noticeVars(Select(p, Carts))

NoticesSpec == NoticesInit /\ [][NoticesNext]_noticeVars /\ NoticesFair

-----------------------------------------------------------------------------
(* Properties *)

\* "Marca antes de enviar: dois processos não mandam dois e-mails"
\* (avise-me.service.ts:172): nobody gets more mails than were asked for,
\* whatever sweeps overlap, fail and are repeated, but for those whose answer
\* was lost.
MailsWithinRequests == \A n \in Row : mails[n] <= asked[n] + unsure[n]

\* As many rows as a page holds are of the kind of n and older: n is not read.
Crowded(n) ==
    LET kind == IF n \in Alerts THEN Alerts ELSE Carts IN
    Page <= Cardinality({m \in kind \ lapsed : Waits(m) /\ since[m] < since[n]})

\* Who waits for a product that is back, or did not pay and did not buy, is
\* mailed in the end, whatever mails fail: unless a page of older rows stays
\* before the row for good, the product runs out again, the customer buys, the
\* row gets too old, or a process dies between the mark and the mail.
WaitersTold ==
    \A n \in Row :
      n \in due /\ n \in worth ~> n \notin due \/ n \notin worth \/ []Crowded(n)
=============================================================================
