----------------------------- MODULE SweepLock -----------------------------
(***************************************************************************)
(* The lock of the periodic tasks (api/src/fila/travas.service.ts): an     *)
(* advisory lock of Postgres that belongs to one connection per process,   *)
(* taken by SweepRunner (api/src/common/utils/sweep-runner.ts) on each     *)
(* interval.  The task is the reminder of overdue Pix invoices,            *)
(* BillingCronService.lembrarVencidas.                                     *)
(***************************************************************************)
EXTENDS Naturals, FiniteSets

CONSTANTS
    Processes,   \* server processes, each with one connection for its locks
    NoOne,
    Invoices,    \* overdue Pix invoices that nobody has been reminded of
    MaxFaults    \* bound: failures, crashes and dropped connections

ASSUME SweepAssumption ==
    NoOne \notin Processes /\ MaxFaults \in Nat

VARIABLES
    conn,       \* processes whose connection is up
    holder,     \* the process whose connection holds the lock
    holds,      \* how many times it has taken it
    pc,         \* where the runner of each process is
    todo,       \* per process: invoices it found and has not looked at
    mine,       \* per process: the invoice it has marked and writes about
    stopping,   \* processes that shut down
    marked,     \* invoices with pixLembreteEm
    sent,       \* reminders sent of each invoice
    faults      \* bound

runner == <<pc, todo, mine, stopping>>
lock == <<conn, holder, holds>>
mail == <<marked, sent>>
vars == <<conn, holder, holds, pc, todo, mine, stopping, marked, sent, faults>>

-----------------------------------------------------------------------------

Goto(p, l) == pc' = [pc EXCEPT ![p] = l] /\ UNCHANGED <<todo, mine, stopping>>
Fault == faults < MaxFaults /\ faults' = faults + 1

\* Postgres ends the session of process p: its locks are free.
SessionEnds(p) ==
    /\ conn' = conn \ {p}
    /\ IF holder = p THEN holder' = NoOne /\ holds' = 0 ELSE UNCHANGED <<holder, holds>>

\* The interval, unless a round is on or the application closes.
Trigger(p) ==
    /\ pc[p] = "idle" /\ p \notin stopping
    /\ Goto(p, "trylock")
    /\ UNCHANGED <<lock, mail, faults>>

\* Mutant: the answer of the query is not looked at.
TryLockUnread(p) ==
    /\ pc[p] = "trylock"
    /\ conn' = conn \cup {p}
    /\ IF holder \in {NoOne, p} THEN holder' = p /\ holds' = holds + 1
                                ELSE UNCHANGED <<holder, holds>>
    /\ Goto(p, "read")
    /\ UNCHANGED <<mail, faults>>

\* pg_try_advisory_lock: a session that has the lock takes it once more.
TryLock(p) ==
    /\ pc[p] = "trylock"
    /\ conn' = conn \cup {p}
    /\ IF holder \in {NoOne, p}
       THEN holder' = p /\ holds' = holds + 1 /\ Goto(p, "read")
       ELSE Goto(p, "idle") /\ UNCHANGED <<holder, holds>>
    /\ UNCHANGED <<mail, faults>>

ConnectFails(p) ==
    /\ pc[p] = "trylock" /\ p \notin conn /\ Fault
    /\ Goto(p, "idle")
    /\ UNCHANGED <<lock, mail>>

ReadOverdue(p) ==
    /\ pc[p] = "read"
    /\ todo' = [todo EXCEPT ![p] = Invoices \ marked]
    /\ pc' = [pc EXCEPT ![p] = "each"]
    /\ UNCHANGED <<mine, stopping, lock, mail, faults>>

\* Mutant: the update is by id alone.
MarkAgain(p) ==
    /\ pc[p] = "each"
    /\ \E i \in todo[p] :
         /\ todo' = [todo EXCEPT ![p] = @ \ {i}]
         /\ mine' = [mine EXCEPT ![p] = i]
         /\ pc' = [pc EXCEPT ![p] = "send"]
         /\ marked' = marked \cup {i}
    /\ UNCHANGED <<stopping, lock, sent, faults>>

\* Marked before it is sent, and only if nobody has.
Mark(p) ==
    /\ pc[p] = "each"
    /\ \E i \in todo[p] :
         /\ todo' = [todo EXCEPT ![p] = @ \ {i}]
         /\ mine' = [mine EXCEPT ![p] = i]
         /\ pc' = [pc EXCEPT ![p] = IF i \in marked THEN "each" ELSE "send"]
         /\ marked' = marked \cup {i}
    /\ UNCHANGED <<stopping, lock, sent, faults>>

Send(p) ==
    /\ pc[p] = "send"
    /\ sent' = [sent EXCEPT ![mine[p]] = @ + 1]
    /\ Goto(p, "each")
    /\ UNCHANGED <<marked, lock, faults>>

EndTask(p) ==
    /\ pc[p] = "each" /\ todo[p] = {}
    /\ Goto(p, "unlock")
    /\ UNCHANGED <<lock, mail, faults>>

\* Mutant: a round that failed leaves its runner busy.
FailBusy(p) ==
    /\ pc[p] \in {"read", "each", "send"} /\ Fault
    /\ Goto(p, "failed")
    /\ UNCHANGED <<lock, mail>>

\* The finally of seLivre comes after the task, however it ended.
TaskFails(p) ==
    /\ pc[p] \in {"read", "each", "send"} /\ Fault
    /\ Goto(p, "unlock")
    /\ UNCHANGED <<lock, mail>>

\* pg_advisory_unlock, on a new connection if the old one went: then there is
\* nothing to free.  An error of it is swallowed.
Unlock(p) ==
    /\ pc[p] = "unlock"
    /\ conn' = conn \cup {p}
    /\ IF holder = p
       THEN holds' = holds - 1 /\ holder' = IF holds = 1 THEN NoOne ELSE p
       ELSE UNCHANGED <<holder, holds>>
    /\ Goto(p, "idle")
    /\ UNCHANGED <<mail, faults>>

UnlockFails(p) ==
    /\ pc[p] = "unlock" /\ Fault
    /\ Goto(p, "idle")
    /\ UNCHANGED <<lock, mail>>

\* The connection goes, perhaps in the middle of the task, which knows nothing
\* of it: another process may then take the lock.
Drop(p) ==
    /\ p \in conn /\ Fault
    /\ SessionEnds(p)
    /\ UNCHANGED <<runner, mail>>

\* stop(): no further rounds.
Stop(p) ==
    /\ p \notin stopping
    /\ stopping' = stopping \cup {p}
    /\ UNCHANGED <<pc, todo, mine, lock, mail, faults>>

\* The process ends and its successor starts, with a round at once.
Restart(p) ==
    /\ SessionEnds(p)
    /\ pc' = [pc EXCEPT ![p] = "trylock"]
    /\ stopping' = stopping \ {p}
    /\ UNCHANGED <<todo, mine, mail>>

\* The round in flight has ended.
Close(p) == p \in stopping /\ pc[p] = "idle" /\ Restart(p) /\ UNCHANGED faults

Crash(p) == Fault /\ Restart(p)

-----------------------------------------------------------------------------

Init ==
    /\ conn = {} /\ holder = NoOne /\ holds = 0
    /\ pc = [p \in Processes |-> "trylock"]
    /\ todo = [p \in Processes |-> {}]
    /\ mine \in [Processes -> Invoices]
    /\ stopping = {}
    /\ marked = {} /\ sent = [i \in Invoices |-> 0]
    /\ faults = 0

Round(p) ==
    \/ Trigger(p) \/ TryLock(p) \/ ReadOverdue(p) \/ Mark(p) \/ Send(p)
    \/ EndTask(p) \/ Unlock(p)

Next ==
    \E p \in Processes :
        \/ Round(p) \/ Stop(p) \/ Close(p)
        \/ ConnectFails(p) \/ TaskFails(p) \/ UnlockFails(p) \/ Drop(p) \/ Crash(p)

Spec == Init /\ [][Next]_vars

\* Intervals come round, statements are answered, a process that shuts down
\* is replaced.
FairSpec == Spec /\ \A p \in Processes : WF_vars(Round(p)) /\ WF_vars(Close(p))

-----------------------------------------------------------------------------
(* Properties *)

Labels == {"idle", "trylock", "read", "each", "send", "unlock"}

TypeOK ==
    /\ conn \subseteq Processes /\ holder \in Processes \cup {NoOne} /\ holds \in Nat
    /\ pc \in [Processes -> Labels]
    /\ todo \in [Processes -> SUBSET Invoices] /\ mine \in [Processes -> Invoices]
    /\ stopping \subseteq Processes
    /\ marked \subseteq Invoices /\ sent \in [Invoices -> Nat]
    /\ faults \in 0..MaxFaults

\* Processes at the task whose connection has stood since they took the lock.
AtTask == {p \in conn : pc[p] \in {"read", "each", "send", "unlock"}}

\* The lock does what it promises of every process that still has its
\* connection: failed tasks, failed releases, crashes and dropped connections
\* never put a second one at the task.
Sole == INSTANCE SoleRunner WITH at <- AtTask
SoleRunnerSpec == Sole!Spec

\* One reminder per invoice ("melhor que receber o mesmo aviso a cada hora"),
\* even when the lock lets two processes run and whatever dies in between.
RemindedOnce == \A i \in Invoices : sent[i] <= 1

\* No failure leaves the task locked away: every invoice is marked in the end.
EveryInvoiceMarked == <>(marked = Invoices)
=============================================================================
