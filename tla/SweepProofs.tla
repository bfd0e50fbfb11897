---------------------------- MODULE SweepProofs ----------------------------
(***************************************************************************)
(* What SweepLock promises, for every set of processes and of invoices.    *)
(***************************************************************************)
EXTENDS SweepLock, TLAPS

\* Strengthening of TypeOK: a lock that nobody has has been taken no times.
HoldsOK == holder = NoOne <=> holds = 0

\* Every state is of its type: in particular a release never takes the count
\* of the lock below zero, however connections and processes end.
THEOREM TypesHold == Spec => [](TypeOK /\ HoldsOK)
<1> USE SweepAssumption
<1>1. Init => TypeOK /\ HoldsOK
  BY DEF Init, TypeOK, HoldsOK, Labels
<1>2. TypeOK /\ HoldsOK /\ [Next]_vars => TypeOK' /\ HoldsOK'
  <2> SUFFICES ASSUME TypeOK, HoldsOK, [Next]_vars PROVE TypeOK' /\ HoldsOK'
    OBVIOUS
  <2> USE DEF TypeOK, HoldsOK, Labels
  <2>0. CASE UNCHANGED vars
    BY <2>0 DEF vars
  <2> SUFFICES ASSUME NEW p \in Processes,
                      \/ Round(p) \/ Stop(p) \/ Close(p) \/ ConnectFails(p)
                      \/ TaskFails(p) \/ UnlockFails(p) \/ Drop(p) \/ Crash(p)
               PROVE TypeOK' /\ HoldsOK'
    BY <2>0 DEF Next
  <2>1. CASE Trigger(p) \/ EndTask(p)
    BY <2>1 DEF Trigger, EndTask, Goto, lock, mail
  <2>2. CASE TryLock(p)
    BY <2>2 DEF TryLock, Goto, mail
  <2>3. CASE ReadOverdue(p)
    BY <2>3 DEF ReadOverdue, lock, mail
  <2>4. CASE Mark(p)
    BY <2>4 DEF Mark, lock
  <2>5. CASE Send(p)
    BY <2>5 DEF Send, Goto, lock
  <2>6. CASE Unlock(p)
    BY <2>6 DEF Unlock, Goto, mail
  <2>7. CASE Stop(p)
    BY <2>7 DEF Stop, lock, mail
  <2>8. CASE Close(p) \/ Crash(p)
    BY <2>8 DEF Close, Crash, Restart, SessionEnds, Fault, mail
  <2>9. CASE ConnectFails(p) \/ TaskFails(p) \/ UnlockFails(p)
    BY <2>9 DEF ConnectFails, TaskFails, UnlockFails, Goto, Fault, lock, mail
  <2>10. CASE Drop(p)
    BY <2>10 DEF Drop, SessionEnds, Fault, runner, mail
  <2>11. QED
    BY <2>1, <2>2, <2>3, <2>4, <2>5, <2>6, <2>7, <2>8, <2>9, <2>10 DEF Round
<1>3. QED
  BY <1>1, <1>2, PTL DEF Spec

-----------------------------------------------------------------------------
(* The reminders do not rely on the lock *)

\* A process that writes about an invoice is the one that marked it, and
\* nothing has been sent of it yet; what was sent was marked.
Marker ==
    /\ \A p \in Processes :
         pc[p] = "send" => mine[p] \in marked /\ sent[mine[p]] = 0
    /\ \A p, q \in Processes :
         pc[p] = "send" /\ pc[q] = "send" /\ p # q => mine[p] # mine[q]
    /\ \A i \in Invoices : sent[i] <= 1 /\ (sent[i] = 1 => i \in marked)

\* The conditional update of pixLembreteEm alone makes the reminder unique:
\* whatever the lock lets happen, no invoice is written about twice.
THEOREM RemindersUnique == Spec => []RemindedOnce
<1>1. Init => Marker
  BY DEF Init, Marker
<1>2. TypeOK /\ Marker /\ [Next]_vars => Marker'
  <2> SUFFICES ASSUME TypeOK, Marker, [Next]_vars PROVE Marker'
    OBVIOUS
  <2> USE DEF TypeOK, Marker, Labels
  <2>0. CASE UNCHANGED vars
    BY <2>0 DEF vars
  <2> SUFFICES ASSUME NEW p \in Processes,
                      \/ Round(p) \/ Stop(p) \/ Close(p) \/ ConnectFails(p)
                      \/ TaskFails(p) \/ UnlockFails(p) \/ Drop(p) \/ Crash(p)
               PROVE Marker'
    BY <2>0 DEF Next
  <2>1. CASE Trigger(p) \/ EndTask(p)
    BY <2>1 DEF Trigger, EndTask, Goto, mail
  <2>2. CASE TryLock(p) \/ Unlock(p)
    BY <2>2 DEF TryLock, Unlock, Goto, mail
  <2>3. CASE ReadOverdue(p)
    BY <2>3 DEF ReadOverdue, mail
  <2>4. CASE Mark(p)
    <3>1. PICK i \in todo[p] :
            /\ mine' = [mine EXCEPT ![p] = i]
            /\ pc' = [pc EXCEPT ![p] = IF i \in marked THEN "each" ELSE "send"]
            /\ marked' = marked \cup {i}
      BY <2>4 DEF Mark
    <3>2. i \in Invoices /\ sent' = sent
      BY <2>4 DEF Mark
    <3>3. i \notin marked => sent[i] = 0
      BY <3>2
    <3>4. CASE i \in marked
      <4>1. pc' = [pc EXCEPT ![p] = "each"] /\ marked' = marked
        BY <3>1, <3>4
      <4>2. QED
        BY <3>1, <3>2, <4>1
    <3>5. CASE i \notin marked
      <4>1. pc' = [pc EXCEPT ![p] = "send"]
        BY <3>1, <3>5
      <4>2. \A q \in Processes \ {p} : pc'[q] = pc[q] /\ mine'[q] = mine[q]
        BY <3>1, <4>1
      <4>3. pc'[p] = "send" /\ mine'[p] = i
        BY <3>1, <3>2, <4>1
      <4>4. \A q \in Processes \ {p} : pc[q] = "send" => mine[q] # i
        BY <3>5
      <4>5. \A q \in Processes :
               pc'[q] = "send" => mine'[q] \in marked' /\ sent'[mine'[q]] = 0
        BY <3>1, <3>2, <3>3, <3>5, <4>2, <4>3
      <4>6. \A q, r \in Processes :
               pc'[q] = "send" /\ pc'[r] = "send" /\ q # r => mine'[q] # mine'[r]
        BY <4>2, <4>3, <4>4
      <4>7. \A k \in Invoices : sent'[k] <= 1 /\ (sent'[k] = 1 => k \in marked')
        BY <3>1, <3>2
      <4>8. QED
        BY <4>5, <4>6, <4>7
    <3>6. QED
      BY <3>4, <3>5
  <2>5. CASE Send(p)
    <3>1. mine[p] \in Invoices /\ sent[mine[p]] = 0 /\ mine[p] \in marked
      BY <2>5 DEF Send
    <3>2. sent' = [sent EXCEPT ![mine[p]] = 1] /\ pc' = [pc EXCEPT ![p] = "each"]
      BY <2>5, <3>1 DEF Send, Goto
    <3>3. mine' = mine /\ marked' = marked
      BY <2>5 DEF Send, Goto
    <3>4. pc[p] = "send"
      BY <2>5 DEF Send
    <3>5. pc'[p] = "each" /\ \A q \in Processes \ {p} : pc'[q] = pc[q]
      BY <3>2
    <3>6. \A q \in Processes : pc'[q] = "send" => pc[q] = "send" /\ q # p
      BY <3>5
    <3>7. \A q \in Processes : pc'[q] = "send" => mine[q] # mine[p]
      BY <3>4, <3>6
    <3>8. \A k \in Invoices \ {mine[p]} : sent'[k] = sent[k]
      BY <3>1, <3>2
    <3>9. \A q \in Processes :
             pc'[q] = "send" => mine'[q] \in marked' /\ sent'[mine'[q]] = 0
      BY <3>3, <3>6, <3>7, <3>8
    <3>10. \A q, r \in Processes :
              pc'[q] = "send" /\ pc'[r] = "send" /\ q # r => mine'[q] # mine'[r]
      BY <3>3, <3>6
    <3>11. sent'[mine[p]] = 1
      BY <3>1, <3>2
    <3>12. \A k \in Invoices : sent'[k] <= 1 /\ (sent'[k] = 1 => k \in marked')
      BY <3>1, <3>3, <3>8, <3>11
    <3>13. QED
      BY <3>9, <3>10, <3>12
  <2>6. CASE Stop(p)
    BY <2>6 DEF Stop, mail
  <2>7. CASE Close(p) \/ Crash(p)
    BY <2>7 DEF Close, Crash, Restart, mail
  <2>8. CASE ConnectFails(p) \/ TaskFails(p) \/ UnlockFails(p)
    BY <2>8 DEF ConnectFails, TaskFails, UnlockFails, Goto, mail
  <2>9. CASE Drop(p)
    BY <2>9 DEF Drop, runner, mail
  <2>10. QED
    BY <2>1, <2>2, <2>3, <2>4, <2>5, <2>6, <2>7, <2>8, <2>9 DEF Round
<1>3. Marker => RemindedOnce
  BY DEF Marker, RemindedOnce
<1>4. QED
  BY <1>1, <1>2, <1>3, TypesHold, PTL DEF Spec

-----------------------------------------------------------------------------
(* The lock implements SoleRunner *)

\* Whoever is at the task, and has not lost its connection, has the lock.
Locked == \A p \in AtTask : holder = p

\* SweepLock implements the promise of TravasService: of the processes whose
\* connection stands, one at a time is at the task.
THEOREM LockIsSole == Spec => SoleRunnerSpec
<1> USE SweepAssumption
<1>1. Init => Locked /\ Sole!Init
  BY DEF Init, Locked, AtTask, Sole!Init
<1>2. TypeOK /\ Locked /\ [Next]_vars => Locked' /\ [Sole!Next]_AtTask
  <2> SUFFICES ASSUME TypeOK, Locked, [Next]_vars PROVE Locked' /\ [Sole!Next]_AtTask
    OBVIOUS
  <2> USE DEF TypeOK, Locked, Labels
  <2>0. CASE UNCHANGED vars
    BY <2>0 DEF vars, AtTask
  <2> SUFFICES ASSUME NEW p \in Processes,
                      \/ Round(p) \/ Stop(p) \/ Close(p) \/ ConnectFails(p)
                      \/ TaskFails(p) \/ UnlockFails(p) \/ Drop(p) \/ Crash(p)
               PROVE Locked' /\ [Sole!Next]_AtTask
    BY <2>0 DEF Next
  <2>a. AtTask = {} \/ AtTask = {holder}
    BY DEF AtTask
  <2>b. ASSUME AtTask' = AtTask \ {p}, holder' = holder \/ holder = p
        PROVE Locked' /\ [Sole!Next]_AtTask
    <3>1. CASE AtTask = {p}
      BY <2>b, <3>1 DEF Sole!Next, Sole!Leave
    <3>2. CASE AtTask # {p}
      <4>1. AtTask' = AtTask
        BY <2>a, <2>b, <3>2
      <4>2. \A q \in AtTask : holder' = q
        BY <2>a, <2>b, <3>2
      <4>3. QED
        BY <4>1, <4>2
    <3>3. QED
      BY <3>1, <3>2
  <2>1. CASE Trigger(p) \/ ConnectFails(p)
    BY <2>1 DEF Trigger, ConnectFails, Goto, lock, AtTask
  <2>2. CASE TryLock(p)
    <3>1. p \notin AtTask
      BY <2>2 DEF TryLock, AtTask
    <3>2. CASE holder \in {NoOne, p}
      <4>1. AtTask = {}
        BY <2>a, <3>1, <3>2 DEF AtTask
      <4>2. holder' = p /\ pc' = [pc EXCEPT ![p] = "read"]
        BY <2>2, <3>2 DEF TryLock, Goto
      <4>a. conn' = conn \cup {p}
        BY <2>2 DEF TryLock
      <4>3. AtTask' = {p}
        BY <4>1, <4>2, <4>a DEF AtTask
      <4>4. Sole!Enter(p)
        BY <4>1, <4>3 DEF Sole!Enter
      <4>5. QED
        BY <4>2, <4>3, <4>4 DEF Sole!Next
    <3>3. CASE holder \notin {NoOne, p}
      BY <2>2, <3>1, <3>3 DEF TryLock, Goto, AtTask
    <3>4. QED
      BY <3>2, <3>3
  <2>3. CASE ReadOverdue(p)
    BY <2>3 DEF ReadOverdue, lock, AtTask
  <2>4. CASE Mark(p)
    BY <2>4 DEF Mark, lock, AtTask
  <2>5. CASE Send(p) \/ EndTask(p) \/ TaskFails(p)
    BY <2>5 DEF Send, EndTask, TaskFails, Goto, lock, AtTask
  <2>6. CASE Unlock(p) \/ UnlockFails(p)
    <3>1. pc' = [pc EXCEPT ![p] = "idle"] /\ conn' \in {conn, conn \cup {p}}
      BY <2>6 DEF Unlock, UnlockFails, Goto, lock
    <3>2. AtTask' = AtTask \ {p}
      BY <3>1 DEF AtTask
    <3>3. holder' = holder \/ holder = p
      BY <2>6 DEF Unlock, UnlockFails, lock
    <3>4. QED
      BY <2>b, <3>2, <3>3
  <2>7. CASE Stop(p)
    BY <2>7 DEF Stop, lock, AtTask
  <2>8. CASE Close(p) \/ Crash(p) \/ Drop(p)
    <3>1. conn' = conn \ {p} /\ \A q \in Processes \ {p} : pc'[q] = pc[q]
      BY <2>8 DEF Close, Crash, Drop, Restart, SessionEnds, runner
    <3>2. AtTask' = AtTask \ {p}
      BY <3>1 DEF AtTask
    <3>3. holder' = holder \/ holder = p
      BY <2>8 DEF Close, Crash, Drop, Restart, SessionEnds
    <3>4. QED
      BY <2>b, <3>2, <3>3
  <2>10. QED
    BY <2>1, <2>2, <2>3, <2>4, <2>5, <2>6, <2>7, <2>8 DEF Round
<1>3. QED
  BY <1>1, <1>2, TypesHold, PTL DEF Spec, SoleRunnerSpec, Sole!Spec
=============================================================================
