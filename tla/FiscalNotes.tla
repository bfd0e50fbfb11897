---------------------------- MODULE FiscalNotes ----------------------------
(***************************************************************************)
(* The fiscal note (NFC-e) of an order, api/src/invoices/                  *)
(* invoices.service.ts: issued by itself when the order is approved and by *)
(* the staff's button, cancelled by the staff, at Focus NFe, which keeps   *)
(* one note per ref "order-<id>".                                          *)
(*                                                                         *)
(* call[h].at names the statement the handler does next.  The store's      *)
(* fiscal data is complete and its plan includes notes: where not, the     *)
(* handler ends before it touches anything.                                *)
(***************************************************************************)
EXTENDS Naturals, Sequences

CONSTANTS
    Orders,      \* orders that have been approved
    Handlers,    \* requests being handled
    MaxIssues,   \* bound: calls of issueForOrder and cancelInvoice
    MaxLosses    \* bound: answers lost and processes that die

VARIABLES
    note,        \* the Invoice row of each order
    nextNumber,  \* Store.nfeNextNumber
    focus,       \* the note of each order at Focus NFe
    sent,        \* history: notes transmitted, in order
    failed,      \* history: orders whose note has once not been authorised
    call,        \* where each handler is
    issues, losses   \* bounds

fiscalBounds == <<issues, losses>>
fiscalVars == <<note, nextNumber, focus, sent, failed, call, fiscalBounds>>

-----------------------------------------------------------------------------
(* Rows *)

\* "none": there is no row.
NoteStatus == {"none", "PENDING", "AUTHORIZED", "REJECTED", "ERROR", "CANCELLED"}
NoNote == [status |-> "none", number |-> 0]

AnyOrder == CHOOSE o \in Orders : TRUE
\* found: a row was there when the handler looked; status: the answer.
NoCall == [at |-> "idle", order |-> AnyOrder, found |-> FALSE, number |-> 0, status |-> "none"]

StartCall(h, at, o, found) ==
    /\ call[h].at = "idle" /\ issues < MaxIssues /\ issues' = issues + 1
    /\ call' = [call EXCEPT ![h] = [NoCall EXCEPT !.at = at, !.order = o, !.found = found]]
    /\ UNCHANGED <<note, nextNumber, focus, sent, failed, losses>>
StepTo(h, at) == call' = [call EXCEPT ![h].at = at]
EndCall(h) == call' = [call EXCEPT ![h] = NoCall]
Loss == losses < MaxLosses /\ losses' = losses + 1 /\ UNCHANGED issues

SetStatus(o, s) ==
    /\ note' = [note EXCEPT ![o].status = s]
    /\ failed' = IF s \in {"REJECTED", "ERROR", "CANCELLED"} THEN failed \cup {o} ELSE failed

-----------------------------------------------------------------------------
(* issueForOrder *)

\* Mutant: a note being processed is transmitted again.
NotAuthorized(row) == row.status # "AUTHORIZED"

\* Only a note that failed or was cancelled, or none, is issued (again).
Issuable(row) == row.status \notin {"AUTHORIZED", "PENDING"}

Issue(h, o) ==
    /\ Issuable(note[o])
    /\ StartCall(h, "reserve", o, note[o].status # "none")

\* Mutant: the number is read; the sequence moves when the note is authorised.
ReadNumber(n) == nextNumber' = IF \E o \in Orders : note[o].number = n /\ note[o].status = "AUTHORIZED" THEN n + 1 ELSE n

\* UPDATE ... RETURNING: one statement takes the number and moves the sequence.
TakeNumber(n) == nextNumber' = n + 1

ReserveNumber(h) ==
    /\ call[h].at = "reserve"
    /\ TakeNumber(nextNumber)
    /\ call' = [call EXCEPT ![h].at = "save", ![h].number = nextNumber]
    /\ UNCHANGED <<note, focus, sent, failed, fiscalBounds>>

\* Invoice.orderId is unique: of two handlers that saw no row the second one's
\* create throws.
MayWrite(h) == call[h].found \/ note[call[h].order].status = "none"

SavePending(h) ==
    /\ call[h].at = "save" /\ MayWrite(h)
    /\ note' = [note EXCEPT ![call[h].order] = [status |-> "PENDING", number |-> call[h].number]]
    /\ StepTo(h, "post")
    /\ UNCHANGED <<nextNumber, focus, sent, failed, fiscalBounds>>

SaveThrows(h) ==
    /\ call[h].at = "save" /\ ~MayWrite(h) /\ EndCall(h)
    /\ UNCHANGED <<note, nextNumber, focus, sent, failed, fiscalBounds>>

\* What Focus answers to a POST, by mapFocusStatus: a ref it has, processing,
\* authorised or cancelled, is refused.
Verdict == [authorized |-> "AUTHORIZED", processing |-> "PENDING", rejected |-> "REJECTED"]

\* Mutant: an answer without a status counts as authorised.
Unknown == "AUTHORIZED"
Refusal == "ERROR"

Transmit(h) ==
    LET o == call[h].order IN
    /\ call[h].at = "post"
    /\ sent' = Append(sent, [order |-> o, number |-> call[h].number])
    /\ IF focus[o] \in {"none", "rejected"}
       THEN \E v \in DOMAIN Verdict :
              /\ focus' = [focus EXCEPT ![o] = v]
              /\ call' = [call EXCEPT ![h].at = "store", ![h].status = Verdict[v]]
       ELSE /\ call' = [call EXCEPT ![h].at = "store", ![h].status = Refusal]
            /\ UNCHANGED focus
    /\ UNCHANGED <<note, nextNumber, failed, fiscalBounds>>

StoreAnswer(h) ==
    /\ call[h].at = "store"
    /\ SetStatus(call[h].order, call[h].status) /\ EndCall(h)
    /\ UNCHANGED <<nextNumber, focus, sent, fiscalBounds>>

\* The answer does not come back, the catch notes an error; the note may have
\* been authorised all the same.
AnswerLost(h) ==
    /\ call[h].at = "store" /\ Loss
    /\ SetStatus(call[h].order, "ERROR") /\ EndCall(h)
    /\ UNCHANGED <<nextNumber, focus, sent>>

-----------------------------------------------------------------------------
(* cancelInvoice *)

CancelNote(h, o) == note[o].status = "AUTHORIZED" /\ StartCall(h, "delete", o, TRUE)

\* DELETE: refused, unless the note is authorised or cancelled already.
Delete(h) ==
    LET o == call[h].order IN
    /\ call[h].at = "delete"
    /\ IF focus[o] \in {"authorized", "cancelled"}
       THEN focus' = [focus EXCEPT ![o] = "cancelled"] /\ StepTo(h, "cancelled")
       ELSE UNCHANGED focus /\ EndCall(h)
    /\ UNCHANGED <<note, nextNumber, sent, failed, fiscalBounds>>

StoreCancelled(h) ==
    /\ call[h].at = "cancelled"
    /\ SetStatus(call[h].order, "CANCELLED") /\ EndCall(h)
    /\ UNCHANGED <<nextNumber, focus, sent, fiscalBounds>>

-----------------------------------------------------------------------------
(* Around them *)

\* Focus ends the processing; nobody asks it again.
Settle(o) ==
    /\ focus[o] = "processing"
    /\ \E v \in {"authorized", "rejected"} : focus' = [focus EXCEPT ![o] = v]
    /\ UNCHANGED <<note, nextNumber, sent, failed, call, fiscalBounds>>

\* The process dies, or the cancellation's answer is lost and it throws.
HandlerDies(h) ==
    /\ call[h].at # "idle" /\ Loss /\ EndCall(h)
    /\ UNCHANGED <<note, nextNumber, focus, sent, failed>>

FiscalInit ==
    /\ note = [o \in Orders |-> NoNote] /\ nextNumber = 1
    /\ focus = [o \in Orders |-> "none"]
    /\ sent = <<>> /\ failed = {}
    /\ call = [h \in Handlers |-> NoCall]
    /\ issues = 0 /\ losses = 0

Handle(h) ==
    \/ ReserveNumber(h) \/ SavePending(h) \/ SaveThrows(h) \/ Transmit(h) \/ StoreAnswer(h)
    \/ AnswerLost(h) \/ Delete(h) \/ StoreCancelled(h) \/ HandlerDies(h)

FiscalNext ==
    \/ \E h \in Handlers, o \in Orders : Issue(h, o) \/ CancelNote(h, o)
    \/ \E h \in Handlers : Handle(h)
    \/ \E o \in Orders : Settle(o)

FiscalSpec == FiscalInit /\ [][FiscalNext]_fiscalVars

-----------------------------------------------------------------------------
(* Properties *)

\* No number is transmitted twice, in whatever order handlers reserve, transmit
\* and die: "número repetido não se resolve" (invoices.service.ts:338).
NumberedOnce ==
    \A i, j \in DOMAIN sent : sent[i].number = sent[j].number => i = j

\* An order's note is transmitted a second time only after a failure or a
\* cancellation was noted: not because two handlers issue it at once, nor
\* because a process died in between.
ResentForCause ==
    \A i, j \in DOMAIN sent : i < j /\ sent[i].order = sent[j].order => sent[i].order \in failed

\* What the row says of an authorised or cancelled note is so at Focus, whatever
\* answers come late or not at all.
NoteIsTrue ==
    \A o \in Orders :
      /\ note[o].status = "AUTHORIZED" => focus[o] \in {"authorized", "cancelled"}
      /\ note[o].status = "CANCELLED" => focus[o] = "cancelled"
=============================================================================
