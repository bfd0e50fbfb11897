--------------------------- MODULE PartnerProofs ----------------------------
(***************************************************************************)
(* The two partners that answer a request: the provider of fiscal notes,   *)
(* and Mercado Pago when it grants tokens.  What FiscalNotes and           *)
(* MpConnection promise of the rows those answers are stored in, for any   *)
(* orders, accounts and handlers.                                          *)
(***************************************************************************)
EXTENDS FiscalNotes, MpConnection, TLAPS

-----------------------------------------------------------------------------
(* Fiscal notes.  The invariant has a part for each promise: Numbers for   *)
(* the numbers, Causes for what is transmitted again, Answers for what the *)
(* rows say.                                                               *)

Rows == [status : NoteStatus, number : Nat]
Notes == [order : Orders, number : Nat]
Stops == {"idle", "reserve", "save", "post", "store", "delete", "cancelled"}
Calls == [at : Stops, order : Orders \cup {AnyOrder}, found : BOOLEAN, number : Nat, status : NoteStatus]
Places == {"none", "authorized", "processing", "rejected", "cancelled"}
Failed == {"REJECTED", "ERROR", "CANCELLED"}

FiscalTyped ==
    /\ note \in [Orders -> Rows] /\ nextNumber \in Nat
    /\ focus \in [Orders -> Places]
    /\ sent \in Seq(Notes) /\ failed \in SUBSET Orders
    /\ call \in [Handlers -> Calls]
    /\ \A h \in Handlers : call[h].at # "idle" => call[h].order \in Orders

\* h has a number of its own, not transmitted yet.
Carries(h) == call[h].at \in {"save", "post"}

\* Numbers in hand and numbers transmitted are below the sequence, and apart.
Numbers ==
    /\ \A h \in Handlers : Carries(h) =>
         /\ call[h].number < nextNumber
         /\ \A g \in Handlers \ {h} : Carries(g) => call[g].number # call[h].number
         /\ \A i \in DOMAIN sent : sent[i].number # call[h].number
    /\ \A i \in DOMAIN sent : sent[i].number < nextNumber
    /\ NumberedOnce

\* A handler that found a row works on an order that has failed; one that did
\* not is the only one about to transmit its note, which was not transmitted.
Causes ==
    /\ \A o \in Orders : note[o].status \in Failed => o \in failed
    /\ \A h \in Handlers : call[h].at \in {"reserve", "save"} /\ call[h].found => call[h].order \in failed
    /\ \A i \in DOMAIN sent : note[sent[i].order].status # "none"
    /\ \A h \in Handlers : call[h].at = "post" => note[call[h].order].status # "none"
    /\ \A h \in Handlers : call[h].at = "post" /\ call[h].order \notin failed =>
         /\ \A i \in DOMAIN sent : sent[i].order # call[h].order
         /\ \A g \in Handlers \ {h} : call[g].at = "post" => call[g].order # call[h].order
    /\ ResentForCause

\* So is what a handler is about to write.
Answers ==
    /\ NoteIsTrue
    /\ \A h \in Handlers :
         /\ call[h].at = "store" =>
              /\ call[h].status \in {"AUTHORIZED", "PENDING", "REJECTED", "ERROR"}
              /\ call[h].status = "AUTHORIZED" => focus[call[h].order] \in {"authorized", "cancelled"}
         /\ call[h].at = "cancelled" => focus[call[h].order] = "cancelled"

FiscalInv == FiscalTyped /\ Numbers /\ Causes /\ Answers

-----------------------------------------------------------------------------
LEMMA IdleCall == NoCall \in Calls /\ NoCall.at = "idle"
<1>1. /\ "idle" \in Stops /\ AnyOrder \in Orders \cup {AnyOrder} /\ FALSE \in BOOLEAN
      /\ 0 \in Nat /\ "none" \in NoteStatus
  BY DEF NoteStatus, Stops
<1> DEFINE idle == [at |-> "idle", order |-> AnyOrder, found |-> FALSE, number |-> 0, status |-> "none"]
<1>2. idle \in [at : Stops, order : Orders \cup {AnyOrder}, found : BOOLEAN, number : Nat, status : NoteStatus]
  <2> HIDE DEF AnyOrder
  <2> QED BY <1>1
<1>4. NoCall \in Calls
  BY <1>2 DEF NoCall, Calls
<1>3. NoCall.at = "idle"
  BY Zenon DEF NoCall
<1> QED
  BY <1>4, <1>3

LEMMA SentNotes == FiscalInv => \A i \in DOMAIN sent : sent[i] \in Notes
<1> SUFFICES ASSUME FiscalInv, NEW i \in DOMAIN sent PROVE sent[i] \in Notes OBVIOUS
<1>1. sent \in Seq(Notes) BY DEF FiscalInv, FiscalTyped
<1>2. i \in 1..Len(sent) BY <1>1
<1> QED BY <1>1, <1>2

\* Neither notes nor numbers nor handlers at the start.
LEMMA FiscalStart == FiscalInit => FiscalInv
<1> SUFFICES ASSUME FiscalInit PROVE FiscalInv OBVIOUS
<1> USE DEF FiscalInit
<1>1. NoNote \in Rows /\ NoNote.status = "none" BY DEF NoNote, Rows, NoteStatus
<1>2. NoCall \in Calls /\ NoCall.at = "idle" BY IdleCall
<1>3. FiscalTyped BY <1>1, <1>2 DEF FiscalTyped, Places
<1>4. Numbers BY <1>2 DEF Numbers, Carries, NumberedOnce
<1>5. Causes BY <1>1, <1>2 DEF Causes, ResentForCause, Failed
<1>6. Answers BY <1>1, <1>2 DEF Answers, NoteIsTrue
<1> QED BY <1>3, <1>4, <1>5, <1>6 DEF FiscalInv

\* A handler that ends, alone, leaves everything in order.
LEMMA Ended ==
    ASSUME FiscalInv, NEW h \in Handlers, EndCall(h), UNCHANGED <<note, nextNumber, focus, sent, failed>>
    PROVE  FiscalInv'
<1> USE DEF FiscalInv, EndCall
<1>1. NoCall \in Calls /\ NoCall.at = "idle" BY IdleCall
<1>2. \A g \in Handlers : call'[g] = IF g = h THEN NoCall ELSE call[g]
  BY DEF FiscalTyped
<1>3. FiscalTyped'
  BY <1>1, <1>2 DEF FiscalTyped
<1>4. Numbers'
  BY <1>1, <1>2 DEF Numbers, Carries, NumberedOnce
<1>5. Causes'
  BY <1>1, <1>2 DEF Causes, ResentForCause
<1>6. Answers'
  BY <1>1, <1>2 DEF Answers, NoteIsTrue
<1> QED
  BY <1>3, <1>4, <1>5, <1>6

\* A call that starts holds no number yet; it found a row only if one failed.
LEMMA Started ==
    ASSUME FiscalInv, NEW h \in Handlers, NEW o \in Orders, NEW found \in BOOLEAN, NEW at \in {"reserve", "delete"},
           StartCall(h, at, o, found), at = "reserve" /\ found => o \in failed
    PROVE  FiscalInv'
<1> DEFINE new == [NoCall EXCEPT !.at = at, !.order = o, !.found = found]
<1>1. NoCall \in Calls
  BY IdleCall
<1>2. new \in Calls /\ new.at = at /\ new.order = o /\ new.found = found
  <2>1. at \in Stops
    BY DEF Stops
  <2>2. new \in Calls
    BY <1>1, <2>1 DEF Calls
  <2>3. new.at = at /\ new.order = o /\ new.found = found
    BY <1>1, <2>1 DEF Calls
  <2> QED
    BY <2>2, <2>3
<1>3. call' = [call EXCEPT ![h] = new] /\ UNCHANGED <<note, nextNumber, focus, sent, failed>>
  BY DEF StartCall
<1> HIDE DEF new
<1> USE DEF FiscalInv
<1>4. \A g \in Handlers : call'[g] = IF g = h THEN new ELSE call[g]
  BY <1>3 DEF FiscalTyped
<1>5. FiscalTyped'
  BY <1>2, <1>3, <1>4 DEF FiscalTyped
<1>6. Numbers'
  BY <1>2, <1>3, <1>4 DEF Numbers, Carries, NumberedOnce
<1>7. Causes'
  BY <1>2, <1>3, <1>4 DEF Causes, ResentForCause
<1>8. Answers'
  BY <1>2, <1>3, <1>4 DEF Answers, NoteIsTrue
<1> QED
  BY <1>5, <1>6, <1>7, <1>8

\* A note that failed, and its order, are known before it is issued again.
LEMMA Starts == FiscalInv /\ (\E h \in Handlers, o \in Orders : Issue(h, o) \/ CancelNote(h, o)) => FiscalInv'
<1> SUFFICES ASSUME FiscalInv, NEW h \in Handlers, NEW o \in Orders, Issue(h, o) \/ CancelNote(h, o)
             PROVE  FiscalInv'
  OBVIOUS
<1>1. CASE Issue(h, o)
  <2>1. note[o].status \in NoteStatus
    BY DEF FiscalInv, FiscalTyped, Rows
  <2>2. note[o].status # "none" => o \in failed
    BY <1>1, <2>1 DEF Issue, Issuable, NoteStatus, FiscalInv, Causes, Failed
  <2> DEFINE found == note[o].status # "none"
  <2>3. StartCall(h, "reserve", o, found)
    BY <1>1 DEF Issue
  <2>4. found \in BOOLEAN
    OBVIOUS
  <2>5. found => o \in failed
    BY <2>2
  <2> HIDE DEF found
  <2> QED
    BY <2>3, <2>4, <2>5, Started
<1>2. CASE CancelNote(h, o)
  BY <1>2, Started DEF CancelNote
<1> QED
  BY <1>1, <1>2

\* The sequence moves past every number in hand.
LEMMA ReserveApart == FiscalInv /\ (\E h \in Handlers : ReserveNumber(h)) => FiscalInv'
<1> SUFFICES ASSUME FiscalInv, NEW h \in Handlers, ReserveNumber(h) PROVE FiscalInv'
  OBVIOUS
<1> DEFINE new == [call[h] EXCEPT !.at = "save", !.number = nextNumber]
<1>1. call[h] \in Calls /\ call[h].at = "reserve" /\ nextNumber \in Nat
  BY DEF FiscalInv, FiscalTyped, ReserveNumber
<1>2. new \in Calls /\ new.at = "save" /\ new.number = nextNumber
  BY <1>1 DEF Calls, Stops
<1>3. new.order = call[h].order /\ new.found = call[h].found
  BY <1>1 DEF Calls
<1>4. /\ call' = [call EXCEPT ![h] = new] /\ nextNumber' = nextNumber + 1
      /\ UNCHANGED <<note, focus, sent, failed>>
  BY DEF ReserveNumber, TakeNumber
<1> HIDE DEF new
<1>5. \A g \in Handlers : call'[g] = IF g = h THEN new ELSE call[g]
  BY <1>4 DEF FiscalInv, FiscalTyped
<1>6. FiscalTyped'
  BY <1>1, <1>2, <1>3, <1>4, <1>5 DEF FiscalInv, FiscalTyped
<1>7. \A g \in Handlers : call[g].number \in Nat
  BY DEF FiscalInv, FiscalTyped, Calls
<1>8. \A i \in DOMAIN sent : sent[i].number \in Nat
  BY SentNotes DEF Notes
<1>9. Numbers'
  BY <1>1, <1>2, <1>4, <1>5, <1>7, <1>8 DEF FiscalInv, Numbers, Carries, NumberedOnce
<1>10. Causes'
  BY <1>1, <1>2, <1>3, <1>4, <1>5 DEF FiscalInv, Causes, ResentForCause
<1>11. Answers'
  BY <1>2, <1>4, <1>5 DEF FiscalInv, Answers, NoteIsTrue
<1> QED
  BY <1>6, <1>9, <1>10, <1>11 DEF FiscalInv

\* Whoever saves a row without having found one saves the first.
LEMMA SaveFirst == FiscalInv /\ (\E h \in Handlers : SavePending(h)) => FiscalInv'
<1> SUFFICES ASSUME FiscalInv, NEW h \in Handlers, SavePending(h) PROVE FiscalInv'
  OBVIOUS
<1> DEFINE o == call[h].order
           row == [status |-> "PENDING", number |-> call[h].number]
           new == [call[h] EXCEPT !.at = "post"]
<1>1. call[h] \in Calls /\ call[h].at = "save" /\ o \in Orders /\ call[h].number \in Nat
  BY DEF FiscalInv, FiscalTyped, SavePending, Calls
<1>2. row \in Rows /\ row.status = "PENDING"
  BY <1>1 DEF Rows, NoteStatus
<1>3. new \in Calls /\ new.at = "post" /\ new.number = call[h].number
  BY <1>1 DEF Calls, Stops
<1>4. new.order = o /\ new.found = call[h].found
  BY <1>1 DEF Calls
<1>5. /\ call' = [call EXCEPT ![h] = new] /\ note' = [note EXCEPT ![o] = row]
      /\ UNCHANGED <<nextNumber, focus, sent, failed>>
  BY DEF SavePending, StepTo
<1>6. o \notin failed => note[o].status = "none"
  BY <1>1 DEF SavePending, MayWrite, FiscalInv, Causes
<1> HIDE DEF new, row, o
<1>7. \A g \in Handlers : call'[g] = IF g = h THEN new ELSE call[g]
  BY <1>5 DEF FiscalInv, FiscalTyped
<1>8. \A q \in Orders : note'[q] = IF q = o THEN row ELSE note[q]
  BY <1>5 DEF FiscalInv, FiscalTyped
<1>9. FiscalTyped'
  BY <1>1, <1>2, <1>3, <1>4, <1>5, <1>7 DEF FiscalInv, FiscalTyped
<1>10. Numbers'
  BY <1>1, <1>3, <1>5, <1>7 DEF FiscalInv, Numbers, Carries, NumberedOnce
<1>11. \A i \in DOMAIN sent : sent[i].order \in Orders
  BY SentNotes DEF Notes
<1>12. \A g \in Handlers : call[g].at = "post" => call[g].order \in Orders
  BY DEF FiscalInv, FiscalTyped
<1>13. Causes'
  <2>1. (\A q \in Orders : note[q].status \in Failed => q \in failed)'
    BY <1>2, <1>5, <1>8 DEF FiscalInv, Causes, Failed
  <2>2. (\A g \in Handlers : call[g].at \in {"reserve", "save"} /\ call[g].found => call[g].order \in failed)'
    BY <1>3, <1>5, <1>7 DEF FiscalInv, Causes
  <2>3. (\A i \in DOMAIN sent : note[sent[i].order].status # "none")'
    BY <1>2, <1>5, <1>8, <1>11 DEF FiscalInv, Causes
  <2>4. (\A g \in Handlers : call[g].at = "post" => note[call[g].order].status # "none")'
    BY <1>1, <1>2, <1>4, <1>7, <1>8, <1>12 DEF FiscalInv, Causes
  <2>5. (\A g \in Handlers : call[g].at = "post" /\ call[g].order \notin failed =>
           /\ \A i \in DOMAIN sent : sent[i].order # call[g].order
           /\ \A k \in Handlers \ {g} : call[k].at = "post" => call[k].order # call[g].order)'
    BY <1>1, <1>4, <1>5, <1>6, <1>7 DEF FiscalInv, Causes
  <2>6. ResentForCause'
    BY <1>5 DEF FiscalInv, Causes, ResentForCause
  <2> QED
    BY <2>1, <2>2, <2>3, <2>4, <2>5, <2>6 DEF Causes
<1>14. Answers'
  BY <1>1, <1>2, <1>3, <1>5, <1>7, <1>8 DEF FiscalInv, Answers, NoteIsTrue
<1> QED
  BY <1>9, <1>10, <1>13, <1>14 DEF FiscalInv

LEMMA Verdicts ==
    \A v \in DOMAIN Verdict :
      /\ v \in {"authorized", "processing", "rejected"}
      /\ Verdict[v] \in {"AUTHORIZED", "PENDING", "REJECTED"}
      /\ Verdict[v] = "AUTHORIZED" => v = "authorized"
BY DEF Verdict

\* What is transmitted has a number that was in one hand only.
LEMMA TransmitOnce == FiscalInv /\ (\E h \in Handlers : Transmit(h)) => FiscalInv'
<1> SUFFICES ASSUME FiscalInv, NEW h \in Handlers, Transmit(h) PROVE FiscalInv'
  OBVIOUS
<1> DEFINE o == call[h].order
           e == [order |-> o, number |-> call[h].number]
<1>1. call[h] \in Calls /\ call[h].at = "post" /\ o \in Orders /\ call[h].number \in Nat
  BY DEF FiscalInv, FiscalTyped, Transmit, Calls
<1>2. e \in Notes /\ e.order = o /\ e.number = call[h].number
  BY <1>1 DEF Notes
<1>3. sent' = Append(sent, e) /\ UNCHANGED <<note, nextNumber, failed>>
  BY DEF Transmit
<1>4. PICK s \in {"AUTHORIZED", "PENDING", "REJECTED", "ERROR"} :
        /\ call' = [call EXCEPT ![h].at = "store", ![h].status = s]
        /\ \/ /\ focus[o] \in {"none", "rejected"}
              /\ \E v \in {"authorized", "processing", "rejected"} :
                   focus' = [focus EXCEPT ![o] = v] /\ (s = "AUTHORIZED" => v = "authorized")
           \/ s = "ERROR" /\ UNCHANGED focus
  BY Verdicts DEF Transmit, Refusal
<1> DEFINE new == [call[h] EXCEPT !.at = "store", !.status = s]
<1>5. new \in Calls /\ new.at = "store" /\ new.status = s
  BY <1>1 DEF Calls, Stops, NoteStatus
<1>6. new.order = o
  BY <1>1 DEF Calls
<1>7. call' = [call EXCEPT ![h] = new]
  BY <1>4
<1> HIDE DEF new, e
<1>8. \A g \in Handlers : call'[g] = IF g = h THEN new ELSE call[g]
  BY <1>7 DEF FiscalInv, FiscalTyped
<1>9. \A q \in Orders : q # o => focus'[q] = focus[q]
  BY <1>4 DEF FiscalInv, FiscalTyped
<1>10. focus[o] \in {"authorized", "cancelled"} => focus'[o] = focus[o]
  BY <1>4
<1>11. s = "AUTHORIZED" => focus'[o] = "authorized"
  BY <1>1, <1>4 DEF FiscalInv, FiscalTyped
<1>12. focus' \in [Orders -> Places]
  BY <1>1, <1>4 DEF FiscalInv, FiscalTyped, Places
<1>13. sent \in Seq(Notes) /\ sent' \in Seq(Notes)
  BY <1>2, <1>3 DEF FiscalInv, FiscalTyped
<1>14. \A i \in DOMAIN sent' :
         \/ i \in DOMAIN sent /\ sent'[i] = sent[i]
         \/ i = Len(sent) + 1 /\ sent'[i] = e
  <2>1. Len(sent) \in Nat /\ DOMAIN sent = 1..Len(sent)
    BY <1>13
  <2>2. DOMAIN sent' = 1..(Len(sent) + 1)
    BY <1>2, <1>3, <1>13, <2>1
  <2>3. \A i \in 1..Len(sent) : sent'[i] = sent[i]
    BY <1>2, <1>3, <1>13, <2>1
  <2>4. sent'[Len(sent) + 1] = e
    BY <1>2, <1>3, <1>13, <2>1
  <2>5. \A i \in 1..(Len(sent) + 1) : i \in 1..Len(sent) \/ i = Len(sent) + 1
    BY <2>1
  <2>6. \A i \in DOMAIN sent' : i \in DOMAIN sent \/ i = Len(sent) + 1
    BY <2>1, <2>2, <2>5, Zenon
  <2>7. \A i \in DOMAIN sent : sent'[i] = sent[i]
    BY <2>1, <2>3, Zenon
  <2> QED
    BY <2>4, <2>6, <2>7
<1>15. \A i \in DOMAIN sent : i \in 1..Len(sent)
  BY <1>13
<1>16. FiscalTyped'
  BY <1>1, <1>3, <1>5, <1>6, <1>7, <1>8, <1>12, <1>13 DEF FiscalInv, FiscalTyped
<1>17. Numbers'
  <2>1. (\A g \in Handlers : Carries(g) => g # h /\ call[g].number < nextNumber)'
    BY <1>3, <1>5, <1>8 DEF FiscalInv, Numbers, Carries
  <2>2. (\A g \in Handlers : Carries(g) => \A k \in Handlers \ {g} : Carries(k) => call[k].number # call[g].number)'
    BY <1>5, <1>8 DEF FiscalInv, Numbers, Carries
  <2>3. (\A g \in Handlers : Carries(g) => \A i \in DOMAIN sent : sent[i].number # call[g].number)'
    BY <1>1, <1>2, <1>5, <1>8, <1>14 DEF FiscalInv, Numbers, Carries
  <2>4. (\A i \in DOMAIN sent : sent[i].number < nextNumber)'
    BY <1>1, <1>2, <1>3, <1>14 DEF FiscalInv, Numbers, Carries
  <2>5. NumberedOnce'
    BY <1>1, <1>2, <1>14 DEF FiscalInv, Numbers, Carries, NumberedOnce
  <2> QED
    BY <2>1, <2>2, <2>3, <2>4, <2>5 DEF Numbers
<1>18. Causes'
  <2>1. (\A q \in Orders : note[q].status \in Failed => q \in failed)'
    BY <1>3 DEF FiscalInv, Causes, Failed
  <2>2. (\A g \in Handlers : call[g].at \in {"reserve", "save"} /\ call[g].found => call[g].order \in failed)'
    BY <1>3, <1>5, <1>8 DEF FiscalInv, Causes
  <2>3. (\A i \in DOMAIN sent : note[sent[i].order].status # "none")'
    BY <1>1, <1>2, <1>3, <1>14 DEF FiscalInv, Causes
  <2>4. (\A g \in Handlers : call[g].at = "post" => note[call[g].order].status # "none")'
    BY <1>3, <1>5, <1>8 DEF FiscalInv, Causes
  <2>5. (\A g \in Handlers : call[g].at = "post" /\ call[g].order \notin failed =>
           /\ \A i \in DOMAIN sent : sent[i].order # call[g].order
           /\ \A k \in Handlers \ {g} : call[k].at = "post" => call[k].order # call[g].order)'
    BY <1>1, <1>2, <1>3, <1>5, <1>8, <1>14 DEF FiscalInv, Causes
  <2>6. ResentForCause'
    <3> SUFFICES ASSUME NEW i \in DOMAIN sent', NEW j \in DOMAIN sent', i < j,
                        sent'[i].order = sent'[j].order
                 PROVE  sent'[i].order \in failed
      BY <1>3 DEF ResentForCause
    <3>1. CASE j \in DOMAIN sent /\ sent'[j] = sent[j]
      BY <3>1, <1>14, <1>15, <1>13 DEF FiscalInv, Causes, ResentForCause
    <3>2. CASE j = Len(sent) + 1 /\ sent'[j] = e
      <4>1. i \in DOMAIN sent /\ sent'[i] = sent[i]
        BY <3>2, <1>14
      <4> QED
        BY <3>2, <4>1, <1>1, <1>2 DEF FiscalInv, Causes
    <3> QED
      BY <3>1, <3>2, <1>14
  <2> QED
    BY <2>1, <2>2, <2>3, <2>4, <2>5, <2>6 DEF Causes
<1>19. Answers'
  <2>1. NoteIsTrue'
    BY <1>3, <1>9, <1>10 DEF FiscalInv, Answers, NoteIsTrue
  <2>2. \A g \in Handlers : call[g].at # "idle" => call[g].order \in Orders
    BY DEF FiscalInv, FiscalTyped
  <2>3. ASSUME NEW g \in Handlers, g # h
        PROVE  (/\ call[g].at = "store" =>
                     /\ call[g].status \in {"AUTHORIZED", "PENDING", "REJECTED", "ERROR"}
                     /\ call[g].status = "AUTHORIZED" => focus[call[g].order] \in {"authorized", "cancelled"}
                /\ call[g].at = "cancelled" => focus[call[g].order] = "cancelled")'
    BY <2>2, <2>3, <1>8, <1>9, <1>10 DEF FiscalInv, Answers
  <2>4. call'[h] = new
    BY <1>8
  <2> QED
    BY <2>1, <2>3, <2>4, <1>5, <1>6, <1>11 DEF Answers
<1> QED
  BY <1>16, <1>17, <1>18, <1>19 DEF FiscalInv

\* Where a handler only writes the status it brings, and ends, what is left of
\* the invariant is that the status is true.
LEMMA Written ==
    ASSUME FiscalInv, NEW h \in Handlers, NEW s \in {"AUTHORIZED", "PENDING", "REJECTED", "ERROR", "CANCELLED"},
           call[h].at \in {"store", "cancelled"}, SetStatus(call[h].order, s), EndCall(h),
           s = "AUTHORIZED" => focus[call[h].order] \in {"authorized", "cancelled"},
           s = "CANCELLED" => focus[call[h].order] = "cancelled",
           UNCHANGED <<nextNumber, focus, sent>>
    PROVE  FiscalInv'
<1> DEFINE o == call[h].order
<1> USE DEF FiscalInv, EndCall
<1>1. NoCall \in Calls /\ NoCall.at = "idle" BY IdleCall
<1>2. \A g \in Handlers : call'[g] = IF g = h THEN NoCall ELSE call[g]
  BY DEF FiscalTyped
<1>3. o \in Orders /\ note[o] \in Rows
  BY DEF FiscalTyped
<1> DEFINE row == [note[o] EXCEPT !.status = s]
<1>4. row \in Rows /\ row.status = s
  BY <1>3 DEF Rows, NoteStatus
<1>5. note' = [note EXCEPT ![o] = row]
  BY DEF SetStatus
<1>6. failed' = IF s \in Failed THEN failed \cup {o} ELSE failed
  BY DEF SetStatus, Failed
<1> HIDE DEF row, o
<1>7. \A q \in Orders : note'[q] = IF q = o THEN row ELSE note[q]
  BY <1>5 DEF FiscalTyped
<1>8. failed \subseteq failed'
  BY <1>6
<1>9. FiscalTyped'
  BY <1>1, <1>2, <1>3, <1>4, <1>5, <1>6 DEF FiscalTyped
<1>10. Numbers'
  BY <1>1, <1>2 DEF Numbers, Carries, NumberedOnce
<1>11. \A i \in DOMAIN sent : sent[i].order \in Orders
  BY SentNotes DEF Notes
<1>12. \A g \in Handlers : call[g].at = "post" => call[g].order \in Orders
  BY DEF FiscalTyped
<1>13. Causes'
  <2>1. (\A q \in Orders : note[q].status \in Failed => q \in failed)'
    BY <1>4, <1>6, <1>7 DEF Causes
  <2>2. (\A g \in Handlers : call[g].at \in {"reserve", "save"} /\ call[g].found => call[g].order \in failed)'
    BY <1>1, <1>2, <1>8 DEF Causes
  <2>3. (\A i \in DOMAIN sent : note[sent[i].order].status # "none")'
    BY <1>4, <1>7, <1>11 DEF Causes
  <2>4. (\A g \in Handlers : call[g].at = "post" => note[call[g].order].status # "none")'
    BY <1>1, <1>2, <1>4, <1>7, <1>12 DEF Causes
  <2>5. (\A g \in Handlers : call[g].at = "post" /\ call[g].order \notin failed =>
           /\ \A i \in DOMAIN sent : sent[i].order # call[g].order
           /\ \A k \in Handlers \ {g} : call[k].at = "post" => call[k].order # call[g].order)'
    BY <1>1, <1>2, <1>8 DEF Causes
  <2>6. ResentForCause'
    BY <1>8 DEF Causes, ResentForCause
  <2> QED
    BY <2>1, <2>2, <2>3, <2>4, <2>5, <2>6 DEF Causes
<1>14. Answers'
  <2>1. NoteIsTrue'
    BY <1>4, <1>7 DEF Answers, NoteIsTrue, o
  <2> QED
    BY <2>1, <1>1, <1>2 DEF Answers
<1> QED
  BY <1>9, <1>10, <1>13, <1>14

LEMMA AnswersWrite ==
    FiscalInv /\ (\E h \in Handlers : StoreAnswer(h) \/ AnswerLost(h) \/ StoreCancelled(h)) => FiscalInv'
<1> SUFFICES ASSUME FiscalInv, NEW h \in Handlers, StoreAnswer(h) \/ AnswerLost(h) \/ StoreCancelled(h)
             PROVE  FiscalInv'
  OBVIOUS
<1>1. CASE StoreAnswer(h)
  <2>1. /\ call[h].status \in {"AUTHORIZED", "PENDING", "REJECTED", "ERROR"}
        /\ call[h].status = "AUTHORIZED" => focus[call[h].order] \in {"authorized", "cancelled"}
    BY <1>1 DEF StoreAnswer, FiscalInv, Answers
  <2> QED
    BY <1>1, <2>1, Written DEF StoreAnswer
<1>2. CASE AnswerLost(h)
  BY <1>2, Written DEF AnswerLost
<1>3. CASE StoreCancelled(h)
  <2>1. focus[call[h].order] = "cancelled"
    BY <1>3 DEF StoreCancelled, FiscalInv, Answers
  <2> QED
    BY <1>3, <2>1, Written DEF StoreCancelled
<1> QED
  BY <1>1, <1>2, <1>3

\* Focus settles what it processes and cancels what it authorised: neither makes
\* what a row says untrue.
LEMMA FocusMoves ==
    FiscalInv /\ ((\E h \in Handlers : Delete(h)) \/ (\E o \in Orders : Settle(o))) => FiscalInv'
<1>1. ASSUME FiscalInv, NEW h \in Handlers, Delete(h) PROVE FiscalInv'
  <2>1. CASE focus[call[h].order] \in {"authorized", "cancelled"}
    <3> DEFINE o == call[h].order
               new == [call[h] EXCEPT !.at = "cancelled"]
    <3>1. call[h] \in Calls /\ call[h].at = "delete" /\ o \in Orders
      BY <1>1 DEF FiscalInv, FiscalTyped, Delete
    <3>2. new \in Calls /\ new.at = "cancelled"
      BY <3>1 DEF Calls, Stops
    <3>3. new.order = o
      BY <3>1 DEF Calls
    <3>4. /\ call' = [call EXCEPT ![h] = new] /\ focus' = [focus EXCEPT ![o] = "cancelled"]
          /\ UNCHANGED <<note, nextNumber, sent, failed>>
      BY <1>1, <2>1 DEF Delete, StepTo
    <3> HIDE DEF new
    <3>5. \A g \in Handlers : call'[g] = IF g = h THEN new ELSE call[g]
      BY <1>1, <3>4 DEF FiscalInv, FiscalTyped
    <3>6. \A q \in Orders : focus'[q] = IF q = o THEN "cancelled" ELSE focus[q]
      BY <1>1, <3>4 DEF FiscalInv, FiscalTyped
    <3>7. FiscalTyped'
      BY <1>1, <3>1, <3>2, <3>3, <3>4, <3>5 DEF FiscalInv, FiscalTyped, Places
    <3>8. Numbers'
      BY <1>1, <3>2, <3>4, <3>5 DEF FiscalInv, Numbers, Carries, NumberedOnce
    <3>9. Causes'
      BY <1>1, <3>2, <3>4, <3>5 DEF FiscalInv, Causes, ResentForCause
    <3>10. Answers'
      BY <1>1, <3>1, <3>2, <3>3, <3>4, <3>5, <3>6 DEF FiscalInv, FiscalTyped, Answers, NoteIsTrue
    <3> QED
      BY <3>7, <3>8, <3>9, <3>10 DEF FiscalInv
  <2>2. CASE focus[call[h].order] \notin {"authorized", "cancelled"}
    BY <1>1, <2>2, Ended DEF Delete
  <2> QED
    BY <2>1, <2>2
<1>2. ASSUME FiscalInv, NEW o \in Orders, Settle(o) PROVE FiscalInv'
  <2>1. PICK v \in {"authorized", "rejected"} : focus' = [focus EXCEPT ![o] = v]
    BY <1>2 DEF Settle
  <2>2. focus[o] = "processing" /\ UNCHANGED <<note, nextNumber, sent, failed, call>>
    BY <1>2 DEF Settle
  <2>3. \A q \in Orders : q # o => focus'[q] = focus[q]
    BY <1>2, <2>1 DEF FiscalInv, FiscalTyped
  <2>4. FiscalTyped'
    BY <1>2, <2>1, <2>2 DEF FiscalInv, FiscalTyped, Places
  <2>5. Numbers'
    BY <1>2, <2>2 DEF FiscalInv, Numbers, Carries, NumberedOnce
  <2>6. Causes'
    BY <1>2, <2>2 DEF FiscalInv, Causes, ResentForCause
  <2>7. Answers'
    BY <1>2, <2>2, <2>3 DEF FiscalInv, FiscalTyped, Answers, NoteIsTrue
  <2> QED
    BY <2>4, <2>5, <2>6, <2>7 DEF FiscalInv
<1> QED
  BY <1>1, <1>2

LEMMA Ends == FiscalInv /\ (\E h \in Handlers : SaveThrows(h) \/ HandlerDies(h)) => FiscalInv'
BY Ended DEF SaveThrows, HandlerDies

LEMMA Stays == FiscalInv /\ UNCHANGED fiscalVars => FiscalInv'
<1> SUFFICES ASSUME FiscalInv, UNCHANGED fiscalVars PROVE FiscalInv' OBVIOUS
<1> USE DEF FiscalInv, fiscalVars
<1>1. FiscalTyped' BY DEF FiscalTyped
<1>2. Numbers' BY DEF Numbers, Carries, NumberedOnce
<1>3. Causes' BY DEF Causes, ResentForCause
<1>4. Answers' BY DEF Answers, NoteIsTrue
<1> QED BY <1>1, <1>2, <1>3, <1>4

LEMMA FiscalInvariance == FiscalSpec => []FiscalInv
<1>1. FiscalInv /\ [FiscalNext]_fiscalVars => FiscalInv'
  BY Starts, ReserveApart, SaveFirst, TransmitOnce, AnswersWrite, FocusMoves, Ends, Stays
  DEF FiscalNext, Handle
<1> QED
  BY FiscalStart, <1>1, PTL DEF FiscalSpec

-----------------------------------------------------------------------------
\* No number is transmitted twice, whatever handlers overlap, die or lose their
\* answers: the single UPDATE of reserveInvoiceNumber is enough.
THEOREM NumbersApart == FiscalSpec => []NumberedOnce
<1>1. FiscalInv => NumberedOnce
  BY DEF FiscalInv, Numbers
<1> QED
  BY FiscalInvariance, <1>1, PTL

\* A note is transmitted again only after a failure or a cancellation: the row's
\* unique order keeps the handlers apart that issueForOrder's read does not.
THEOREM ResentAfterFailure == FiscalSpec => []ResentForCause
<1>1. FiscalInv => ResentForCause
  BY DEF FiscalInv, Causes
<1> QED
  BY FiscalInvariance, <1>1, PTL

\* What a row says of an authorised or cancelled note is so at Focus NFe.
THEOREM NotesAreTrue == FiscalSpec => []NoteIsTrue
<1>1. FiscalInv => NoteIsTrue
  BY DEF FiscalInv, Answers
<1> QED
  BY FiscalInvariance, <1>1, PTL

-----------------------------------------------------------------------------
(* The connection to Mercado Pago.  An answer's pair is new, so nobody can *)
(* spend it before it is stored; and whoever spent the stored one is about *)
(* to store another.                                                       *)

Pair == [account : Accounts \cup {"none"}, number : Nat]
Columns == [access : Pair, refresh : Pair, user : Accounts \cup {"none"}, fresh : BOOLEAN]
Jobs == [at : {"idle", "request", "store"}, kind : {"none", "code", "refresh"}, pair : Pair]

ConnectionTyped ==
    /\ store \in Columns /\ granted \in Nat /\ live \in SUBSET Pair
    /\ job \in [Workers -> Jobs] /\ lapses \in Nat

\* Every pair in sight was given before; those of live are not of a code.
Given ==
    /\ store.refresh.number <= granted
    /\ \A p \in live : p.number > 0 /\ p.number <= granted
    /\ \A w \in Workers : job[w].pair.number <= granted

\* A pair about to be stored is live, and in no other hands.
Kept ==
    \A w \in Workers : job[w].at = "store" =>
      /\ job[w].pair \in live
      /\ store.refresh # job[w].pair
      /\ \A v \in Workers \ {w} : job[v].pair # job[w].pair

Renewing == \E w \in Workers : job[w].at = "store"

TokenValid == lapses = 0 => store.refresh \in live \cup {NoPair} \/ Renewing

ConnectionInv == ConnectionTyped /\ Given /\ Kept /\ TokenValid

-----------------------------------------------------------------------------
\* Nothing is stored and nothing given at the start.
LEMMA ConnectionStart == ConnectionInit => ConnectionInv
<1> SUFFICES ASSUME ConnectionInit PROVE ConnectionInv OBVIOUS
<1> USE DEF ConnectionInit
<1>1. NoPair \in Pair /\ NoPair.number = 0 BY DEF NoPair, Pair
<1>2. Blank \in Columns /\ Blank.refresh = NoPair BY <1>1 DEF Blank, Columns
<1>3. NoJob \in Jobs /\ NoJob.pair = NoPair /\ NoJob.at = "idle" BY <1>1 DEF NoJob, Jobs
<1>4. ConnectionTyped BY <1>2, <1>3 DEF ConnectionTyped
<1>5. Given BY <1>1, <1>2, <1>3 DEF Given
<1>6. Kept BY <1>3 DEF Kept
<1>7. TokenValid BY <1>2 DEF TokenValid
<1> QED BY <1>4, <1>5, <1>6, <1>7 DEF ConnectionInv

\* A worker that takes or ends a job, and stores nothing, disturbs the others
\* only by the pair it takes: which must be given and in nobody's hands.
LEMMA Taken ==
    ASSUME ConnectionInv, NEW w \in Workers, NEW new \in Jobs, Goes(w, new),
           job[w].at # "store", new.at # "store", new.pair.number <= granted,
           \A u \in Workers : job[u].at = "store" => job[u].pair # new.pair,
           UNCHANGED <<store, granted, live, lapses>>
    PROVE  ConnectionInv'
<1> USE DEF ConnectionInv, Goes
<1>1. \A v \in Workers : job'[v] = IF v = w THEN new ELSE job[v]
  BY DEF ConnectionTyped
<1>2. ConnectionTyped'
  BY DEF ConnectionTyped
<1>3. Given'
  BY <1>1 DEF Given
<1>4. Kept'
  BY <1>1 DEF Kept
<1>5. TokenValid'
  BY <1>1 DEF TokenValid, Renewing
<1> QED
  BY <1>2, <1>3, <1>4, <1>5

LEMMA CallbackTakes == ConnectionInv /\ (\E w \in Workers : Callback(w)) => ConnectionInv'
<1> SUFFICES ASSUME ConnectionInv, NEW w \in Workers, Callback(w) PROVE ConnectionInv'
  OBVIOUS
<1>1. PICK a \in Accounts :
        Goes(w, [at |-> "request", kind |-> "code", pair |-> [account |-> a, number |-> 0]])
  BY DEF Callback
<1> DEFINE p == [account |-> a, number |-> 0]
           new == [at |-> "request", kind |-> "code", pair |-> p]
<1>2. p \in Pair /\ p.number = 0
  BY DEF Pair
<1>3. new \in Jobs /\ new.at = "request" /\ new.pair = p
  BY <1>2 DEF Jobs
<1>4. Goes(w, new) /\ job[w].at = "idle" /\ UNCHANGED <<store, granted, live, lapses>>
  BY <1>1 DEF Callback, Idle
<1>5. \A u \in Workers : job[u].at = "store" => job[u].pair.number > 0
  BY DEF ConnectionInv, Kept, Given
<1>6. granted \in Nat
  BY DEF ConnectionInv, ConnectionTyped
<1> HIDE DEF new, p
<1> QED
  BY <1>2, <1>3, <1>4, <1>5, <1>6, Taken

LEMMA RenewalTakes == ConnectionInv /\ (\E w \in Workers : EnsureFreshToken(w)) => ConnectionInv'
<1> SUFFICES ASSUME ConnectionInv, NEW w \in Workers, EnsureFreshToken(w) PROVE ConnectionInv'
  OBVIOUS
<1> DEFINE p == store.refresh
           new == [at |-> "request", kind |-> "refresh", pair |-> p]
<1>1. p \in Pair
  BY DEF ConnectionInv, ConnectionTyped, Columns
<1>2. new \in Jobs /\ new.at = "request" /\ new.pair = p
  BY <1>1 DEF Jobs
<1>3. Goes(w, new) /\ job[w].at = "idle" /\ UNCHANGED <<store, granted, live, lapses>>
  BY DEF EnsureFreshToken, Idle
<1>4. \A u \in Workers : job[u].at = "store" => job[u].pair # p
  BY DEF ConnectionInv, Kept
<1>5. p.number <= granted
  BY DEF ConnectionInv, Given
<1> HIDE DEF new, p
<1> QED
  BY <1>2, <1>3, <1>4, <1>5, Taken

LEMMA RequestGives == ConnectionInv /\ (\E w \in Workers : RequestToken(w)) => ConnectionInv'
<1> SUFFICES ASSUME ConnectionInv, NEW w \in Workers, RequestToken(w) PROVE ConnectionInv'
  OBVIOUS
<1> DEFINE from == job[w].pair
           new == [from EXCEPT !.number = granted + 1]
           mine == [job[w] EXCEPT !.at = "store", !.pair = new]
<1>1. from \in Pair /\ job[w] \in Jobs /\ job[w].at = "request" /\ granted \in Nat
  BY DEF ConnectionInv, ConnectionTyped, Jobs, RequestToken
<1>2. CASE job[w].kind = "code" \/ from \in live
  <2>1. /\ granted' = granted + 1 /\ live' = (live \ {from}) \cup {new}
        /\ job' = [job EXCEPT ![w] = mine] /\ UNCHANGED <<store, lapses>>
    BY <1>2 DEF RequestToken, Goes
  <2>2. new \in Pair /\ new.number = granted + 1
    BY <1>1 DEF Pair
  <2>3. mine \in Jobs /\ mine.at = "store" /\ mine.pair = new
    BY <1>1, <2>2 DEF Jobs
  <2> HIDE DEF new, mine
  <2>4. \A v \in Workers : job'[v] = IF v = w THEN mine ELSE job[v]
    BY <2>1 DEF ConnectionInv, ConnectionTyped
  <2>5. ConnectionTyped'
    BY <2>1, <2>2, <2>3 DEF ConnectionInv, ConnectionTyped
  <2>6. \A p \in Pair : p.number \in Nat
    BY DEF Pair
  <2>7. /\ store.refresh \in Pair
        /\ \A v \in Workers : job[v].pair \in Pair
        /\ live \subseteq Pair
    BY DEF ConnectionInv, ConnectionTyped, Columns, Jobs
  <2>8. Given'
    BY <1>1, <2>1, <2>2, <2>3, <2>4, <2>6, <2>7 DEF ConnectionInv, Given
  <2>9. /\ store.refresh # new
        /\ \A v \in Workers : job[v].pair # new
    BY <1>1, <2>2, <2>6, <2>7 DEF ConnectionInv, Given
  <2>10. Kept'
    BY <1>1, <2>1, <2>3, <2>4, <2>9 DEF ConnectionInv, Kept
  <2>11. TokenValid'
    BY <2>3, <2>4 DEF TokenValid, Renewing
  <2> QED
    BY <2>5, <2>8, <2>10, <2>11 DEF ConnectionInv
<1>3. CASE ~(job[w].kind = "code" \/ from \in live)
  <2>1. Goes(w, NoJob) /\ UNCHANGED <<store, granted, live, lapses>>
    BY <1>3 DEF RequestToken
  <2>2. NoPair \in Pair /\ NoPair.number = 0
    BY DEF NoPair, Pair
  <2>3. NoJob \in Jobs /\ NoJob.at = "idle" /\ NoJob.pair = NoPair
    BY <2>2 DEF NoJob, Jobs
  <2>4. \A u \in Workers : job[u].at = "store" => job[u].pair # NoPair
    BY <2>2 DEF ConnectionInv, Kept, Given
  <2> QED
    BY <1>1, <2>1, <2>2, <2>3, <2>4, Taken
<1> QED
  BY <1>2, <1>3

LEMMA StoreKeeps == ConnectionInv /\ (\E w \in Workers : StoreToken(w)) => ConnectionInv'
<1> SUFFICES ASSUME ConnectionInv, NEW w \in Workers, StoreToken(w) PROVE ConnectionInv'
  OBVIOUS
<1> DEFINE p == job[w].pair
<1>1. p \in Pair /\ p.account \in Accounts \cup {"none"} /\ store \in Columns /\ job[w].at = "store"
  BY DEF ConnectionInv, ConnectionTyped, Jobs, Pair, StoreToken
<1>2. store' \in Columns /\ store'.refresh = p
  <2>1. CASE job[w].kind = "refresh"
    BY <1>1, <2>1 DEF StoreToken, Renewed, Columns
  <2>2. CASE job[w].kind # "refresh"
    BY <1>1, <2>2 DEF StoreToken, Columns
  <2> QED
    BY <2>1, <2>2
<1>3. NoPair \in Pair /\ NoPair.number = 0
  BY DEF NoPair, Pair
<1>4. NoJob \in Jobs /\ NoJob.at = "idle" /\ NoJob.pair = NoPair
  BY <1>3 DEF NoJob, Jobs
<1>5. job' = [job EXCEPT ![w] = NoJob] /\ UNCHANGED <<granted, live, lapses>>
  BY DEF StoreToken, Goes
<1>6. \A v \in Workers : job'[v] = IF v = w THEN NoJob ELSE job[v]
  BY <1>5 DEF ConnectionInv, ConnectionTyped
<1>7. p \in live /\ p.number <= granted /\ granted \in Nat
  BY <1>1 DEF ConnectionInv, Kept, Given, ConnectionTyped
<1>8. \A u \in Workers \ {w} : job[u].at = "store" => job[u].pair # p /\ job[u].pair # NoPair
  BY <1>3 DEF ConnectionInv, Kept, Given
<1> HIDE DEF p
<1>9. ConnectionTyped'
  BY <1>2, <1>4, <1>5 DEF ConnectionInv, ConnectionTyped
<1>10. Given'
  BY <1>2, <1>3, <1>4, <1>5, <1>6, <1>7 DEF ConnectionInv, Given
<1>11. Kept'
  BY <1>2, <1>4, <1>5, <1>6, <1>8 DEF ConnectionInv, Kept
<1>12. TokenValid'
  BY <1>2, <1>5, <1>7 DEF TokenValid
<1> QED
  BY <1>9, <1>10, <1>11, <1>12 DEF ConnectionInv

LEMMA LossCounts == ConnectionInv /\ (\E w \in Workers : TokenLost(w)) => ConnectionInv'
<1> SUFFICES ASSUME ConnectionInv, NEW w \in Workers, TokenLost(w) PROVE ConnectionInv'
  OBVIOUS
<1>1. NoPair \in Pair /\ NoPair.number = 0
  BY DEF NoPair, Pair
<1>2. NoJob \in Jobs /\ NoJob.at = "idle" /\ NoJob.pair = NoPair
  BY <1>1 DEF NoJob, Jobs
<1>3. /\ job' = [job EXCEPT ![w] = NoJob] /\ lapses' = lapses + 1
      /\ UNCHANGED <<store, granted, live>>
  BY DEF TokenLost, Goes
<1>4. \A v \in Workers : job'[v] = IF v = w THEN NoJob ELSE job[v]
  BY <1>3 DEF ConnectionInv, ConnectionTyped
<1>5. granted \in Nat /\ lapses \in Nat
  BY DEF ConnectionInv, ConnectionTyped
<1>6. \A u \in Workers : job[u].at = "store" => job[u].pair # NoPair
  BY <1>1 DEF ConnectionInv, Kept, Given
<1>7. ConnectionTyped'
  BY <1>2, <1>3 DEF ConnectionInv, ConnectionTyped
<1>8. Given'
  BY <1>1, <1>2, <1>3, <1>4, <1>5 DEF ConnectionInv, Given
<1>9. Kept'
  BY <1>2, <1>3, <1>4, <1>6 DEF ConnectionInv, Kept
<1>10. TokenValid'
  BY <1>3, <1>5 DEF TokenValid
<1> QED
  BY <1>7, <1>8, <1>9, <1>10 DEF ConnectionInv

LEMMA RowKeeps == ConnectionInv /\ (Disconnect \/ Age \/ UNCHANGED connectionVars) => ConnectionInv'
<1> SUFFICES ASSUME ConnectionInv, Disconnect \/ Age \/ UNCHANGED connectionVars PROVE ConnectionInv'
  OBVIOUS
<1>1. NoPair \in Pair /\ NoPair.number = 0
  BY DEF NoPair, Pair
<1>2. Blank \in Columns /\ Blank.refresh = NoPair
  BY <1>1 DEF Blank, Columns
<1>3. /\ store' \in Columns /\ store'.refresh \in {NoPair, store.refresh}
      /\ UNCHANGED <<granted, live, job, lapses>>
  <2>1. CASE Disconnect
    BY <1>2, <2>1 DEF Disconnect
  <2>2. CASE Age
    BY <2>2 DEF Age, ConnectionInv, ConnectionTyped, Columns
  <2>3. CASE UNCHANGED connectionVars
    BY <2>3 DEF connectionVars, ConnectionInv, ConnectionTyped
  <2> QED
    BY <2>1, <2>2, <2>3
<1>4. granted \in Nat /\ \A u \in Workers : job[u].at = "store" => job[u].pair # NoPair
  BY <1>1 DEF ConnectionInv, Kept, Given, ConnectionTyped
<1>5. ConnectionTyped'
  BY <1>3 DEF ConnectionInv, ConnectionTyped
<1>6. Given'
  BY <1>1, <1>3, <1>4 DEF ConnectionInv, Given
<1>7. Kept'
  BY <1>3, <1>4 DEF ConnectionInv, Kept
<1>8. TokenValid'
  BY <1>3 DEF ConnectionInv, TokenValid, Renewing
<1> QED
  BY <1>5, <1>6, <1>7, <1>8 DEF ConnectionInv

\* Unless an answer was lost, the stored refresh token is one Mercado Pago takes,
\* however many callbacks, renewals and disconnections run at once: the guarantee
\* of ensureFreshToken, which writes both tokens of every answer.
THEOREM RefreshStays == ConnectionSpec => []RefreshKept
<1>1. ConnectionInv /\ [ConnectionNext]_connectionVars => ConnectionInv'
  BY CallbackTakes, RenewalTakes, RequestGives, StoreKeeps, LossCounts, RowKeeps DEF ConnectionNext
<1>2. ConnectionInv => RefreshKept
  BY DEF ConnectionInv, TokenValid, Renewing, RefreshKept, Settled
<1> QED
  BY ConnectionStart, <1>1, <1>2, PTL DEF ConnectionSpec
=============================================================================
